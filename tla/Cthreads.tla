------------------------------ MODULE Cthreads ------------------------------
(***************************************************************************)
(* cthreads.c over POSIX threads: threads that are created, joined,        *)
(* detached and cancelled, one mutex with its condition variable, one      *)
(* read-write lock and one semaphore.  Almost every function is one call   *)
(* of pthreads; the two timed waits compute a deadline first.              *)
(*                                                                         *)
(* A call that may have to wait is two steps, its entry and its return.    *)
(* Time is counted in milliseconds; MsPerSecond of them are a second.      *)
(***************************************************************************)
EXTENDS Naturals, FiniteSets

CONSTANTS
  Threads, Main,  \* the threads, and the one that runs from the start
  Nobody,         \* in place of a thread that owns a lock
  MsPerSecond,    \* 1000 in the code
  Millis,         \* arguments ms of the timed waits
  MaxClock,       \* bound on the time
  MaxPosts,       \* bound on the semaphore's count
  MaxCalls        \* bound on the calls of all threads

ASSUME CthreadsAssumption ==
  /\ Main \in Threads /\ Nobody \notin Threads
  /\ MsPerSecond \in Nat \ {0} /\ Millis \subseteq Nat
  /\ {MaxClock, MaxPosts, MaxCalls} \subseteq Nat

VARIABLES
  clock,
  life,          \* per thread: "none", "running", "ended", "gone"
  detached,      \* threads whose end nobody waits for
  cancelled,     \* threads asked to end at their next cancellation point
  waits,         \* per thread: what it waits for, and a timed wait's deadline
  mutex,         \* its owner
  rwlock,        \* its readers and its writer
  sem,           \* its count
  timed,         \* per thread: its last timed wait
  made           \* how many calls have been made

threadVars == <<clock, life, detached, cancelled, waits, mutex, rwlock, sem, timed, made>>

Nothing == [for |-> "nothing", until |-> 0, who |-> Main]
For(what) == [Nothing EXCEPT !.for = what]
NotTimed == [sts |-> "none", since |-> 0, ms |-> 0, at |-> 0]

cthreads_mutex_init == Nobody
cthreads_rwlock_init == [readers |-> {}, writer |-> Nobody]
cthreads_sem_init == 0

ThreadsInit ==
  /\ clock = 0
  /\ life = [t \in Threads |-> IF t = Main THEN "running" ELSE "none"]
  /\ detached = {} /\ cancelled = {}
  /\ waits = [t \in Threads |-> Nothing]
  /\ mutex = cthreads_mutex_init
  /\ rwlock = cthreads_rwlock_init
  /\ sem = cthreads_sem_init
  /\ timed = [t \in Threads |-> NotTimed]
  /\ made = 0

Runs(t) == life[t] = "running" /\ waits[t].for = "nothing"
Waits(t, what) == waits' = [waits EXCEPT ![t] = what]
Resumes(t) == Waits(t, Nothing)

objects == <<mutex, rwlock, sem>>
threads == <<life, detached, cancelled>>

-----------------------------------------------------------------------------
(* Threads.  A joined or detached thread that has ended is gone.             *)

cthreads_thread_create(c, t, attr) ==
  /\ Runs(c) /\ life[t] = "none"
  /\ life' = [life EXCEPT ![t] = "running"]
  /\ detached' = IF attr = "detached" THEN detached \cup {t} ELSE detached
  /\ UNCHANGED <<clock, cancelled, waits, objects, timed>>

Joinable(t) == life[t] \in {"running", "ended"} /\ t \notin detached

cthreads_thread_detach(c, t) ==
  /\ Runs(c) /\ Joinable(t)
  /\ \A u \in Threads : waits[u] # [For("join") EXCEPT !.who = t]
  /\ detached' = detached \cup {t}
  /\ life' = [life EXCEPT ![t] = IF @ = "ended" THEN "gone" ELSE @]
  /\ UNCHANGED <<clock, cancelled, waits, objects, timed>>

\* One joins a thread, and never itself.  What the thread returned goes into a
\* variable of the function and is lost.
cthreads_thread_join(c, t) ==
  LET join == [For("join") EXCEPT !.who = t] IN
  /\ Runs(c) /\ Joinable(t) /\ c # t
  /\ \A u \in Threads : waits[u] # join
  /\ Waits(c, join)
  /\ UNCHANGED <<clock, threads, objects, timed>>

Joined(c) ==
  /\ waits[c].for = "join" /\ life[waits[c].who] = "ended"
  /\ life' = [life EXCEPT ![waits[c].who] = "gone"]
  /\ Resumes(c)
  /\ UNCHANGED <<clock, detached, cancelled, objects, timed>>

\* The thread ends; its locks stay as they are.
Ends(t) ==
  /\ life' = [life EXCEPT ![t] = IF t \in detached THEN "gone" ELSE "ended"]
  /\ Resumes(t)
  /\ UNCHANGED <<clock, detached, cancelled, timed>>

cthreads_thread_exit(t) == Runs(t) /\ Ends(t) /\ UNCHANGED objects

cthreads_thread_cancel(c, t) ==
  /\ Runs(c) /\ life[t] \in {"running", "ended"}
  /\ cancelled' = cancelled \cup {t}
  /\ UNCHANGED <<clock, life, detached, waits, objects, timed>>

\* Joins and waits are cancellation points, locks are not.  A thread cancelled
\* in a wait for the condition has the mutex again before it ends.
DiesWaiting(t) ==
  /\ t \in cancelled
  /\ \/ waits[t].for \in {"join", "sem"} /\ UNCHANGED mutex
     \/ waits[t].for = "cond" /\ mutex = Nobody /\ mutex' = t
  /\ Ends(t)
  /\ UNCHANGED <<rwlock, sem>>

-----------------------------------------------------------------------------
(* The mutex.  Its owner does not lock it again.                             *)

cthreads_mutex_lock(t) ==
  /\ Runs(t) /\ mutex # t
  /\ Waits(t, For("mutex"))
  /\ UNCHANGED <<clock, threads, objects, timed>>

Locked(t) ==
  /\ waits[t].for = "mutex" /\ mutex = Nobody
  /\ mutex' = t
  /\ Resumes(t)
  /\ UNCHANGED <<clock, threads, rwlock, sem, timed>>

cthreads_mutex_trylock(t) ==
  /\ Runs(t)
  /\ mutex' = IF mutex = Nobody THEN t ELSE mutex
  /\ UNCHANGED <<clock, threads, waits, rwlock, sem, timed>>

cthreads_mutex_unlock(t) ==
  /\ Runs(t) /\ mutex = t
  /\ mutex' = Nobody
  /\ UNCHANGED <<clock, threads, waits, rwlock, sem, timed>>

-----------------------------------------------------------------------------
(* Timed waits.                                                              *)

\* Bug: the seconds of ms are forgotten.
DeadlineFraction(ms) ==
  [sec |-> clock \div MsPerSecond, nsec |-> (clock % MsPerSecond) + (ms % MsPerSecond)]

\* The seconds and the rest of ms are added to those of the clock apart from
\* each other, and nothing is carried.
Deadline(ms) ==
  [sec |-> clock \div MsPerSecond + ms \div MsPerSecond,
   nsec |-> (clock % MsPerSecond) + (ms % MsPerSecond)]

TimedResult(sts, since, ms) == [sts |-> sts, since |-> since, ms |-> ms, at |-> clock]

\* A deadline with a whole second of nanoseconds is refused, and nothing done.
Refused(t, ms) ==
  /\ Deadline(ms).nsec >= MsPerSecond
  /\ timed' = [timed EXCEPT ![t] = TimedResult("invalid", clock, ms)]
  /\ UNCHANGED <<waits, mutex>>

WaitsUntil(t, what, ms) ==
  /\ Deadline(ms).nsec < MsPerSecond
  /\ Waits(t, [For(what) EXCEPT
                 !.until = Deadline(ms).sec * MsPerSecond + Deadline(ms).nsec])
  /\ timed' = [timed EXCEPT ![t] = TimedResult("waiting", clock, ms)]

HasDeadline(t) == timed[t].sts = "waiting"
TimeIsUp(t) == HasDeadline(t) /\ clock >= waits[t].until
Answered(t, sts) ==
  timed' = [timed EXCEPT ![t] = IF HasDeadline(t)
                                  THEN TimedResult(sts, @.since, @.ms) ELSE @]

-----------------------------------------------------------------------------
(* The condition variable.                                                   *)

cthreads_cond_wait(t) ==
  /\ Runs(t) /\ mutex = t
  /\ mutex' = Nobody
  /\ Waits(t, For("cond"))
  /\ UNCHANGED <<clock, threads, rwlock, sem, timed>>

cthreads_cond_timedwait(t, ms) ==
  /\ Runs(t) /\ mutex = t
  /\ \/ Refused(t, ms)
     \/ WaitsUntil(t, "cond", ms) /\ mutex' = Nobody
  /\ UNCHANGED <<clock, threads, rwlock, sem>>

\* Woken or late, the thread wants the mutex again.
Wakes(t, sts) == Waits(t, For("mutex")) /\ Answered(t, sts)

cthreads_cond_signal(c) ==
  LET waiting == {t \in Threads : waits[t].for = "cond"} IN
  /\ Runs(c)
  /\ IF waiting = {} THEN UNCHANGED <<waits, timed>>
     ELSE \E t \in waiting : Wakes(t, "woken")
  /\ UNCHANGED <<clock, threads, objects>>

cthreads_cond_broadcast(c) ==
  LET waiting == {t \in Threads : waits[t].for = "cond"} IN
  /\ Runs(c)
  /\ waits' = [t \in Threads |-> IF t \in waiting THEN For("mutex") ELSE waits[t]]
  /\ timed' = [t \in Threads |-> IF t \in waiting /\ HasDeadline(t)
                 THEN TimedResult("woken", timed[t].since, timed[t].ms) ELSE timed[t]]
  /\ UNCHANGED <<clock, threads, objects>>

CondTimesOut(t) ==
  /\ waits[t].for = "cond" /\ TimeIsUp(t)
  /\ Wakes(t, "timed_out")
  /\ UNCHANGED <<clock, threads, objects>>

-----------------------------------------------------------------------------
(* The read-write lock.  One holds it once.                                  *)

Holds(t) == t \in rwlock.readers \/ rwlock.writer = t

cthreads_rwlock_rdlock(t) ==
  /\ Runs(t) /\ ~Holds(t)
  /\ Waits(t, For("read"))
  /\ UNCHANGED <<clock, threads, objects, timed>>

cthreads_rwlock_wrlock(t) ==
  /\ Runs(t) /\ ~Holds(t)
  /\ Waits(t, For("write"))
  /\ UNCHANGED <<clock, threads, objects, timed>>

RwLocked(t) ==
  /\ rwlock.writer = Nobody
  /\ \/ waits[t].for = "read" /\ rwlock' = [rwlock EXCEPT !.readers = @ \cup {t}]
     \/ /\ waits[t].for = "write" /\ rwlock.readers = {}
        /\ rwlock' = [rwlock EXCEPT !.writer = t]
  /\ Resumes(t)
  /\ UNCHANGED <<clock, threads, mutex, sem, timed>>

cthreads_rwlock_unlock(t) ==
  /\ Runs(t) /\ Holds(t)
  /\ rwlock' = [readers |-> rwlock.readers \ {t},
                writer |-> IF rwlock.writer = t THEN Nobody ELSE rwlock.writer]
  /\ UNCHANGED <<clock, threads, waits, mutex, sem, timed>>

-----------------------------------------------------------------------------
(* The semaphore.                                                            *)

cthreads_sem_wait(t) ==
  /\ Runs(t)
  /\ Waits(t, For("sem"))
  /\ UNCHANGED <<clock, threads, objects, timed>>

cthreads_sem_trywait(t) ==
  /\ Runs(t)
  /\ sem' = IF sem > 0 THEN sem - 1 ELSE sem
  /\ UNCHANGED <<clock, threads, waits, mutex, rwlock, timed>>

cthreads_sem_timedwait(t, ms) ==
  /\ Runs(t)
  /\ Refused(t, ms) \/ (WaitsUntil(t, "sem", ms) /\ UNCHANGED mutex)
  /\ UNCHANGED <<clock, threads, rwlock, sem>>

cthreads_sem_post(t) ==
  /\ Runs(t) /\ sem < MaxPosts
  /\ sem' = sem + 1
  /\ UNCHANGED <<clock, threads, waits, mutex, rwlock, timed>>

\* It passes if it can, and gives up only if it cannot.
SemReturns(t) ==
  /\ waits[t].for = "sem"
  /\ \/ sem > 0 /\ sem' = sem - 1 /\ Answered(t, "woken")
     \/ sem = 0 /\ TimeIsUp(t) /\ UNCHANGED sem /\ Answered(t, "timed_out")
  /\ Resumes(t)
  /\ UNCHANGED <<clock, threads, mutex, rwlock>>

Tick ==
  /\ clock < MaxClock
  /\ clock' = clock + 1
  /\ UNCHANGED <<threads, waits, objects, timed>>

ThreadCalls(t) ==
  \/ cthreads_thread_exit(t)
  \/ cthreads_mutex_lock(t) \/ cthreads_mutex_trylock(t) \/ cthreads_mutex_unlock(t)
  \/ cthreads_cond_wait(t) \/ cthreads_cond_signal(t) \/ cthreads_cond_broadcast(t)
  \/ cthreads_rwlock_rdlock(t) \/ cthreads_rwlock_wrlock(t) \/ cthreads_rwlock_unlock(t)
  \/ cthreads_sem_wait(t) \/ cthreads_sem_trywait(t) \/ cthreads_sem_post(t)
  \/ \E ms \in Millis : cthreads_cond_timedwait(t, ms) \/ cthreads_sem_timedwait(t, ms)
  \/ \E u \in Threads :
       \/ \E attr \in {"none", "detached"} : cthreads_thread_create(t, u, attr)
       \/ cthreads_thread_detach(t, u) \/ cthreads_thread_join(t, u)
       \/ cthreads_thread_cancel(t, u)

CallReturns(t) ==
  \/ Joined(t) \/ DiesWaiting(t) \/ Locked(t) \/ CondTimesOut(t) \/ RwLocked(t) \/ SemReturns(t)

ThreadsNext ==
  \/ Tick /\ UNCHANGED made
  \/ \E t \in Threads : \/ made < MaxCalls /\ made' = made + 1 /\ ThreadCalls(t)
                        \/ CallReturns(t) /\ UNCHANGED made

ThreadsSpec == ThreadsInit /\ [][ThreadsNext]_threadVars

-----------------------------------------------------------------------------
(***************************************************************************)
(* A timed wait that gives up has waited for the time it was given, and    *)
(* a wait that is refused met a clock and a time whose milliseconds add up *)
(* to a second: that is the only reason to refuse one.                     *)
(***************************************************************************)
TimedWaits ==
  \A t \in Threads :
    LET r == timed[t] IN
    /\ r.sts = "timed_out" => r.at >= r.since + r.ms
    /\ r.sts = "invalid" => (r.since % MsPerSecond) + (r.ms % MsPerSecond) >= MsPerSecond
=============================================================================
