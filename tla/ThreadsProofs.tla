---------------------------- MODULE ThreadsProofs ----------------------------
(***************************************************************************)
(* Proofs about what threads share: the one-slot channel that a mailbox    *)
(* implements (OneSlotChannel), and the timed waits of cthreads.c for any  *)
(* threads, clock and times (Cthreads).                                    *)
(***************************************************************************)
EXTENDS OneSlotChannel, Cthreads, TLAPS

-----------------------------------------------------------------------------
(* The one-slot channel                                                      *)

LEMMA ChInitInv == ChInit => ChInv
BY DEF ChInit, ChInv, ChTypeOK, ChOrder, ChLatestKept

LEMMA ChNextInv == ChInv /\ [ChNext]_chVars => ChInv'
<1> SUFFICES ASSUME ChInv, [ChNext]_chVars PROVE ChInv'
  OBVIOUS
<1> USE DEF ChInv, ChTypeOK, ChOrder, ChLatestKept
<1>1. CASE Put
  BY <1>1 DEF Put
<1>2. CASE Deliver
  BY <1>2 DEF Deliver
<1>3. CASE Lose
  BY <1>3 DEF Lose
<1>4. CASE GoDown
  BY <1>4 DEF GoDown
<1>5. CASE UNCHANGED chVars
  BY <1>5 DEF chVars
<1>6. QED
  BY <1>1, <1>2, <1>3, <1>4, <1>5 DEF ChNext

(* A packet is never delivered twice nor after a newer one, and while the    *)
(* connection is up the latest packet is never the one that is missing.      *)
THEOREM ChannelGuarantees == ChSpec => []ChInv
<1>1. QED
  BY ChInitInv, ChNextInv, PTL DEF ChSpec

-----------------------------------------------------------------------------
(* Timed waits                                                               *)

Lives == {"none", "running", "ended", "gone"}
Waited == [for : {"nothing", "join", "mutex", "cond", "read", "write", "sem"},
           until : Nat, who : Threads]
Timed == [sts : {"none", "invalid", "waiting", "woken", "timed_out"},
          since : Nat, ms : Nat, at : Nat]

ThreadsTypeOK ==
  /\ clock \in Nat
  /\ life \in [Threads -> Lives]
  /\ waits \in [Threads -> Waited]
  /\ timed \in [Threads -> Timed]

InTimedWait(t) == waits[t].for \in {"cond", "sem"}
Dead(t) == life[t] \in {"ended", "gone"}

\* A timed wait that has not been answered goes on, and until exactly the time
\* that was asked for; or the thread was cancelled in it.
DeadlineInv ==
  \A t \in Threads : HasDeadline(t) =>
    /\ InTimedWait(t) \/ Dead(t)
    /\ InTimedWait(t) => waits[t].until = timed[t].since + timed[t].ms

ThreadsInv == ThreadsTypeOK /\ DeadlineInv /\ TimedWaits

LEMMA WaitedFacts ==
  /\ Nothing \in Waited /\ Nothing.for = "nothing" /\ Nothing.until = 0
  /\ \A what \in {"join", "mutex", "cond", "read", "write", "sem"} :
       /\ For(what) \in Waited /\ For(what).for = what
       /\ \A t \in Threads : [For(what) EXCEPT !.who = t] \in Waited
       /\ \A t \in Threads : [For(what) EXCEPT !.who = t].for = what
       /\ \A n \in Nat : [For(what) EXCEPT !.until = n] \in Waited
       /\ \A n \in Nat : [For(what) EXCEPT !.until = n].until = n
       /\ \A n \in Nat : [For(what) EXCEPT !.until = n].for = what
BY CthreadsAssumption DEF Nothing, For, Waited

LEMMA TimedResultFacts ==
  ASSUME ThreadsTypeOK, NEW since \in Nat, NEW ms \in Nat,
         NEW sts \in {"invalid", "waiting", "woken", "timed_out"}
  PROVE  /\ TimedResult(sts, since, ms) \in Timed
         /\ TimedResult(sts, since, ms).sts = sts
         /\ TimedResult(sts, since, ms).since = since
         /\ TimedResult(sts, since, ms).ms = ms
         /\ TimedResult(sts, since, ms).at = clock
BY DEF TimedResult, Timed, ThreadsTypeOK

\* Seconds and milliseconds added apart are the sum.
LEMMA DeadlineIsSum ==
  ASSUME ThreadsTypeOK, NEW ms \in Millis
  PROVE  /\ ms \in Nat
         /\ Deadline(ms).sec * MsPerSecond + Deadline(ms).nsec = clock + ms
         /\ Deadline(ms).nsec = (clock % MsPerSecond) + (ms % MsPerSecond)
<1>1. ms \in Nat /\ clock \in Nat /\ MsPerSecond \in Nat /\ MsPerSecond > 0
  BY CthreadsAssumption DEF ThreadsTypeOK
<1>2. \A n \in Nat : /\ n \div MsPerSecond \in Nat /\ n % MsPerSecond \in Nat
                     /\ n = MsPerSecond * (n \div MsPerSecond) + (n % MsPerSecond)
  BY <1>1
<1> DEFINE a == clock \div MsPerSecond
           b == ms \div MsPerSecond
<1>3. a \in Nat /\ b \in Nat /\ (a + b) * MsPerSecond = MsPerSecond * a + MsPerSecond * b
  BY <1>1, <1>2
<1>4. QED
  BY <1>1, <1>2, <1>3 DEF Deadline

\* Of a thread that makes a call no timed wait is open.
LEMMA RunsAnswered ==
  ASSUME ThreadsInv, NEW t \in Threads, Runs(t)
  PROVE  ~HasDeadline(t)
BY DEF ThreadsInv, DeadlineInv, InTimedWait, Dead, Runs

-----------------------------------------------------------------------------
(* What a step may do to the waits                                           *)

\* Nothing but time, the ends of threads, and locks.
LEMMA WaitsStay ==
  ASSUME ThreadsInv, UNCHANGED <<waits, timed>>,
         clock' \in Nat, life' \in [Threads -> Lives],
         \A u \in Threads : Dead(u) => Dead(u)'
  PROVE  ThreadsInv'
BY DEF ThreadsInv, ThreadsTypeOK, DeadlineInv, HasDeadline, InTimedWait, Dead, TimedWaits

\* A thread waits, or stops to wait, and no timed wait is open.
LEMMA WaitsChange ==
  ASSUME ThreadsInv, NEW t \in Threads, NEW w \in Waited, Waits(t, w),
         UNCHANGED <<clock, timed>>,
         life' \in [Threads -> Lives], \A u \in Threads : Dead(u) => Dead(u)',
         \/ ~HasDeadline(t)
         \/ w.for \notin {"cond", "sem"} /\ Dead(t)'
  PROVE  ThreadsInv'
<1>1. /\ waits' \in [Threads -> Waited] /\ waits'[t] = w
      /\ \A u \in Threads : u # t => waits'[u] = waits[u]
  BY DEF Waits, ThreadsInv, ThreadsTypeOK
<1>2. ThreadsTypeOK' /\ TimedWaits'
  BY <1>1 DEF ThreadsInv, ThreadsTypeOK, TimedWaits
<1>3. DeadlineInv'
  BY <1>1 DEF ThreadsInv, DeadlineInv, HasDeadline, InTimedWait, Dead
<1>4. QED
  BY <1>2, <1>3 DEF ThreadsInv

\* A timed wait is answered: it was the time, or it was woken.
LEMMA AnswerKeeps ==
  ASSUME ThreadsInv, NEW t \in Threads, NEW w \in Waited, Waits(t, w),
         w.for \notin {"cond", "sem"}, InTimedWait(t),
         NEW sts \in {"woken", "timed_out"}, Answered(t, sts),
         sts = "timed_out" => TimeIsUp(t), UNCHANGED <<clock, life>>
  PROVE  ThreadsInv'
<1>1. /\ waits' \in [Threads -> Waited] /\ waits'[t] = w
      /\ \A u \in Threads : u # t => waits'[u] = waits[u]
  BY DEF Waits, ThreadsInv, ThreadsTypeOK
<1>2. ThreadsTypeOK /\ timed[t] \in Timed /\ timed[t].since \in Nat /\ timed[t].ms \in Nat
  BY DEF ThreadsInv, ThreadsTypeOK, Timed
<1> DEFINE r == IF HasDeadline(t) THEN TimedResult(sts, timed[t].since, timed[t].ms)
                                  ELSE timed[t]
<1>3. /\ timed' \in [Threads -> Timed] /\ timed'[t] = r
      /\ \A u \in Threads : u # t => timed'[u] = timed[u]
  <2>1. r \in Timed
    BY <1>2, TimedResultFacts
  <2>2. timed' = [timed EXCEPT ![t] = r]
    BY DEF Answered
  <2>3. QED
    BY <1>2, <2>1, <2>2 DEF ThreadsTypeOK
<1>4. r.sts # "waiting"
  BY <1>2, TimedResultFacts DEF HasDeadline
<1>5. ThreadsTypeOK'
  BY <1>1, <1>2, <1>3 DEF ThreadsTypeOK
<1>6. DeadlineInv'
  BY <1>1, <1>3, <1>4 DEF ThreadsInv, DeadlineInv, HasDeadline, InTimedWait, Dead
<1>7. TimedWaits'
  <2>1. CASE HasDeadline(t)
    <3>1. waits[t].until = timed[t].since + timed[t].ms
      BY <2>1 DEF ThreadsInv, DeadlineInv
    <3>2. r.sts = sts /\ r.since = timed[t].since /\ r.ms = timed[t].ms /\ r.at = clock
      BY <1>2, <2>1, TimedResultFacts
    <3>3. sts = "timed_out" => clock >= timed[t].since + timed[t].ms
      BY <3>1 DEF TimeIsUp
    <3>4. QED
      BY <1>3, <3>2, <3>3 DEF ThreadsInv, TimedWaits
  <2>2. CASE ~HasDeadline(t)
    BY <1>3, <2>2 DEF ThreadsInv, TimedWaits
  <2>3. QED
    BY <2>1, <2>2
<1>8. QED
  BY <1>5, <1>6, <1>7 DEF ThreadsInv

\* The entry of cthreads_cond_timedwait and of cthreads_sem_timedwait.
LEMMA TimedEntryKeeps ==
  ASSUME ThreadsInv, NEW t \in Threads, NEW ms \in Millis, Runs(t),
         NEW what \in {"cond", "sem"}, Refused(t, ms) \/ WaitsUntil(t, what, ms),
         UNCHANGED <<clock, life>>
  PROVE  ThreadsInv'
<1>1. ThreadsTypeOK /\ ms \in Nat /\ clock \in Nat
  BY DeadlineIsSum DEF ThreadsInv, ThreadsTypeOK
<1>2. CASE Refused(t, ms)
  <2> DEFINE r == TimedResult("invalid", clock, ms)
  <2>1. r \in Timed /\ r.sts = "invalid" /\ r.since = clock /\ r.ms = ms
    BY <1>1, TimedResultFacts
  <2> HIDE DEF r
  <2>2. timed' = [timed EXCEPT ![t] = r] /\ waits' = waits
    BY <1>2 DEF Refused, r
  <2>3. /\ timed' \in [Threads -> Timed] /\ timed'[t] = r
        /\ \A u \in Threads : u # t => timed'[u] = timed[u]
    BY <1>1, <2>1, <2>2 DEF ThreadsTypeOK
  <2>4. (clock % MsPerSecond) + (ms % MsPerSecond) >= MsPerSecond
    BY <1>1, <1>2, DeadlineIsSum DEF Refused
  <2>5. ThreadsTypeOK'
    BY <1>1, <2>2, <2>3 DEF ThreadsTypeOK
  <2>6. TimedWaits'
    BY <2>1, <2>3, <2>4 DEF ThreadsInv, TimedWaits
  <2>7. DeadlineInv'
    BY <2>1, <2>2, <2>3 DEF ThreadsInv, DeadlineInv, HasDeadline, InTimedWait, Dead
  <2>8. QED
    BY <2>5, <2>6, <2>7 DEF ThreadsInv
<1>3. CASE WaitsUntil(t, what, ms)
  <2> DEFINE r == TimedResult("waiting", clock, ms)
             w == [For(what) EXCEPT !.until = clock + ms]
  <2>1. r \in Timed /\ r.sts = "waiting" /\ r.since = clock /\ r.ms = ms
    BY <1>1, TimedResultFacts
  <2>2. w \in Waited /\ w.until = clock + ms
    BY <1>1, WaitedFacts
  <2>3. waits' = [waits EXCEPT ![t] = w] /\ timed' = [timed EXCEPT ![t] = r]
    BY <1>1, <1>3, DeadlineIsSum DEF WaitsUntil, Waits
  <2>9. w.for = what
    BY <1>1, WaitedFacts
  <2> HIDE DEF r, w
  <2>4. /\ timed' \in [Threads -> Timed] /\ timed'[t] = r
        /\ \A u \in Threads : u # t => timed'[u] = timed[u]
    BY <1>1, <2>1, <2>3 DEF ThreadsTypeOK
  <2>5. /\ waits' \in [Threads -> Waited] /\ waits'[t] = w
        /\ \A u \in Threads : u # t => waits'[u] = waits[u]
    BY <1>1, <2>2, <2>3 DEF ThreadsTypeOK
  <2>6. ThreadsTypeOK' /\ TimedWaits'
    BY <1>1, <2>1, <2>4, <2>5 DEF ThreadsInv, ThreadsTypeOK, TimedWaits
  <2>7. DeadlineInv'
    BY <2>1, <2>2, <2>9, <2>4, <2>5 DEF ThreadsInv, DeadlineInv, HasDeadline, InTimedWait, Dead
  <2>8. QED
    BY <2>6, <2>7 DEF ThreadsInv
<1>4. QED
  BY <1>2, <1>3

LEMMA BroadcastKeeps ==
  ASSUME ThreadsInv, NEW c \in Threads, cthreads_cond_broadcast(c)
  PROVE  ThreadsInv'
<1> DEFINE waiting == {t \in Threads : waits[t].for = "cond"}
           r(t) == TimedResult("woken", timed[t].since, timed[t].ms)
<1>1. /\ waits' = [t \in Threads |-> IF t \in waiting THEN For("mutex") ELSE waits[t]]
      /\ timed' = [t \in Threads |-> IF t \in waiting /\ HasDeadline(t) THEN r(t) ELSE timed[t]]
      /\ UNCHANGED <<clock, life>>
  BY DEF cthreads_cond_broadcast, threads
<1>2. ThreadsTypeOK
  BY DEF ThreadsInv
<1>3. For("mutex") \in Waited /\ For("mutex").for = "mutex"
  BY WaitedFacts
<1>4. \A t \in Threads : r(t) \in Timed /\ r(t).sts = "woken"
  <2> SUFFICES ASSUME NEW t \in Threads PROVE r(t) \in Timed /\ r(t).sts = "woken"
    OBVIOUS
  <2>1. timed[t].since \in Nat /\ timed[t].ms \in Nat
    BY <1>2 DEF ThreadsTypeOK, Timed
  <2>2. QED
    BY <1>2, <2>1, TimedResultFacts
<1> HIDE DEF r
<1>5. waits' \in [Threads -> Waited] /\ timed' \in [Threads -> Timed]
  BY <1>1, <1>2, <1>3, <1>4 DEF ThreadsTypeOK
<1>6. ThreadsTypeOK'
  BY <1>1, <1>2, <1>5 DEF ThreadsTypeOK
<1>7. \A t \in Threads :
        \/ waits'[t].for = "mutex" /\ timed'[t].sts = "woken"
        \/ waits'[t].for = "mutex" /\ timed'[t] = timed[t] /\ ~HasDeadline(t)
        \/ waits'[t] = waits[t] /\ timed'[t] = timed[t]
  BY <1>1, <1>3, <1>4
<1>8. DeadlineInv'
  BY <1>1, <1>7 DEF ThreadsInv, DeadlineInv, HasDeadline, InTimedWait, Dead
<1>9. TimedWaits'
  BY <1>7 DEF ThreadsInv, TimedWaits
<1>10. QED
  BY <1>6, <1>8, <1>9 DEF ThreadsInv

-----------------------------------------------------------------------------
(* The calls                                                                 *)

LEMMA ThreadCallsKeep ==
  ASSUME ThreadsInv, NEW t \in Threads, ThreadCalls(t)
  PROVE  ThreadsInv'
<1> USE DEF threads, objects
<1>0. ThreadsTypeOK
  BY DEF ThreadsInv
<1>1. Runs(t) => ~HasDeadline(t)
  BY RunsAnswered
<1>2. CASE cthreads_thread_exit(t)
  <2>1. /\ life' \in [Threads -> Lives] /\ Dead(t)'
        /\ \A u \in Threads : Dead(u) => Dead(u)'
    BY <1>0, <1>2 DEF cthreads_thread_exit, Ends, ThreadsTypeOK, Lives, Dead
  <2>2. Waits(t, Nothing) /\ Nothing \in Waited /\ UNCHANGED <<clock, timed>> /\ Runs(t)
    BY <1>2, WaitedFacts DEF cthreads_thread_exit, Ends, Resumes
  <2>3. QED
    BY <1>1, <2>1, <2>2, WaitsChange
<1>3. ASSUME NEW what \in {"mutex", "cond", "read", "write", "sem"}, Runs(t),
             Waits(t, For(what)), UNCHANGED <<clock, threads, timed>>
      PROVE  ThreadsInv'
  <2>1. For(what) \in Waited
    BY WaitedFacts
  <2>2. life' \in [Threads -> Lives] /\ \A u \in Threads : Dead(u) => Dead(u)'
    BY <1>0, <1>3 DEF ThreadsTypeOK, Dead
  <2>3. QED
    BY <1>1, <1>3, <2>1, <2>2, WaitsChange
<1>4. CASE \/ cthreads_mutex_lock(t) \/ cthreads_cond_wait(t) \/ cthreads_sem_wait(t)
           \/ cthreads_rwlock_rdlock(t) \/ cthreads_rwlock_wrlock(t)
  <2>1. Runs(t) /\ UNCHANGED <<clock, threads, timed>>
    BY <1>4 DEF cthreads_mutex_lock, cthreads_cond_wait, cthreads_sem_wait,
                cthreads_rwlock_rdlock, cthreads_rwlock_wrlock
  <2>2. \E what \in {"mutex", "cond", "read", "write", "sem"} : Waits(t, For(what))
    BY <1>4 DEF cthreads_mutex_lock, cthreads_cond_wait, cthreads_sem_wait,
                cthreads_rwlock_rdlock, cthreads_rwlock_wrlock
  <2>3. QED
    BY <1>3, <2>1, <2>2
<1>5. ASSUME UNCHANGED <<clock, life, waits, timed>>
      PROVE  ThreadsInv'
  BY <1>0, <1>5, WaitsStay DEF ThreadsTypeOK, Dead
<1>6. CASE \/ cthreads_mutex_trylock(t) \/ cthreads_mutex_unlock(t)
           \/ cthreads_rwlock_unlock(t) \/ cthreads_sem_trywait(t) \/ cthreads_sem_post(t)
           \/ \E u \in Threads : cthreads_thread_cancel(t, u)
  BY <1>5, <1>6 DEF cthreads_mutex_trylock, cthreads_mutex_unlock,
       cthreads_rwlock_unlock, cthreads_sem_trywait, cthreads_sem_post, cthreads_thread_cancel
<1>7. CASE cthreads_cond_broadcast(t)
  BY <1>7, BroadcastKeeps
<1>8. CASE cthreads_cond_signal(t)
  <2>1. CASE \E u \in Threads : waits[u].for = "cond" /\ Wakes(u, "woken")
    <3>1. PICK u \in Threads : waits[u].for = "cond" /\ Wakes(u, "woken")
      BY <2>1
    <3>2. For("mutex") \in Waited /\ For("mutex").for = "mutex"
      BY WaitedFacts
    <3>3. Waits(u, For("mutex")) /\ Answered(u, "woken") /\ InTimedWait(u)
      BY <3>1 DEF Wakes, InTimedWait
    <3>4. UNCHANGED <<clock, life>>
      BY <1>8 DEF cthreads_cond_signal
    <3>5. QED
      BY <3>2, <3>3, <3>4, AnswerKeeps
  <2>2. CASE UNCHANGED <<waits, timed>>
    BY <1>5, <1>8, <2>2 DEF cthreads_cond_signal
  <2>3. QED
    BY <1>8, <2>1, <2>2 DEF cthreads_cond_signal
<1>9. CASE \E ms \in Millis : cthreads_cond_timedwait(t, ms) \/ cthreads_sem_timedwait(t, ms)
  <2>1. PICK ms \in Millis : cthreads_cond_timedwait(t, ms) \/ cthreads_sem_timedwait(t, ms)
    BY <1>9
  <2>2. Runs(t) /\ UNCHANGED <<clock, life>>
    BY <2>1 DEF cthreads_cond_timedwait, cthreads_sem_timedwait
  <2>3. \E what \in {"cond", "sem"} : Refused(t, ms) \/ WaitsUntil(t, what, ms)
    BY <2>1 DEF cthreads_cond_timedwait, cthreads_sem_timedwait
  <2>4. QED
    BY <2>2, <2>3, TimedEntryKeeps
<1>10. ASSUME NEW u \in Threads, NEW attr \in {"none", "detached"},
              cthreads_thread_create(t, u, attr)
       PROVE  ThreadsInv'
  <2>1. life' \in [Threads -> Lives] /\ \A v \in Threads : Dead(v) => Dead(v)'
    BY <1>0, <1>10 DEF cthreads_thread_create, ThreadsTypeOK, Lives, Dead
  <2>2. QED
    BY <1>0, <1>10, <2>1, WaitsStay DEF cthreads_thread_create, ThreadsTypeOK
<1>11. ASSUME NEW u \in Threads, cthreads_thread_detach(t, u)
       PROVE  ThreadsInv'
  <2>1. life' \in [Threads -> Lives] /\ \A v \in Threads : Dead(v) => Dead(v)'
    BY <1>0, <1>11 DEF cthreads_thread_detach, ThreadsTypeOK, Lives, Dead
  <2>2. QED
    BY <1>0, <1>11, <2>1, WaitsStay DEF cthreads_thread_detach, ThreadsTypeOK
<1>12. ASSUME NEW u \in Threads, cthreads_thread_join(t, u)
       PROVE  ThreadsInv'
  <2> DEFINE w == [For("join") EXCEPT !.who = u]
  <2>1. w \in Waited /\ Waits(t, w) /\ Runs(t) /\ UNCHANGED <<clock, threads, timed>>
    BY <1>12, WaitedFacts DEF cthreads_thread_join
  <2> HIDE DEF w
  <2>2. life' \in [Threads -> Lives] /\ \A v \in Threads : Dead(v) => Dead(v)'
    BY <1>0, <2>1 DEF ThreadsTypeOK, Dead
  <2>3. QED
    BY <1>1, <2>1, <2>2, WaitsChange
<1>13. QED
  BY <1>2, <1>4, <1>6, <1>7, <1>8, <1>9, <1>10, <1>11, <1>12 DEF ThreadCalls

LEMMA CallReturnsKeep ==
  ASSUME ThreadsInv, NEW t \in Threads, CallReturns(t)
  PROVE  ThreadsInv'
<1> USE DEF threads, objects
<1>0. ThreadsTypeOK
  BY DEF ThreadsInv
<1>1. Nothing \in Waited /\ Nothing.for = "nothing"
      /\ For("mutex") \in Waited /\ For("mutex").for = "mutex"
  BY WaitedFacts
<1>2. ~InTimedWait(t) => ~HasDeadline(t) \/ Dead(t)
  BY DEF ThreadsInv, DeadlineInv
<1>3. CASE Joined(t)
  <2>1. life' \in [Threads -> Lives] /\ \A u \in Threads : Dead(u) => Dead(u)'
    BY <1>0, <1>3 DEF Joined, ThreadsTypeOK, Lives, Dead
  <2>2. Waits(t, Nothing) /\ UNCHANGED <<clock, timed>> /\ ~InTimedWait(t)
    BY <1>3 DEF Joined, Resumes, InTimedWait
  <2>3. QED
    BY <1>1, <1>2, <2>1, <2>2, WaitsChange
<1>4. CASE DiesWaiting(t)
  <2>1. /\ life' \in [Threads -> Lives] /\ Dead(t)'
        /\ \A u \in Threads : Dead(u) => Dead(u)'
    BY <1>0, <1>4 DEF DiesWaiting, Ends, ThreadsTypeOK, Lives, Dead
  <2>2. Waits(t, Nothing) /\ UNCHANGED <<clock, timed>>
    BY <1>4 DEF DiesWaiting, Ends, Resumes
  <2>3. QED
    BY <1>1, <2>1, <2>2, WaitsChange
<1>5. CASE Locked(t) \/ RwLocked(t)
  <2>1. Waits(t, Nothing) /\ UNCHANGED <<clock, life, timed>> /\ ~InTimedWait(t)
    BY <1>5 DEF Locked, RwLocked, Resumes, InTimedWait
  <2>2. life' \in [Threads -> Lives] /\ \A u \in Threads : Dead(u) => Dead(u)'
    BY <1>0, <2>1 DEF ThreadsTypeOK, Dead
  <2>3. QED
    BY <1>1, <1>2, <2>1, <2>2, WaitsChange
<1>6. CASE CondTimesOut(t)
  <2>1. /\ Waits(t, For("mutex")) /\ Answered(t, "timed_out") /\ TimeIsUp(t)
        /\ InTimedWait(t) /\ UNCHANGED <<clock, life>>
    BY <1>6 DEF CondTimesOut, Wakes, InTimedWait
  <2>2. QED
    BY <1>1, <2>1, AnswerKeeps
<1>7. CASE SemReturns(t)
  <2>1. /\ Waits(t, Nothing) /\ InTimedWait(t) /\ UNCHANGED <<clock, life>>
        /\ Answered(t, "woken") \/ (Answered(t, "timed_out") /\ TimeIsUp(t))
    BY <1>7 DEF SemReturns, Resumes, InTimedWait
  <2>2. QED
    BY <1>1, <2>1, AnswerKeeps
<1>8. QED
  BY <1>3, <1>4, <1>5, <1>6, <1>7 DEF CallReturns

LEMMA ThreadsInitInv == ThreadsInit => ThreadsInv
<1> SUFFICES ASSUME ThreadsInit PROVE ThreadsInv
  OBVIOUS
<1>1. NotTimed \in Timed /\ NotTimed.sts = "none" /\ Nothing \in Waited
  BY WaitedFacts DEF NotTimed, Timed
<1>2. ThreadsTypeOK
  BY <1>1 DEF ThreadsInit, ThreadsTypeOK, Lives
<1>3. \A t \in Threads : timed[t].sts = "none"
  BY <1>1 DEF ThreadsInit
<1>4. QED
  BY <1>2, <1>3 DEF ThreadsInv, DeadlineInv, HasDeadline, TimedWaits

LEMMA ThreadsNextInv == ThreadsInv /\ [ThreadsNext]_threadVars => ThreadsInv'
<1> SUFFICES ASSUME ThreadsInv, [ThreadsNext]_threadVars PROVE ThreadsInv'
  OBVIOUS
<1>1. CASE Tick
  <2>1. clock' \in Nat /\ UNCHANGED <<waits, timed, life>>
    BY <1>1 DEF Tick, threads, ThreadsInv, ThreadsTypeOK
  <2>2. QED
    BY <2>1, WaitsStay DEF ThreadsInv, ThreadsTypeOK, Dead
<1>2. CASE UNCHANGED threadVars
  BY <1>2, WaitsStay DEF threadVars, ThreadsInv, ThreadsTypeOK, Dead
<1>3. QED
  BY <1>1, <1>2, ThreadCallsKeep, CallReturnsKeep DEF ThreadsNext

(***************************************************************************)
(* A timed wait never gives up before its time, and is refused only when   *)
(* the milliseconds of the clock and of the time make a second: for any    *)
(* number of threads, any clock and any times, through signals,            *)
(* broadcasts, posts and cancellations.  An open wait ends exactly at the  *)
(* sum of the two, although seconds and milliseconds are added apart.      *)
(***************************************************************************)
THEOREM WaitsInTime == ThreadsSpec => [](TimedWaits /\ DeadlineInv)
<1>1. ThreadsInv => TimedWaits /\ DeadlineInv
  BY DEF ThreadsInv
<1>2. QED
  BY <1>1, ThreadsInitInv, ThreadsNextInv, PTL DEF ThreadsSpec
=============================================================================
