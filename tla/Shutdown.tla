------------------------------ MODULE Shutdown ------------------------------
(***************************************************************************)
(* How the server goes down (src/src/main.c cleanup_server, server.c       *)
(* server_cleanup, threads.c threads_kill_threads) under its running       *)
(* threads.  SIGINT is taken by any thread that does not block it; the     *)
(* handler runs on that thread's stack and cleans up while all the others  *)
(* go on.  signal() blocks SIGINT for the thread in the handler only.      *)
(*                                                                         *)
(* pthread_cancel is deferred: the thread dies at its next cancellation    *)
(* point, which recv(), send() and close() are, and printf() may be; a     *)
(* mutex, the allocator and a spinning loop are not.  Nobody joins it.     *)
(*                                                                         *)
(* What a thread does while it runs is kept to what the tear-down meets:   *)
(* system calls, locks, the allocator.  SendSlot and Server have the rest. *)
(***************************************************************************)
EXTENDS Naturals, FiniteSets

CONSTANTS
  MaxClients,  \* bound on the slots set up; Server has the end of the array
  Accepts,     \* what tcs_accept gives on an open socket: "open", "null"
  Handlers,    \* the threads SIGINT may be given to
  MaxSignals   \* bound on the SIGINTs

Slots == 0 .. MaxClients - 1

Main    == <<"main", 0>>
Recv(i) == <<"recv", i>>
Send(i) == <<"send", i>>
Nobody  == <<"nobody", 0>>

RecvThreads == {"recv"} \X Slots
SendThreads == {"send"} \X Slots
Threads     == {Main} \cup RecvThreads \cup SendThreads

ASSUME ShutdownAssumption ==
  /\ MaxClients \in Nat
  /\ MaxSignals \in Nat
  /\ Accepts \subseteq {"open", "null"}
  /\ Handlers \subseteq Threads

\* Runs of server_cleanup: a handler per thread, and the one main ends with.
Return   == <<"return", 0>>
Cleanups == Threads \cup {Return}
Owner(c) == IF c = Return THEN Main ELSE c

VARIABLES
  running,        \* server.running
  server_socket,  \* "open", "shut" (down) or "null"
  threads_count,  \* server.threads_count
  socket,         \* per slot: thread_data.socket, as above
  send_buffer,    \* per slot: "owned" or "freed"
  new_send_data,  \* per slot: the flag
  send_lock,      \* per slot: the owner
  pc,             \* where each thread is
  index,          \* per receive thread: i of server_send_to_all
  cancelled,      \* threads with a pthread_cancel on them
  cleanup,        \* where each run of server_cleanup is
  at,             \* and its i
  signals,        \* SIGINTs so far
  process         \* "up", "exited", or "corrupt": the heap was misused

slotVars    == <<threads_count, socket, send_buffer, new_send_data, send_lock>>
threadVars  == <<pc, index, cancelled>>
cleanupVars == <<running, server_socket, cleanup, at, signals>>
vars == <<slotVars, threadVars, cleanupVars, process>>

SocketStates == {"open", "shut", "null"}

TypeOK ==
  /\ running \in BOOLEAN
  /\ server_socket \in SocketStates
  /\ threads_count \in 0 .. MaxClients
  /\ socket \in [Slots -> SocketStates]
  /\ send_buffer \in [Slots -> {"owned", "freed"}]
  /\ new_send_data \in [Slots -> BOOLEAN]
  /\ send_lock \in [Slots -> Threads \cup {Nobody}]
  /\ pc \in [Threads -> {"unborn", "accept", "init", "count", "return", "top",
                         "call", "recv", "next", "lock", "fill", "poll",
                         "send", "gone"}]
  /\ index \in [RecvThreads -> 0 .. MaxClients]
  /\ cancelled \subseteq RecvThreads \cup SendThreads
  /\ cleanup \in [Cleanups -> {"none", "cancel_recv", "cancel_send", "shutdown",
                               "destroy", "free", "server_destroy", "exit",
                               "stuck", "dead"}]
  /\ at \in [Cleanups -> 0 .. MaxClients]
  /\ signals \in 0 .. MaxSignals
  /\ process \in {"up", "exited", "corrupt"}

Init ==
  /\ running = TRUE
  /\ server_socket = "open"
  /\ threads_count = 0
  /\ socket = [i \in Slots |-> "null"]
  /\ send_buffer = [i \in Slots |-> "owned"]
  /\ new_send_data = [i \in Slots |-> FALSE]
  /\ send_lock = [i \in Slots |-> Nobody]
  /\ pc = [t \in Threads |-> IF t = Main THEN "accept" ELSE "unborn"]
  /\ index = [t \in RecvThreads |-> 0]
  /\ cancelled = {}
  /\ cleanup = [c \in Cleanups |-> "none"]
  /\ at = [c \in Cleanups |-> 0]
  /\ signals = 0
  /\ process = "up"

-----------------------------------------------------------------------------
(* What the threads do.  A thread whose handler runs does nothing else.      *)

Interrupted(t) == cleanup[t] # "none"

\* exit() ends all threads; after a misuse of the heap anything may happen.
Alive(t) == process = "up" /\ ~Interrupted(t)

Goto(t, from, to) ==
  /\ Alive(t)
  /\ pc[t] = from
  /\ pc' = [pc EXCEPT ![t] = to]

\* A cancellation point: the thread ends where it is, with all it holds.
Die(t) ==
  /\ t \in cancelled
  /\ pc' = [pc EXCEPT ![t] = "gone"]

\* tcs_accept returns; it fails at once when the socket is no longer open.
Accept ==
  /\ threads_count < MaxClients
  /\ Goto(Main, "accept", "init")
  /\ \E s \in IF server_socket = "open" THEN Accepts ELSE {"null"} :
       socket' = [socket EXCEPT ![threads_count] = s]
  /\ UNCHANGED <<threads_count, send_buffer, new_send_data, send_lock, index,
                 cancelled, cleanupVars, process>>

\* threads_init has its memory and starts the two threads.
InitThreads ==
  LET i == threads_count IN
  /\ Alive(Main)
  /\ pc[Main] = "init"
  /\ pc' = [pc EXCEPT ![Main] = "lock", ![Recv(i)] = "top", ![Send(i)] = "poll"]
  /\ UNCHANGED <<slotVars, index, cancelled, cleanupVars, process>>

\* The slot whose mailbox a producer is at.
Target(t) == IF t = Main THEN threads_count ELSE index[t]

Lock(t) ==
  LET i == Target(t) IN
  /\ Goto(t, "lock", "fill")
  /\ send_lock[i] = Nobody
  /\ send_lock' = [send_lock EXCEPT ![i] = t]
  /\ new_send_data' = [new_send_data EXCEPT ![i] = TRUE]
  /\ UNCHANGED <<threads_count, socket, send_buffer, index, cancelled,
                 cleanupVars, process>>

\* realloc and memcpy, then the lock is released.
Fill(t) ==
  LET i == Target(t) IN
  /\ Goto(t, "fill", IF t = Main THEN "count" ELSE "next")
  /\ process' = IF send_buffer[i] = "freed" THEN "corrupt" ELSE process
  /\ send_lock' = [send_lock EXCEPT ![i] = Nobody]
  /\ index' = [r \in RecvThreads |-> IF r = t THEN index[r] + 1 ELSE index[r]]
  /\ UNCHANGED <<threads_count, socket, send_buffer, new_send_data, cancelled,
                 cleanupVars>>

\* The slot is counted; the loop looks at running.
Count ==
  /\ Goto(Main, "count", IF running THEN "accept" ELSE "return")
  /\ threads_count' = threads_count + 1
  /\ cleanup' = [cleanup EXCEPT
                   ![Return] = IF running THEN "none" ELSE "cancel_recv"]
  /\ UNCHANGED <<socket, send_buffer, new_send_data, send_lock, index,
                 cancelled, running, server_socket, at, signals, process>>

\* tcs_receive is given the socket; TCS_NULLSOCKET makes it return at once.
ReceiveCall(i) ==
  /\ Goto(Recv(i), "top", "call")
  /\ socket[i] # "null"
  /\ UNCHANGED <<slotVars, index, cancelled, cleanupVars, process>>

\* recv() is entered.
ReceiveEnter(i) ==
  /\ Goto(Recv(i), "call", "recv")
  /\ Recv(i) \notin cancelled
  /\ UNCHANGED <<slotVars, index, cancelled, cleanupVars, process>>

\* recv() returns: a packet for all is complete, or anything else.
ReceiveReturn(i) ==
  /\ \E to \in {"next", "top"} : Goto(Recv(i), "recv", to)
  /\ index' = [index EXCEPT ![Recv(i)] = 0]
  /\ UNCHANGED <<slotVars, cancelled, cleanupVars, process>>

ReceiveDie(i) ==
  /\ Alive(Recv(i))
  /\ pc[Recv(i)] \in {"call", "recv"}
  /\ Die(Recv(i))
  /\ UNCHANGED <<slotVars, index, cancelled, cleanupVars, process>>

\* Bug: the index is advanced by the body and by the for statement.
BroadcastNextTwice(i) ==
  LET r == Recv(i) IN
  /\ Goto(r, "next", IF index[r] >= threads_count THEN "top"
                     ELSE IF index[r] = i THEN "next" ELSE "lock")
  /\ index' = [index EXCEPT ![r] = IF @ < threads_count /\ @ = i THEN @ + 2
                                   ELSE @]
  /\ UNCHANGED <<slotVars, cancelled, cleanupVars, process>>

\* One turn of the loop of server_send_to_all, up to the lock.
BroadcastNext(i) ==
  LET r == Recv(i) IN
  /\ Goto(r, "next", IF index[r] >= threads_count THEN "top"
                     ELSE IF index[r] = i THEN "next" ELSE "lock")
  /\ index' = [index EXCEPT ![r] = IF @ < threads_count /\ @ = i THEN @ + 1
                                   ELSE @]
  /\ UNCHANGED <<slotVars, cancelled, cleanupVars, process>>

SendSees(i) ==
  /\ Goto(Send(i), "poll", "lock")
  /\ new_send_data[i]
  /\ UNCHANGED <<slotVars, index, cancelled, cleanupVars, process>>

\* With the lock tcs_send is given the socket; TCS_NULLSOCKET ends it at once.
SendLock(i) ==
  /\ send_lock[i] = Nobody
  /\ IF socket[i] = "null"
       THEN /\ Goto(Send(i), "lock", "poll")
            /\ new_send_data' = [new_send_data EXCEPT ![i] = FALSE]
            /\ UNCHANGED send_lock
       ELSE /\ Goto(Send(i), "lock", "call")
            /\ send_lock' = [send_lock EXCEPT ![i] = Send(i)]
            /\ UNCHANGED new_send_data
  /\ UNCHANGED <<threads_count, socket, send_buffer, index, cancelled,
                 cleanupVars, process>>

\* send() is entered with the socket and the buffer.
SendEnter(i) ==
  /\ Goto(Send(i), "call", "send")
  /\ Send(i) \notin cancelled
  /\ UNCHANGED <<slotVars, index, cancelled, cleanupVars, process>>

\* It took a part and is called again, or tcs_send is over.
SendReturn(i) ==
  /\ \/ /\ Goto(Send(i), "send", "call")
        /\ UNCHANGED <<new_send_data, send_lock>>
     \/ /\ Goto(Send(i), "send", "poll")
        /\ new_send_data' = [new_send_data EXCEPT ![i] = FALSE]
        /\ send_lock' = [send_lock EXCEPT ![i] = Nobody]
  /\ UNCHANGED <<threads_count, socket, send_buffer, index, cancelled,
                 cleanupVars, process>>

\* Cancelled in send() the thread keeps send_lock for ever.
SendDie(i) ==
  /\ Alive(Send(i))
  /\ pc[Send(i)] \in {"call", "send"}
  /\ Die(Send(i))
  /\ UNCHANGED <<slotVars, index, cancelled, cleanupVars, process>>

Thread(i) ==
  \/ ReceiveCall(i) \/ ReceiveEnter(i) \/ ReceiveReturn(i) \/ ReceiveDie(i)
  \/ BroadcastNext(i) \/ Lock(Recv(i)) \/ Fill(Recv(i))
  \/ SendSees(i) \/ SendLock(i) \/ SendEnter(i) \/ SendReturn(i) \/ SendDie(i)

MainThread == Accept \/ InitThreads \/ Lock(Main) \/ Fill(Main) \/ Count

-----------------------------------------------------------------------------
(* SIGINT, and the runs of server_cleanup                                    *)

\* cleanup_server starts on thread t, which now blocks SIGINT.
Sigint(t) ==
  /\ process = "up"
  /\ signals < MaxSignals
  /\ signals' = signals + 1
  /\ pc[t] \notin {"unborn", "gone"}
  /\ cleanup[t] = "none"
  /\ cleanup' = [cleanup EXCEPT ![t] = "cancel_recv"]
  /\ running' = FALSE
  /\ UNCHANGED <<slotVars, threadVars, server_socket, at, process>>

\* Its thread is not in a handler that interrupted this run.
Runs(c) ==
  /\ process = "up"
  /\ c = Return => ~Interrupted(Main)

Step(c, from, to) ==
  /\ Runs(c)
  /\ cleanup[c] = from
  /\ cleanup' = [cleanup EXCEPT ![c] = to]

CancelRecv(c) ==
  /\ Step(c, "cancel_recv", "cancel_send")
  /\ at[c] < threads_count
  /\ cancelled' = cancelled \cup {Recv(at[c])}
  /\ UNCHANGED <<slotVars, pc, index, running, server_socket, at, signals,
                 process>>

\* Bug: the receive thread is cancelled twice, the send thread never.
CancelRecvAgain(c) ==
  /\ Step(c, "cancel_send", "shutdown")
  /\ cancelled' = cancelled \cup {Recv(at[c])}
  /\ UNCHANGED <<slotVars, pc, index, running, server_socket, at, signals,
                 process>>

CancelSend(c) ==
  /\ Step(c, "cancel_send", "shutdown")
  /\ cancelled' = cancelled \cup {Send(at[c])}
  /\ UNCHANGED <<slotVars, pc, index, running, server_socket, at, signals,
                 process>>

\* Bug: the shutdown is taken for the close.
ShutdownOnly(c) ==
  LET i == at[c] IN
  /\ Step(c, "shutdown", "free")
  /\ socket' = [socket EXCEPT ![i] = IF @ = "open" THEN "shut" ELSE @]
  /\ UNCHANGED <<threads_count, send_buffer, new_send_data, send_lock,
                 threadVars, running, server_socket, at, signals, process>>

\* A shutdown that fails changes nothing; nobody looks at the result.
ShutdownSlot(c) ==
  LET i == at[c] IN
  /\ Step(c, "shutdown", "destroy")
  /\ socket' = [socket EXCEPT ![i] = IF @ = "open" THEN "shut" ELSE @]
  /\ UNCHANGED <<threads_count, send_buffer, new_send_data, send_lock,
                 threadVars, running, server_socket, at, signals, process>>

\* close() is a cancellation point of the thread that cleans up, too.
DestroySlot(c) ==
  LET i == at[c] IN
  /\ Step(c, "destroy", "free")
  /\ socket[i] # "null" => Owner(c) \notin cancelled
  /\ socket' = [socket EXCEPT ![i] = "null"]
  /\ UNCHANGED <<threads_count, send_buffer, new_send_data, send_lock,
                 threadVars, running, server_socket, at, signals, process>>

\* There it ends in the handler, with all it held where the signal found it.
DestroyDie(c) ==
  /\ Runs(c)
  /\ \/ cleanup[c] = "destroy" /\ socket[at[c]] # "null"
     \/ cleanup[c] = "server_destroy" /\ server_socket # "null"
     \/ cleanup[c] = "exit"
  /\ Owner(c) \in cancelled
  /\ cleanup' = [cleanup EXCEPT ![c] = "dead"]
  /\ UNCHANGED <<slotVars, threadVars, running, server_socket, at, signals, process>>

\* Bug: the buffer is freed under send_lock.
FreeBufferLocked(c) ==
  LET i == at[c] IN
  /\ Step(c, "free", "cancel_recv")
  /\ send_lock[i] = Nobody
  /\ process' = IF send_buffer[i] = "freed" THEN "corrupt" ELSE process
  /\ send_buffer' = [send_buffer EXCEPT ![i] = "freed"]
  /\ at' = [at EXCEPT ![c] = @ + 1]
  /\ UNCHANGED <<threads_count, socket, new_send_data, send_lock, threadVars,
                 running, server_socket, signals>>

FreeBuffer(c) ==
  LET i == at[c] IN
  /\ Step(c, "free", "cancel_recv")
  /\ process' = IF send_buffer[i] = "freed" THEN "corrupt" ELSE process
  /\ send_buffer' = [send_buffer EXCEPT ![i] = "freed"]
  /\ at' = [at EXCEPT ![c] = @ + 1]
  /\ UNCHANGED <<threads_count, socket, new_send_data, send_lock, threadVars,
                 running, server_socket, signals>>

\* The thread was in malloc, realloc or free when the signal came.
InAllocator(t) ==
  pc[t] \in {"init", "fill"} \/ (t = Main /\ cleanup[Return] = "free")

\* No handler returns to what it interrupted: that is never left again.
AllocatorHeld == \E t \in Threads : Interrupted(t) /\ InAllocator(t)

\* free() is not async-signal-safe: it may wait for the lock of a thread that
\* is in its handler, its own or another.
FreeStuck(c) ==
  /\ AllocatorHeld
  /\ Step(c, "free", "stuck")
  /\ UNCHANGED <<slotVars, threadVars, running, server_socket, at, signals,
                 process>>

ShutdownServer(c) ==
  /\ at[c] >= threads_count
  /\ Step(c, "cancel_recv", "server_destroy")
  /\ server_socket' = IF server_socket = "open" THEN "shut" ELSE server_socket
  /\ UNCHANGED <<slotVars, threadVars, running, at, signals, process>>

DestroyServer(c) ==
  /\ server_socket # "null" => Owner(c) \notin cancelled
  /\ Step(c, "server_destroy", "exit")
  /\ server_socket' = "null"
  /\ UNCHANGED <<slotVars, threadVars, running, at, signals, process>>

\* exit(0), or main returns.
Exit(c) ==
  /\ Runs(c)
  /\ cleanup[c] = "exit"
  /\ process' = "exited"
  /\ UNCHANGED <<slotVars, threadVars, cleanupVars>>

Cleanup(c) ==
  \/ CancelRecv(c) \/ CancelSend(c) \/ ShutdownSlot(c) \/ DestroySlot(c)
  \/ DestroyDie(c) \/ FreeBuffer(c) \/ FreeStuck(c) \/ ShutdownServer(c)
  \/ DestroyServer(c) \/ Exit(c)

Next ==
  \/ MainThread
  \/ \E i \in Slots : Thread(i)
  \/ \E t \in Handlers : Sigint(t)
  \/ \E c \in Cleanups : Cleanup(c)

Spec == Init /\ [][Next]_vars

(***************************************************************************)
(* The threads that clean up are scheduled.  Nobody has to connect, to     *)
(* send, to read or to press a key, and no other thread has to go on.      *)
(***************************************************************************)
Fairness == \A c \in Cleanups : WF_vars(Cleanup(c))

FairSpec == Spec /\ Fairness

-----------------------------------------------------------------------------
(* Properties                                                                *)

(***************************************************************************)
(* No thread enters recv() or send() on a socket that is closed, whose     *)
(* number may be somebody else's by then, or with a buffer that is freed,  *)
(* although it took both from memory some steps earlier: the cancellation  *)
(* comes before the close and the free, and the call is the point at which *)
(* it takes effect.                                                        *)
(***************************************************************************)
NoLateCall ==
  [][\A i \in Slots :
       /\ (pc[Recv(i)] = "call" /\ pc'[Recv(i)] = "recv") => socket[i] # "null"
       /\ (pc[Send(i)] = "call" /\ pc'[Send(i)] = "send") =>
            socket[i] # "null" /\ send_buffer[i] = "owned"]_vars

(***************************************************************************)
(* What a cleanup has passed stays down: the slots before its index are    *)
(* closed, freed and cancelled, whatever the threads, the main loop and    *)
(* other cleanups do meanwhile.                                            *)
(***************************************************************************)
PassedIsDown ==
  \A c \in Cleanups : \A i \in Slots :
    i < at[c] => /\ socket[i] = "null"
                 /\ send_buffer[i] = "freed"
                 /\ {Recv(i), Send(i)} \subseteq cancelled

(***************************************************************************)
(* A SIGINT the main thread takes ends the process unless it, or another   *)
(* SIGINT, came upon a thread in the allocator: the handler waits neither  *)
(* for a lock that a cancelled thread took with it, nor for the threads,   *)
(* which it only asks to end, nor for other handlers.                      *)
(***************************************************************************)
MainHandlerEnds ==
  (cleanup[Main] # "none") ~> (process # "up" \/ AllocatorHeld)

(***************************************************************************)
(* main.c:18 reports a successful exit from SIGINT; a process whose heap   *)
(* is misused on the way is not one.  The code does not keep this.         *)
(***************************************************************************)
HeapIntact == process # "corrupt"
=============================================================================
