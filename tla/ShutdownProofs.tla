--------------------------- MODULE ShutdownProofs ---------------------------
(***************************************************************************)
(* Proofs about Shutdown, for any number of slots and of signals, and for  *)
(* any choice of the threads that take them.                               *)
(***************************************************************************)
EXTENDS Shutdown, TLAPS

\* The main thread is at a slot of the array, the receive threads' loops at
\* counted ones, and so are the runs of server_cleanup and what they cancel.
MainInv == pc[Main] \in {"init", "lock", "fill", "count"} => threads_count < MaxClients

LoopInv ==
  \A r \in RecvThreads : pc[r] \in {"lock", "fill"} => index[r] < threads_count

OnSlot == {"cancel_send", "shutdown", "destroy", "free", "stuck"}

AtInv ==
  \A c \in Cleanups :
    /\ at[c] <= threads_count
    /\ cleanup[c] \in OnSlot => at[c] < threads_count

CancelInv ==
  \A i \in Slots :
    Recv(i) \in cancelled \/ Send(i) \in cancelled => i < threads_count

TypeInv == TypeOK /\ MainInv /\ LoopInv /\ AtInv /\ CancelInv

\* No thread of a slot runs before InitThreads.
FreshInv ==
  \A i \in Slots :
    \/ i > threads_count
    \/ i = threads_count /\ pc[Main] \in {"accept", "init", "return"}
    => pc[Recv(i)] = "unborn" /\ pc[Send(i)] = "unborn"

\* Where a cleanup is, it has cancelled, cancelled and closed, in this order.
OrderInv ==
  \A c \in Cleanups :
    /\ cleanup[c] \in OnSlot => Recv(at[c]) \in cancelled
    /\ cleanup[c] \in OnSlot \ {"cancel_send"} => Send(at[c]) \in cancelled
    /\ cleanup[c] \in {"free", "stuck"} => socket[at[c]] = "null"

\* A thread that holds a socket or a buffer that is gone has been cancelled.
HeldInv ==
  \A i \in Slots :
    /\ socket[i] = "null" /\ pc[Recv(i)] = "call" => Recv(i) \in cancelled
    /\ socket[i] = "null" /\ pc[Send(i)] \in {"call", "send"} => Send(i) \in cancelled
    /\ send_buffer[i] = "freed" => Send(i) \in cancelled

IInv == TypeInv /\ FreshInv /\ OrderInv /\ HeldInv /\ PassedIsDown

-----------------------------------------------------------------------------
(* Threads                                                                   *)

LEMMA ThreadFacts ==
  /\ Main \in Threads /\ Threads \subseteq Cleanups /\ Return \in Cleanups
  /\ Main \notin RecvThreads /\ Main \notin SendThreads
  /\ Return \notin Threads
  /\ RecvThreads \subseteq Threads /\ SendThreads \subseteq Threads
  /\ RecvThreads \cap SendThreads = {}
  /\ \A i \in Slots : Recv(i) \in RecvThreads /\ Send(i) \in SendThreads
  /\ \A i, j \in Slots : (Recv(i) = Recv(j) => i = j) /\ (Send(i) = Send(j) => i = j)
BY DEF Main, Return, RecvThreads, SendThreads, Threads, Cleanups, Recv, Send

LEMMA SlotFacts ==
  /\ MaxClients \in Nat
  /\ Slots \subseteq Nat
  /\ \A i \in Nat : i < MaxClients <=> i \in Slots
BY ShutdownAssumption DEF Slots

-----------------------------------------------------------------------------
(* Type correctness                                                          *)

LEMMA InitType == Init => TypeInv
<1> SUFFICES ASSUME Init PROVE TypeInv
  OBVIOUS
<1>1. 0 \in 0 .. MaxClients /\ 0 \in 0 .. MaxSignals
  BY ShutdownAssumption
<1>2. TypeOK
  BY <1>1 DEF Init, TypeOK, SocketStates
<1>3. MainInv /\ LoopInv /\ AtInv /\ CancelInv
  BY ThreadFacts DEF Init, MainInv, LoopInv, AtInv, CancelInv, OnSlot
<1>4. QED
  BY <1>2, <1>3 DEF TypeInv

(* The mailbox of a slot, written by the main or by a receive thread.        *)
LEMMA TargetFacts ==
  ASSUME TypeInv, NEW t \in {Main} \cup RecvThreads, pc[t] \in {"lock", "fill"}
  PROVE  Target(t) \in Slots /\ (t # Main => index[t] + 1 \in 0 .. MaxClients)
<1>1. CASE t = Main
  BY <1>1, SlotFacts DEF Target, TypeInv, TypeOK, MainInv
<1>2. CASE t # Main
  <2>1. index[t] \in Nat /\ index[t] < threads_count /\ threads_count <= MaxClients
    BY <1>2, SlotFacts DEF TypeInv, TypeOK, LoopInv
  <2>2. QED
    BY <1>2, <2>1, SlotFacts DEF Target, TypeInv, TypeOK
<1>3. QED
  BY <1>1, <1>2

LEMMA ProducerType ==
  ASSUME TypeInv, NEW t \in {Main} \cup RecvThreads, Lock(t) \/ Fill(t)
  PROVE  TypeInv'
<1> USE ThreadFacts, SlotFacts
    DEF TypeInv, TypeOK, MainInv, LoopInv, AtInv, CancelInv, cleanupVars
<1>1. CASE Lock(t)
  <2>1. pc[t] = "lock" /\ t \in Threads
    BY <1>1 DEF Lock, Goto
  <2>2. Target(t) \in Slots
    BY <2>1, TargetFacts
  <2>3. /\ send_lock' \in [Slots -> Threads \cup {Nobody}]
        /\ new_send_data' \in [Slots -> BOOLEAN]
        /\ pc' = [pc EXCEPT ![t] = "fill"]
    BY <1>1, <2>1, <2>2 DEF Lock, Goto
  <2>4. QED
    BY <1>1, <2>1, <2>2, <2>3 DEF Lock
<1>2. CASE Fill(t)
  <2>1. pc[t] = "fill" /\ t \in Threads
    BY <1>2 DEF Fill, Goto
  <2>2. Target(t) \in Slots /\ (t # Main => index[t] + 1 \in 0 .. MaxClients)
    BY <2>1, TargetFacts
  <2>3. /\ send_lock' \in [Slots -> Threads \cup {Nobody}]
        /\ index' \in [RecvThreads -> 0 .. MaxClients]
        /\ \A r \in RecvThreads : r # t => index'[r] = index[r]
        /\ pc' = [pc EXCEPT ![t] = IF t = Main THEN "count" ELSE "next"]
        /\ process' \in {"up", "exited", "corrupt"}
    BY <1>2, <2>1, <2>2 DEF Fill, Goto
  <2>4. QED
    BY <1>2, <2>1, <2>2, <2>3 DEF Fill
<1>3. QED
  BY <1>1, <1>2

(* A step of a send thread touches its own place, the flag and the lock.     *)
LEMMA SenderType ==
  ASSUME TypeInv, NEW t \in SendThreads, NEW to \in {"poll", "lock", "call", "send"},
         pc' = [pc EXCEPT ![t] = to],
         new_send_data' \in [Slots -> BOOLEAN],
         send_lock' \in [Slots -> Threads \cup {Nobody}],
         UNCHANGED <<threads_count, socket, send_buffer, index, cancelled,
                     cleanupVars, process>>
  PROVE  TypeInv'
<1>1. TypeOK /\ TypeOK'
  BY ThreadFacts DEF TypeInv, TypeOK, cleanupVars
<1>2. \A u \in {Main} \cup RecvThreads : pc'[u] = pc[u]
  BY <1>1, ThreadFacts DEF TypeOK
<1>3. MainInv' /\ LoopInv'
  BY <1>2 DEF TypeInv, MainInv, LoopInv
<1>4. AtInv' /\ CancelInv'
  BY DEF TypeInv, AtInv, CancelInv, cleanupVars
<1>5. QED
  BY <1>1, <1>3, <1>4 DEF TypeInv

LEMMA SendCallsType ==
  ASSUME TypeInv, NEW i \in Slots, SendLock(i) \/ SendReturn(i)
  PROVE  TypeInv'
<1>1. Send(i) \in SendThreads /\ Send(i) \in Threads
  BY ThreadFacts
<1>2. new_send_data \in [Slots -> BOOLEAN] /\ send_lock \in [Slots -> Threads \cup {Nobody}]
  BY DEF TypeInv, TypeOK
<1>3. CASE SendLock(i)
  <2>1. \E to \in {"poll", "call"} : pc' = [pc EXCEPT ![Send(i)] = to]
    BY <1>3 DEF SendLock, Goto
  <2>2. new_send_data' \in [Slots -> BOOLEAN]
    BY <1>2, <1>3 DEF SendLock
  <2>3. send_lock' \in [Slots -> Threads \cup {Nobody}]
    BY <1>1, <1>2, <1>3 DEF SendLock
  <2>4. QED
    BY <1>1, <1>3, <2>1, <2>2, <2>3, SenderType DEF SendLock
<1>4. CASE SendReturn(i)
  <2>1. \E to \in {"poll", "call", "send"} : pc' = [pc EXCEPT ![Send(i)] = to]
    BY <1>4 DEF SendReturn, Goto
  <2>2. new_send_data' \in [Slots -> BOOLEAN]
    BY <1>2, <1>4 DEF SendReturn
  <2>3. send_lock' \in [Slots -> Threads \cup {Nobody}]
    BY <1>2, <1>4 DEF SendReturn
  <2>4. QED
    BY <1>1, <1>4, <2>1, <2>2, <2>3, SenderType DEF SendReturn
<1>5. QED
  BY <1>3, <1>4

LEMMA NextType == TypeInv /\ [Next]_vars => TypeInv'
<1> SUFFICES ASSUME TypeInv, [Next]_vars PROVE TypeInv'
  OBVIOUS
<1> USE ThreadFacts, SlotFacts, ShutdownAssumption
    DEF TypeInv, TypeOK, MainInv, LoopInv, AtInv, CancelInv, OnSlot, SocketStates,
        slotVars, threadVars, cleanupVars, Goto
<1>1. CASE Accept
  BY <1>1 DEF Accept
<1>2. CASE InitThreads
  BY <1>2 DEF InitThreads
<1>3. CASE Lock(Main) \/ Fill(Main)
  BY <1>3, ProducerType
<1>4. CASE Count
  BY <1>4 DEF Count
<1>5. ASSUME NEW i \in Slots, Thread(i) PROVE TypeInv'
  <2>1. CASE ReceiveCall(i)
    BY <2>1 DEF ReceiveCall
  <2>2. CASE ReceiveEnter(i)
    BY <2>2 DEF ReceiveEnter
  <2>3. CASE ReceiveReturn(i)
    BY <2>3 DEF ReceiveReturn
  <2>4. CASE ReceiveDie(i)
    BY <2>4 DEF ReceiveDie, Die
  <2>5. CASE BroadcastNext(i)
    BY <2>5 DEF BroadcastNext
  <2>6. CASE Lock(Recv(i)) \/ Fill(Recv(i))
    BY <2>6, ProducerType
  <2>7. CASE SendSees(i)
    BY <2>7 DEF SendSees
  <2>8. CASE SendLock(i)
    BY <2>8, SendCallsType
  <2>9. CASE SendEnter(i)
    BY <2>9 DEF SendEnter
  <2>10. CASE SendReturn(i)
    BY <2>10, SendCallsType
  <2>11. CASE SendDie(i)
    BY <2>11 DEF SendDie, Die
  <2>12. QED
    BY <1>5, <2>1, <2>2, <2>3, <2>4, <2>5, <2>6, <2>7, <2>8, <2>9, <2>10, <2>11
    DEF Thread
<1>6. ASSUME NEW t \in Handlers, Sigint(t) PROVE TypeInv'
  <2>1. t \in Threads
    OBVIOUS
  <2>2. cleanup' = [cleanup EXCEPT ![t] = "cancel_recv"] /\ signals' \in 0 .. MaxSignals
    BY <1>6 DEF Sigint
  <2>3. QED
    BY <1>6, <2>1, <2>2 DEF Sigint
<1>7. ASSUME NEW c \in Cleanups, Cleanup(c) PROVE TypeInv'
  <2>1. CASE CancelRecv(c)
    BY <2>1 DEF CancelRecv, Step
  <2>2. CASE CancelSend(c)
    BY <2>2 DEF CancelSend, Step
  <2>3. CASE ShutdownSlot(c)
    BY <2>3 DEF ShutdownSlot, Step
  <2>4. CASE DestroySlot(c)
    BY <2>4 DEF DestroySlot, Step
  <2>5. CASE DestroyDie(c)
    BY <2>5 DEF DestroyDie
  <2>6. CASE FreeBuffer(c)
    BY <2>6 DEF FreeBuffer, Step
  <2>7. CASE FreeStuck(c)
    BY <2>7 DEF FreeStuck, Step
  <2>8. CASE ShutdownServer(c)
    BY <2>8 DEF ShutdownServer, Step
  <2>9. CASE DestroyServer(c)
    BY <2>9 DEF DestroyServer, Step
  <2>10. CASE Exit(c)
    BY <2>10 DEF Exit
  <2>11. QED
    BY <1>7, <2>1, <2>2, <2>3, <2>4, <2>5, <2>6, <2>7, <2>8, <2>9, <2>10
    DEF Cleanup
<1>8. CASE UNCHANGED vars
  BY <1>8 DEF vars
<1>9. QED
  BY <1>1, <1>2, <1>3, <1>4, <1>5, <1>6, <1>7, <1>8 DEF Next, MainThread

(* Every behaviour keeps the server's variables in their types: the tear-    *)
(* down never leaves the counted slots, whoever runs it.                     *)
THEOREM TypeCorrect == Spec => []TypeOK
<1>1. TypeInv => TypeOK
  BY DEF TypeInv
<1>2. QED
  BY InitType, NextType, <1>1, PTL DEF Spec

-----------------------------------------------------------------------------
(* The order of the tear-down                                                *)

LEMMA InitInd == Init => IInv
<1> SUFFICES ASSUME Init PROVE IInv
  OBVIOUS
<1>1. TypeInv
  BY InitType
<1>2. FreshInv
  BY ThreadFacts DEF Init, FreshInv
<1>3. OrderInv /\ HeldInv
  BY ThreadFacts DEF Init, OrderInv, HeldInv, OnSlot
<1>4. PassedIsDown
  BY SlotFacts DEF Init, PassedIsDown
<1>5. QED
  BY <1>1, <1>2, <1>3, <1>4 DEF IInv

\* What a thread does outside of accepting and cleaning up: it goes on from
\* where it runs, and takes nothing down.
ThreadStep(t) ==
  /\ pc[t] # "unborn"
  /\ \E to \in {"call", "recv", "next", "top", "lock", "fill", "count", "poll",
                "send", "gone"} : pc' = [pc EXCEPT ![t] = to]
  /\ pc[Main]' \notin {"accept", "init", "return"} \/ pc[Main]' = pc[Main]
  /\ UNCHANGED <<threads_count, socket, send_buffer, cancelled, cleanup, at>>

LEMMA ThreadSteps ==
  ASSUME TypeInv
  PROVE  /\ \A i \in Slots : Thread(i) => ThreadStep(Recv(i)) \/ ThreadStep(Send(i))
         /\ Lock(Main) \/ Fill(Main) => ThreadStep(Main)
<1> USE ThreadFacts DEF ThreadStep, slotVars, threadVars, cleanupVars, Goto
<1>1. ASSUME NEW i \in Slots, Thread(i)
      PROVE  ThreadStep(Recv(i)) \/ ThreadStep(Send(i))
  <2>1. pc \in [Threads -> {"unborn", "accept", "init", "count", "return", "top",
                         "call", "recv", "next", "lock", "fill", "poll",
                         "send", "gone"}]
    BY DEF TypeInv, TypeOK
  <2>2. CASE ReceiveCall(i) \/ ReceiveEnter(i) \/ ReceiveReturn(i)
    BY <2>1, <2>2 DEF ReceiveCall, ReceiveEnter, ReceiveReturn
  <2>3. CASE ReceiveDie(i)
    BY <2>1, <2>3 DEF ReceiveDie, Die
  <2>4. CASE BroadcastNext(i)
    BY <2>1, <2>4 DEF BroadcastNext
  <2>5. CASE Lock(Recv(i))
    BY <2>1, <2>5 DEF Lock
  <2>6. CASE Fill(Recv(i))
    BY <2>1, <2>6 DEF Fill
  <2>7. CASE SendSees(i) \/ SendEnter(i)
    BY <2>1, <2>7 DEF SendSees, SendEnter
  <2>8. CASE SendLock(i)
    BY <2>1, <2>8 DEF SendLock
  <2>9. CASE SendReturn(i)
    BY <2>1, <2>9 DEF SendReturn
  <2>10. CASE SendDie(i)
    BY <2>1, <2>10 DEF SendDie, Die
  <2>11. QED
    BY <1>1, <2>2, <2>3, <2>4, <2>5, <2>6, <2>7, <2>8, <2>9, <2>10 DEF Thread
<1>2. ASSUME Lock(Main) \/ Fill(Main) PROVE ThreadStep(Main)
  BY <1>2 DEF Lock, Fill, TypeInv, TypeOK
<1>3. QED
  BY <1>1, <1>2

(* While nothing is taken down, what was down stays down, and a cleanup that *)
(* stays where it is has what it had.                                        *)
LEMMA QuietInd ==
  ASSUME IInv, UNCHANGED <<socket, send_buffer, cancelled, cleanup, at>>
  PROVE  OrderInv' /\ PassedIsDown'
BY DEF IInv, OrderInv, PassedIsDown

\* A run of server_cleanup moves no thread and counts no slot.
LEMMA CleanupSteps ==
  ASSUME NEW c \in Cleanups, Cleanup(c)
  PROVE  UNCHANGED <<pc, threads_count>>
BY DEF Cleanup, CancelRecv, CancelSend, ShutdownSlot, DestroySlot, DestroyDie, FreeBuffer,
       FreeStuck, ShutdownServer, DestroyServer, Exit, slotVars, threadVars

LEMMA FreshInd == IInv /\ [Next]_vars => FreshInv'
<1> SUFFICES ASSUME IInv, [Next]_vars PROVE FreshInv'
  OBVIOUS
<1> USE ThreadFacts, SlotFacts DEF FreshInv, slotVars, threadVars, cleanupVars, Goto
<1>1. TypeInv /\ FreshInv
  BY DEF IInv
<1>2. /\ threads_count \in Nat
      /\ pc \in [Threads -> {"unborn", "accept", "init", "count", "return", "top",
                             "call", "recv", "next", "lock", "fill", "poll",
                             "send", "gone"}]
  BY <1>1 DEF TypeInv, TypeOK
<1>3. ASSUME NEW t \in Threads, ThreadStep(t) PROVE FreshInv'
  BY <1>1, <1>2, <1>3 DEF ThreadStep
<1>4. CASE Accept
  BY <1>1, <1>2, <1>4 DEF Accept
<1>5. CASE InitThreads
  <2>1. /\ threads_count' = threads_count
        /\ pc' = [pc EXCEPT ![Main] = "lock", ![Recv(threads_count)] = "top",
                            ![Send(threads_count)] = "poll"]
        /\ threads_count \in Slots
    BY <1>1, <1>2, <1>5 DEF InitThreads, TypeInv, MainInv
  <2>2. QED
    BY <1>1, <1>2, <2>1
<1>6. CASE Count
  BY <1>1, <1>2, <1>6 DEF Count
<1>7. ASSUME NEW t \in Handlers, Sigint(t) PROVE FreshInv'
  BY <1>1, <1>7 DEF Sigint
<1>8. ASSUME NEW c \in Cleanups, Cleanup(c) PROVE FreshInv'
  <2>1. UNCHANGED <<pc, threads_count>>
    BY <1>8, CleanupSteps
  <2>2. QED
    BY <1>1, <2>1
<1>9. CASE UNCHANGED vars
  BY <1>1, <1>9 DEF vars
<1>10. QED
  BY <1>1, <1>3, <1>4, <1>5, <1>6, <1>7, <1>8, <1>9, ThreadSteps
  DEF Next, MainThread

LEMMA OrderInd == IInv /\ [Next]_vars => OrderInv' /\ PassedIsDown'
<1> SUFFICES ASSUME IInv, [Next]_vars PROVE OrderInv' /\ PassedIsDown'
  OBVIOUS
<1> USE ThreadFacts, SlotFacts DEF slotVars, threadVars, cleanupVars
<1>1. TypeInv /\ OrderInv /\ PassedIsDown
  BY DEF IInv
<1>2. /\ threads_count \in 0 .. MaxClients
      /\ socket \in [Slots -> SocketStates]
      /\ send_buffer \in [Slots -> {"owned", "freed"}]
      /\ cleanup \in [Cleanups -> {"none", "cancel_recv", "cancel_send", "shutdown",
                                   "destroy", "free", "server_destroy", "exit",
                                   "stuck", "dead"}]
      /\ at \in [Cleanups -> 0 .. MaxClients]
      /\ AtInv
  BY <1>1 DEF TypeInv, TypeOK
<1>3. \A c \in Cleanups : at[c] \in Nat /\ at[c] <= threads_count
                          /\ (cleanup[c] \in OnSlot => at[c] \in Slots)
  BY <1>2 DEF AtInv
<1>4. ASSUME NEW t \in Threads, ThreadStep(t) PROVE OrderInv' /\ PassedIsDown'
  BY <1>4, QuietInd DEF ThreadStep
<1>5. CASE Accept
  <2>1. \A i \in Slots : i # threads_count => socket'[i] = socket[i]
    BY <1>2, <1>5 DEF Accept
  <2>2. UNCHANGED <<send_buffer, cancelled, cleanup, at>>
    BY <1>5 DEF Accept
  <2>3. \A c \in Cleanups : cleanup[c] \in OnSlot => at[c] # threads_count
    BY <1>2 DEF AtInv
  <2>4. OrderInv'
    BY <1>1, <1>3, <2>1, <2>2, <2>3 DEF OrderInv, OnSlot
  <2>5. PassedIsDown'
    BY <1>1, <1>2, <1>3, <2>1, <2>2 DEF PassedIsDown
  <2>6. QED
    BY <2>4, <2>5
<1>6. CASE InitThreads \/ UNCHANGED vars
  BY <1>6, QuietInd DEF InitThreads, vars
<1>7. CASE Count
  <2>1. UNCHANGED <<socket, send_buffer, cancelled, at>>
    BY <1>7 DEF Count
  <2>2. \A c \in Cleanups : cleanup'[c] \in OnSlot => cleanup'[c] = cleanup[c]
    BY <1>2, <1>7 DEF Count, OnSlot
  <2>3. QED
    BY <1>1, <2>1, <2>2 DEF OrderInv, PassedIsDown, OnSlot
<1>8. ASSUME NEW t \in Handlers, Sigint(t) PROVE OrderInv' /\ PassedIsDown'
  <2>1. UNCHANGED <<socket, send_buffer, cancelled, at>>
    BY <1>8 DEF Sigint
  <2>2. \A c \in Cleanups : cleanup'[c] \in OnSlot => cleanup'[c] = cleanup[c]
    BY <1>2, <1>8 DEF Sigint, OnSlot
  <2>3. QED
    BY <1>1, <2>1, <2>2 DEF OrderInv, PassedIsDown, OnSlot
<1>9. ASSUME NEW c \in Cleanups, Cleanup(c) PROVE OrderInv' /\ PassedIsDown'
  <2> USE DEF Step, OnSlot
  <2>1. CASE CancelRecv(c)
    BY <1>1, <1>2, <2>1 DEF CancelRecv, OrderInv, PassedIsDown
  <2>2. CASE CancelSend(c)
    BY <1>1, <1>2, <2>2 DEF CancelSend, OrderInv, PassedIsDown
  <2>3. CASE ShutdownSlot(c)
    BY <1>1, <1>2, <1>3, <2>3 DEF ShutdownSlot, OrderInv, PassedIsDown
  <2>4. CASE DestroySlot(c)
    BY <1>1, <1>2, <1>3, <2>4 DEF DestroySlot, OrderInv, PassedIsDown
  <2>5. CASE DestroyDie(c)
    BY <1>1, <1>2, <2>5 DEF DestroyDie, OrderInv, PassedIsDown
  <2>6. CASE FreeBuffer(c)
    <3>1. OrderInv'
      BY <1>1, <1>2, <2>6 DEF FreeBuffer, OrderInv
    <3>2. /\ socket[at[c]] = "null" /\ send_buffer'[at[c]] = "freed"
          /\ {Recv(at[c]), Send(at[c])} \subseteq cancelled
          /\ at' = [at EXCEPT ![c] = at[c] + 1]
          /\ UNCHANGED <<socket, cancelled>>
      BY <1>1, <1>2, <1>3, <2>6 DEF FreeBuffer, OrderInv
    <3>3. \A i \in Slots : send_buffer[i] = "freed" => send_buffer'[i] = "freed"
      BY <1>2, <2>6 DEF FreeBuffer
    <3>4. PassedIsDown'
      BY <1>1, <1>2, <1>3, <3>2, <3>3 DEF PassedIsDown
    <3>5. QED
      BY <3>1, <3>4
  <2>7. CASE FreeStuck(c)
    BY <1>1, <1>2, <2>7 DEF FreeStuck, OrderInv, PassedIsDown
  <2>8. CASE ShutdownServer(c)
    BY <1>1, <1>2, <2>8 DEF ShutdownServer, OrderInv, PassedIsDown
  <2>9. CASE DestroyServer(c)
    BY <1>1, <1>2, <2>9 DEF DestroyServer, OrderInv, PassedIsDown
  <2>10. CASE Exit(c)
    BY <2>10, QuietInd DEF Exit
  <2>11. QED
    BY <1>9, <2>1, <2>2, <2>3, <2>4, <2>5, <2>6, <2>7, <2>8, <2>9, <2>10 DEF Cleanup
<1>10. QED
  BY <1>1, <1>4, <1>5, <1>6, <1>7, <1>8, <1>9, ThreadSteps DEF Next, MainThread

LEMMA HeldInd == IInv /\ [Next]_vars => HeldInv'
<1> SUFFICES ASSUME IInv, [Next]_vars PROVE HeldInv'
  OBVIOUS
<1> USE ThreadFacts, SlotFacts DEF HeldInv, slotVars, threadVars, cleanupVars, Goto
<1>1. TypeInv /\ FreshInv /\ OrderInv /\ HeldInv
  BY DEF IInv
<1>2. /\ threads_count \in 0 .. MaxClients
      /\ socket \in [Slots -> SocketStates]
      /\ send_buffer \in [Slots -> {"owned", "freed"}]
      /\ pc \in [Threads -> {"unborn", "accept", "init", "count", "return", "top",
                             "call", "recv", "next", "lock", "fill", "poll",
                             "send", "gone"}]
      /\ at \in [Cleanups -> 0 .. MaxClients]
  BY <1>1 DEF TypeInv, TypeOK
<1>3. CASE Accept
  <2>1. pc[Recv(threads_count)] = "unborn" /\ pc[Send(threads_count)] = "unborn"
    BY <1>1, <1>2, <1>3 DEF Accept, FreshInv
  <2>2. \A i \in Slots : i # threads_count => socket'[i] = socket[i]
    BY <1>2, <1>3 DEF Accept
  <2>3. UNCHANGED <<send_buffer, cancelled>> /\ pc' = [pc EXCEPT ![Main] = "init"]
    BY <1>3 DEF Accept
  <2>4. QED
    BY <1>1, <1>2, <2>1, <2>2, <2>3
<1>4. CASE InitThreads
  BY <1>1, <1>2, <1>4 DEF InitThreads
<1>5. ASSUME NEW t \in {Main} \cup RecvThreads, Lock(t) \/ Fill(t) PROVE HeldInv'
  BY <1>1, <1>2, <1>5 DEF Lock, Fill
<1>6. CASE Count
  BY <1>1, <1>2, <1>6 DEF Count
<1>7. ASSUME NEW i \in Slots, Thread(i) PROVE HeldInv'
  <2>1. CASE ReceiveCall(i) \/ ReceiveEnter(i) \/ ReceiveReturn(i)
    BY <1>1, <1>2, <2>1 DEF ReceiveCall, ReceiveEnter, ReceiveReturn
  <2>2. CASE ReceiveDie(i) \/ SendDie(i)
    BY <1>1, <1>2, <2>2 DEF ReceiveDie, SendDie, Die
  <2>3. CASE BroadcastNext(i)
    BY <1>1, <1>2, <2>3 DEF BroadcastNext
  <2>4. CASE Lock(Recv(i)) \/ Fill(Recv(i))
    BY <1>5, <2>4
  <2>5. CASE SendSees(i) \/ SendEnter(i)
    BY <1>1, <1>2, <2>5 DEF SendSees, SendEnter
  <2>6. CASE SendLock(i)
    BY <1>1, <1>2, <2>6 DEF SendLock
  <2>7. CASE SendReturn(i)
    BY <1>1, <1>2, <2>7 DEF SendReturn
  <2>8. QED
    BY <1>7, <2>1, <2>2, <2>3, <2>4, <2>5, <2>6, <2>7 DEF Thread
<1>8. ASSUME NEW t \in Handlers, Sigint(t) PROVE HeldInv'
  BY <1>1, <1>8 DEF Sigint
<1>9. ASSUME NEW c \in Cleanups, Cleanup(c) PROVE HeldInv'
  <2> USE DEF Step, OnSlot
  <2>1. CASE CancelRecv(c) \/ CancelSend(c)
    BY <1>1, <2>1 DEF CancelRecv, CancelSend
  <2>2. CASE ShutdownSlot(c)
    BY <1>1, <1>2, <2>2 DEF ShutdownSlot
  <2>3. CASE DestroySlot(c)
    <3>1. Recv(at[c]) \in cancelled /\ Send(at[c]) \in cancelled
      BY <1>1, <2>3 DEF DestroySlot, OrderInv
    <3>2. QED
      BY <1>1, <1>2, <2>3, <3>1 DEF DestroySlot
  <2>4. CASE DestroyDie(c)
    BY <1>1, <1>2, <2>4 DEF DestroyDie
  <2>5. CASE FreeBuffer(c)
    <3>1. Send(at[c]) \in cancelled
      BY <1>1, <2>5 DEF FreeBuffer, OrderInv
    <3>2. QED
      BY <1>1, <1>2, <2>5, <3>1 DEF FreeBuffer
  <2>6. CASE FreeStuck(c) \/ ShutdownServer(c) \/ DestroyServer(c) \/ Exit(c)
    BY <1>1, <2>6 DEF FreeStuck, ShutdownServer, DestroyServer, Exit
  <2>7. QED
    BY <1>9, <2>1, <2>2, <2>3, <2>4, <2>5, <2>6 DEF Cleanup
<1>10. CASE UNCHANGED vars
  BY <1>1, <1>10 DEF vars
<1>11. QED
  BY <1>3, <1>4, <1>5, <1>6, <1>7, <1>8, <1>9, <1>10 DEF Next, MainThread

THEOREM Invariance == Spec => []IInv
<1>1. IInv /\ [Next]_vars => IInv'
  <2> SUFFICES ASSUME IInv, [Next]_vars PROVE IInv'
    OBVIOUS
  <2>1. TypeInv'
    BY NextType DEF IInv
  <2>2. QED
    BY <2>1, FreshInd, OrderInd, HeldInd DEF IInv
<1>2. QED
  BY InitInd, <1>1, PTL DEF Spec

-----------------------------------------------------------------------------
(* The theorems                                                              *)

(* Every behaviour keeps down what a run of server_cleanup has passed,       *)
(* whatever the main loop, the threads and other runs do.                    *)
THEOREM Passed == Spec => []PassedIsDown
<1>1. IInv => PassedIsDown
  BY DEF IInv
<1>2. QED
  BY Invariance, <1>1, PTL

(* A thread that enters recv() or send() is not one that was cancelled.       *)
LEMMA EnterFacts ==
  ASSUME TypeInv, [Next]_vars, NEW i \in Slots
  PROVE  /\ (pc[Recv(i)] = "call" /\ pc'[Recv(i)] = "recv") => Recv(i) \notin cancelled
         /\ (pc[Send(i)] = "call" /\ pc'[Send(i)] = "send") => Send(i) \notin cancelled
<1> DEFINE Kept(r, s) == (pc[r] = "call" => pc'[r] # "recv")
                         /\ (pc[s] = "call" => pc'[s] # "send")
<1> USE ThreadFacts, SlotFacts DEF slotVars, threadVars, cleanupVars, Goto
<1>1. pc \in [Threads -> {"unborn", "accept", "init", "count", "return", "top",
                         "call", "recv", "next", "lock", "fill", "poll",
                         "send", "gone"}]
  BY DEF TypeInv, TypeOK
<1>2. CASE MainThread
  <2>1. threads_count \in Nat
    BY SlotFacts DEF TypeInv, TypeOK
  <2>2. Kept(Recv(i), Send(i))
    BY <1>1, <1>2, <2>1
    DEF MainThread, Accept, InitThreads, Lock, Fill, Count
  <2>3. QED
    BY <2>2
<1>3. ASSUME NEW j \in Slots, Thread(j)
      PROVE  Kept(Recv(i), Send(i)) \/ (j = i /\ (ReceiveEnter(i) \/ SendEnter(i)))
  <2>1. CASE ReceiveEnter(j)
    BY <1>1, <2>1 DEF ReceiveEnter
  <2>2. CASE SendEnter(j)
    BY <1>1, <2>2 DEF SendEnter
  <2>3. CASE ReceiveCall(j) \/ ReceiveReturn(j)
    BY <1>1, <2>3 DEF ReceiveCall, ReceiveReturn
  <2>4. CASE ReceiveDie(j)
    BY <1>1, <2>4 DEF ReceiveDie, Die
  <2>5. CASE BroadcastNext(j) \/ Lock(Recv(j)) \/ Fill(Recv(j))
    BY <1>1, <2>5 DEF BroadcastNext, Lock, Fill
  <2>6. CASE SendSees(j) \/ SendLock(j) \/ SendReturn(j)
    BY <1>1, <2>6 DEF SendSees, SendLock, SendReturn
  <2>7. CASE SendDie(j)
    BY <1>1, <2>7 DEF SendDie, Die
  <2>8. QED
    BY <1>3, <2>1, <2>2, <2>3, <2>4, <2>5, <2>6, <2>7 DEF Thread
<1>4. ASSUME NEW c \in Cleanups, Cleanup(c) PROVE Kept(Recv(i), Send(i))
  BY <1>4, CleanupSteps
<1>5. ASSUME NEW t \in Handlers, Sigint(t) PROVE Kept(Recv(i), Send(i))
  BY <1>5 DEF Sigint
<1>6. CASE UNCHANGED vars
  BY <1>6 DEF vars
<1>7. ReceiveEnter(i) => Recv(i) \notin cancelled /\ pc[Send(i)] = pc'[Send(i)]
  BY <1>1 DEF ReceiveEnter
<1>8. SendEnter(i) => Send(i) \notin cancelled /\ pc[Recv(i)] = pc'[Recv(i)]
  BY <1>1 DEF SendEnter
<1>9. QED
  BY <1>2, <1>3, <1>4, <1>5, <1>6, <1>7, <1>8 DEF Next

(* In every behaviour no thread enters recv() or send() with a socket that   *)
(* threads_kill_threads has closed or a buffer that it has freed.            *)
THEOREM LateCall == Spec => NoLateCall
<1>1. ASSUME IInv, [Next]_vars, NEW i \in Slots
      PROVE  /\ (pc[Recv(i)] = "call" /\ pc'[Recv(i)] = "recv") => socket[i] # "null"
             /\ (pc[Send(i)] = "call" /\ pc'[Send(i)] = "send") =>
                  socket[i] # "null" /\ send_buffer[i] = "owned"
  <2>1. /\ (pc[Recv(i)] = "call" /\ pc'[Recv(i)] = "recv") => Recv(i) \notin cancelled
        /\ (pc[Send(i)] = "call" /\ pc'[Send(i)] = "send") => Send(i) \notin cancelled
    BY <1>1, EnterFacts DEF IInv
  <2>2. /\ socket[i] = "null" /\ pc[Recv(i)] = "call" => Recv(i) \in cancelled
        /\ socket[i] = "null" /\ pc[Send(i)] = "call" => Send(i) \in cancelled
        /\ send_buffer[i] = "freed" => Send(i) \in cancelled
        /\ send_buffer[i] \in {"owned", "freed"}
    BY <1>1 DEF IInv, HeldInv, TypeInv, TypeOK
  <2>3. QED
    BY <2>1, <2>2
<1>2. IInv /\ [Next]_vars =>
        \A i \in Slots :
          /\ (pc[Recv(i)] = "call" /\ pc'[Recv(i)] = "recv") => socket[i] # "null"
          /\ (pc[Send(i)] = "call" /\ pc'[Send(i)] = "send") =>
               socket[i] # "null" /\ send_buffer[i] = "owned"
  BY <1>1
<1>3. QED
  BY Invariance, <1>2, PTL DEF Spec, NoLateCall

=============================================================================
