--------------------------- MODULE SendSlotProofs ---------------------------
(***************************************************************************)
(* Proofs about SendSlot for every set of producers, every packet size and *)
(* every bound: type correctness, the framing of the byte stream, the loss *)
(* of nothing but superseded packets, and the refinement of                *)
(* OneSlotChannel.                                                         *)
(***************************************************************************)
EXTENDS SendSlot, TLAPS

(* The inductive invariant.                                                  *)

\* Who is inside the critical section is who owns the lock.
LockInv ==
  /\ \A p \in Producers : pc[p] \in Inside <=> send_lock = p
  /\ spc \in SendInside <=> send_lock = Sender

\* The flag stays up from the first sight of it to ClearFlag.
FlagInv ==
  /\ spc \in {"lock", "begin", "send", "clear"} => new_send_data
  /\ \A p \in Producers :
       pc[p] \in {"size", "realloc", "memcpy", "unlock"} => new_send_data
  /\ spc = "unlock" => ~new_send_data

\* What a producer inside has written so far.
FillInv ==
  \A p \in Producers :
    /\ pc[p] \in Inside => queued # <<>> /\ queued[Len(queued)] = packet[p]
    /\ pc[p] \in {"realloc", "memcpy", "unlock"}
         => send_buffer_size = PacketSize[packet[p]]
    /\ pc[p] = "unlock" => send_buffer = Len(queued)

\* Under a raised flag and no producer inside, the buffer is the last call's.
BufferInv ==
  new_send_data /\ send_lock \notin Producers
    => /\ queued # <<>>
       /\ send_buffer = Len(queued)
       /\ send_buffer_size = SizeOfCall(Len(queued))

LastIs(n, to) ==
  wire # <<>> /\ wire[Len(wire)].call = n /\ wire[Len(wire)].to = to

\* tcs_send under way: how far it got is what the last chunk says.
ProgressInv ==
  spc = "send" =>
    /\ goal = send_buffer_size
    /\ done < goal
    /\ done > 0 => LastIs(Len(queued), done)

\* Between packets of a live connection the stream ends with a whole one.
BoundaryInv ==
  up /\ ~(spc = "send" /\ done > 0) /\ wire # <<>>
    => wire[Len(wire)].to = SizeOfCall(wire[Len(wire)].call)

\* A packet that still has to start going out is newer than all that went.
NewerInv ==
  (\/ spc \in {"poll", "lock", "begin"}
   \/ spc = "send" /\ done = 0)
  /\ (new_send_data \/ send_lock \in Producers)
    => \A i \in DOMAIN wire : wire[i].call < Len(queued)

\* With no packet waiting, a live connection has been given the last call's.
KeptInv ==
  up /\ queued # <<>> /\ send_lock \notin Producers
     /\ (~new_send_data \/ spc = "clear")
    => LastIs(Len(queued), SizeOfCall(Len(queued)))

IInv ==
  /\ TypeOK /\ LockInv /\ FlagInv /\ FillInv /\ BufferInv /\ ProgressInv
  /\ BoundaryInv /\ NewerInv /\ KeptInv /\ WireWellFramed

-----------------------------------------------------------------------------
(* Type correctness.                                                         *)

LEMMA InitType == Init => TypeOK
<1> SUFFICES ASSUME Init PROVE TypeOK
  OBVIOUS
<1>1. queued \in Seq(Packets) /\ wire \in Seq(Chunk)
  BY DEF Init
<1>2. pc \in [Producers -> {"idle", "lock"} \cup Inside]
  BY DEF Init
<1>3. QED
  BY <1>1, <1>2 DEF Init, TypeOK, Junk

LEMMA NextType == TypeOK /\ [Next]_vars => TypeOK'
<1> SUFFICES ASSUME TypeOK, [Next]_vars PROVE TypeOK'
  OBVIOUS
<1> USE SlotAssumption DEF TypeOK, bufferVars, sendVars, Inside, SendInside
<1>1. ASSUME NEW p \in Producers, Producer(p) PROVE TypeOK'
  <2>1. ASSUME NEW k \in Packets, Call(p, k) PROVE TypeOK'
    BY <2>1 DEF Call, Goto
  <2>2. CASE Lock(p)
    BY <2>2 DEF Lock, Goto
  <2>3. CASE RaiseFlag(p)
    BY <2>3 DEF RaiseFlag, Goto
  <2>4. CASE SetSize(p)
    BY <2>4 DEF SetSize, Goto
  <2>5. CASE Realloc(p)
    BY <2>5 DEF Realloc, Goto, Junk
  <2>6. CASE Memcpy(p)
    BY <2>6 DEF Memcpy, Goto
  <2>7. CASE Unlock(p)
    BY <2>7 DEF Unlock, Goto
  <2>8. QED
    BY <1>1, <2>1, <2>2, <2>3, <2>4, <2>5, <2>6, <2>7 DEF Producer
<1>2. CASE SenderPoll
  BY <1>2 DEF SenderPoll
<1>3. CASE SenderLock
  BY <1>3 DEF SenderLock
<1>4. CASE SendBegin
  BY <1>4 DEF SendBegin
<1>5. CASE SendChunk
  <2>1. PICK n \in 1 .. (goal - done) :
          /\ wire' = Append(wire, [call |-> send_buffer, from |-> done,
                                   to |-> done + n])
          /\ done' = done + n
          /\ spc' = IF done + n = goal THEN "clear" ELSE "send"
    BY <1>5 DEF SendChunk
  <2>2. done + n \in Nat
    BY <2>1
  <2>3. [call |-> send_buffer, from |-> done, to |-> done + n] \in Chunk
    BY <2>2 DEF Chunk
  <2>4. wire' \in Seq(Chunk)
    BY <2>1, <2>3
  <2>5. QED
    BY <1>5, <2>1, <2>2, <2>4 DEF SendChunk
<1>6. CASE SendError
  BY <1>6 DEF SendError
<1>7. CASE ClearFlag
  BY <1>7 DEF ClearFlag
<1>8. CASE SenderUnlock
  BY <1>8 DEF SenderUnlock
<1>9. CASE ConnectionLost
  BY <1>9 DEF ConnectionLost
<1>10. CASE UNCHANGED vars
  BY <1>10 DEF vars
<1>11. QED
  BY <1>1, <1>2, <1>3, <1>4, <1>5, <1>6, <1>7, <1>8, <1>9, <1>10
  DEF Next, SendThread

(* Every behaviour of the mailbox keeps its variables in their types.        *)
THEOREM TypeCorrect == Spec => []TypeOK
<1>1. QED
  BY InitType, NextType, PTL DEF Spec

-----------------------------------------------------------------------------
(* The inductive invariant.                                                  *)

LEMMA InitInd == Init => IInv
<1> SUFFICES ASSUME Init PROVE IInv
  OBVIOUS
<1>1. TypeOK
  BY InitType
<1>2. LockInv
  BY SlotAssumption DEF Init, LockInv, Inside, SendInside
<1>3. FlagInv /\ FillInv /\ BufferInv /\ ProgressInv /\ BoundaryInv /\ NewerInv
  BY DEF Init, FlagInv, FillInv, BufferInv, ProgressInv, BoundaryInv,
         NewerInv, Inside
<1>4. KeptInv /\ WireWellFramed
  BY DEF Init, KeptInv, WireWellFramed
<1>5. QED
  BY <1>1, <1>2, <1>3, <1>4 DEF IInv

(* The step that appends to the stream, on its own: one send() of tcs_send.  *)
LEMMA ChunkInd == IInv /\ TypeOK' /\ SendChunk => IInv'
<1> SUFFICES ASSUME IInv, TypeOK', SendChunk PROVE IInv'
  OBVIOUS
<1>0. PICK L \in Nat : L = Len(wire)
  BY DEF IInv, TypeOK
<1>1. PICK n \in 1 .. (goal - done) :
        /\ wire' = Append(wire, [call |-> send_buffer, from |-> done,
                                 to |-> done + n])
        /\ done' = done + n
        /\ spc' = IF done + n = goal THEN "clear" ELSE "send"
  BY DEF SendChunk
<1>2. /\ spc = "send" /\ up
      /\ UNCHANGED <<new_send_data, send_buffer, send_buffer_size, send_lock,
                     pc, packet, goal, up, queued>>
  BY DEF SendChunk, bufferVars
<1>3. TypeOK /\ wire \in Seq(Chunk) /\ done \in Nat /\ goal \in Nat
  BY DEF IInv, TypeOK
<1>4. send_lock = Sender /\ new_send_data /\ send_lock \notin Producers
  BY <1>2, SlotAssumption DEF IInv, LockInv, FlagInv, SendInside
<1>5. /\ queued # <<>> /\ send_buffer = Len(queued)
      /\ goal = SizeOfCall(Len(queued)) /\ done < goal
      /\ done > 0 => LastIs(Len(queued), done)
  BY <1>2, <1>4 DEF IInv, BufferInv, ProgressInv
<1>6. n \in Nat /\ 0 < n /\ done + n <= goal /\ done < done + n
  BY <1>1, <1>3
<1> DEFINE c == [call |-> send_buffer, from |-> done, to |-> done + n]
<1>8. c \in Chunk /\ wire' = Append(wire, c)
  BY <1>1, <1>3, <1>6 DEF Chunk, IInv, TypeOK
<1>9. /\ L \in Nat /\ Len(wire') = L + 1 /\ DOMAIN wire' = 1 .. L + 1
      /\ DOMAIN wire = 1 .. L
      /\ \A i \in 1 .. L : wire'[i] = wire[i]
      /\ wire'[L + 1] = c
      /\ wire' # <<>>
  <2> HIDE DEF c
  <2>1. QED
    BY <1>0, <1>3, <1>8
<1>10. /\ wire'[L + 1].call = Len(queued) /\ wire'[L + 1].from = done
       /\ wire'[L + 1].to = done + n
  BY <1>5, <1>9
<1> HIDE DEF c
<1>11. LastIs(Len(queued), done)'
  BY <1>1, <1>2, <1>9, <1>10 DEF LastIs
<1>12. LockInv' /\ FlagInv' /\ FillInv'
  BY <1>1, <1>2, <1>4 DEF IInv, LockInv, FlagInv, FillInv, SendInside
<1>13. BufferInv'
  BY <1>2, <1>5 DEF IInv, BufferInv, SizeOfCall
<1>14. ProgressInv'
  BY <1>1, <1>2, <1>3, <1>6, <1>11 DEF IInv, ProgressInv
<1>15. BoundaryInv'
  BY <1>1, <1>2, <1>3, <1>5, <1>6, <1>9, <1>10 DEF BoundaryInv, SizeOfCall
<1>16. NewerInv'
  BY <1>1, <1>2, <1>3, <1>4, <1>6 DEF NewerInv
<1>17. KeptInv'
  BY <1>1, <1>2, <1>4, <1>5, <1>11 DEF KeptInv, LastIs, SizeOfCall
<1>18. ASSUME NEW i \in 1 .. L PROVE FramedAt(i)'
  <2>1. FramedAt(i) /\ i \in Nat /\ (i > 1 => i - 1 \in 1 .. L)
    BY <1>9, <1>18 DEF IInv, WireWellFramed
  <2>2. QED
    BY <1>2, <1>9, <1>18, <2>1 DEF FramedAt, SizeOfCall
<1>19. FramedAt(L + 1)'
  <2>1. Len(queued) \in DOMAIN queued
    BY <1>5 DEF IInv, TypeOK
  <2>2. /\ done < done + n /\ done + n <= SizeOfCall(Len(queued))
        /\ L + 1 > 1 <=> wire # <<>>
        /\ wire # <<>> => (L + 1) - 1 = L /\ L \in 1 .. L
    BY <1>0, <1>3, <1>5, <1>6, <1>9
  <2>3. CASE done = 0
    <3>1. \A i \in 1 .. L : wire[i].call < Len(queued)
      BY <1>2, <1>4, <1>9, <2>3 DEF IInv, NewerInv
    <3>2. wire # <<>> => wire[L].to = SizeOfCall(wire[L].call)
      BY <1>0, <1>2, <2>3 DEF IInv, BoundaryInv
    <3>3. QED
      BY <1>2, <1>9, <1>10, <2>1, <2>2, <2>3, <3>1, <3>2
      DEF FramedAt, SizeOfCall
  <2>4. CASE done # 0
    <3>1. wire # <<>> /\ wire[L].call = Len(queued) /\ wire[L].to = done
      BY <1>0, <1>3, <1>5, <2>4 DEF LastIs
    <3>2. QED
      BY <1>2, <1>9, <1>10, <2>1, <2>2, <2>4, <3>1 DEF FramedAt, SizeOfCall
  <2>5. QED
    BY <2>3, <2>4
<1>20. WireWellFramed'
  <2>1. \A i \in 1 .. L + 1 : i \in 1 .. L \/ i = L + 1
    BY <1>9
  <2>2. QED
    BY <1>9, <1>18, <1>19, <2>1 DEF WireWellFramed
<1>21. QED
  BY <1>12, <1>13, <1>14, <1>15, <1>16, <1>17, <1>20 DEF IInv

LEMMA NextInd == IInv /\ [Next]_vars => IInv'
<1> SUFFICES ASSUME IInv, [Next]_vars PROVE IInv'
  OBVIOUS
<1> USE SlotAssumption DEF IInv, TypeOK, LockInv, FlagInv, FillInv, BufferInv,
      ProgressInv, BoundaryInv, NewerInv, KeptInv, LastIs, WireWellFramed,
      FramedAt, SizeOfCall, Inside, SendInside, bufferVars
<1>0. TypeOK'
  BY NextType
<1>1. ASSUME NEW p \in Producers, Producer(p) PROVE IInv'
  <2>1. ASSUME NEW k \in Packets, Call(p, k) PROVE IInv'
    BY <1>0, <2>1 DEF Call, Goto, sendVars
  <2>2. CASE Lock(p)
    <3> HIDE DEF IInv, LockInv, FlagInv, FillInv, BufferInv,
          ProgressInv, BoundaryInv, NewerInv, KeptInv, LastIs, WireWellFramed,
          FramedAt, SizeOfCall, Inside, SendInside, bufferVars
    <3>0. packet[p] \in Packets /\ queued \in Seq(Packets)
      BY DEF IInv
    <3>1. /\ queued' = Append(queued, packet[p])
          /\ Len(queued') = Len(queued) + 1
          /\ \A n \in DOMAIN queued : queued'[n] = queued[n]
          /\ queued'[Len(queued')] = packet[p]
          /\ DOMAIN queued \subseteq DOMAIN queued'
          /\ queued' # <<>>
      BY <2>2, <3>0 DEF Lock
    <3> USE DEF IInv, LockInv, FlagInv, FillInv, BufferInv,
          ProgressInv, BoundaryInv, NewerInv, KeptInv, LastIs, WireWellFramed,
          FramedAt, SizeOfCall, Inside, SendInside, bufferVars
    <3>2. /\ pc[p] = "lock" /\ pc' = [pc EXCEPT ![p] = "flag"]
          /\ send_lock = Nobody /\ send_lock' = p
          /\ UNCHANGED <<bufferVars, packet, sendVars, up, wire>>
      BY <2>2 DEF Lock, Goto
    <3>3. \A i \in DOMAIN wire :
            /\ wire[i].call \in DOMAIN queued
            /\ SizeOfCall(wire[i].call)' = SizeOfCall(wire[i].call)
      BY <3>1, <3>2
    <3>4. LockInv' /\ FlagInv'
      BY <3>2 DEF sendVars
    <3>5. FillInv' /\ BufferInv'
      BY <3>1, <3>2, <3>4
    <3>6. ProgressInv' /\ KeptInv'
      BY <3>2, <3>4 DEF sendVars
    <3>7. BoundaryInv'
      BY <3>2, <3>3 DEF sendVars
    <3>8. NewerInv'
      BY <3>1, <3>2, <3>3
    <3>9. WireWellFramed'
      <4> SUFFICES ASSUME NEW i \in DOMAIN wire PROVE FramedAt(i)'
        BY <3>2 DEF WireWellFramed
      <4>1. FramedAt(i) /\ wire' = wire
        BY <3>2
      <4>2. i \in 1 .. Len(wire) /\ (i > 1 => i - 1 \in DOMAIN wire)
        BY DEF TypeOK
      <4>3. QED
        BY <3>1, <3>3, <4>1, <4>2
    <3>10. QED
      BY <1>0, <3>4, <3>5, <3>6, <3>7, <3>8, <3>9
  <2>3. CASE RaiseFlag(p)
    BY <1>0, <2>3 DEF RaiseFlag, Goto, sendVars
  <2>4. CASE SetSize(p)
    BY <1>0, <2>4 DEF SetSize, Goto, sendVars
  <2>5. CASE Realloc(p)
    BY <1>0, <2>5 DEF Realloc, Goto, sendVars
  <2>6. CASE Memcpy(p)
    BY <1>0, <2>6 DEF Memcpy, Goto, sendVars
  <2>7. CASE Unlock(p)
    BY <1>0, <2>7 DEF Unlock, Goto, sendVars
  <2>8. QED
    BY <1>1, <2>1, <2>2, <2>3, <2>4, <2>5, <2>6, <2>7 DEF Producer
<1>2. CASE SenderPoll
  BY <1>0, <1>2 DEF SenderPoll
<1>3. CASE SenderLock
  BY <1>0, <1>3 DEF SenderLock
<1>4. CASE SendBegin
  BY <1>0, <1>4 DEF SendBegin
<1>5. CASE SendChunk
  BY <1>0, <1>5, ChunkInd
<1>6. CASE SendError
  <2>1. BoundaryInv' /\ KeptInv'
    BY <1>6 DEF SendError
  <2>2. NewerInv' /\ WireWellFramed'
    BY <1>6 DEF SendError
  <2>3. LockInv' /\ FlagInv' /\ FillInv' /\ BufferInv' /\ ProgressInv'
    BY <1>6 DEF SendError
  <2>4. QED
    BY <1>0, <2>1, <2>2, <2>3
<1>7. CASE ClearFlag
  BY <1>0, <1>7 DEF ClearFlag
<1>8. CASE SenderUnlock
  BY <1>0, <1>8 DEF SenderUnlock
<1>9. CASE ConnectionLost
  BY <1>0, <1>9 DEF ConnectionLost, sendVars
<1>10. CASE UNCHANGED vars
  BY <1>0, <1>10 DEF vars
<1>11. QED
  BY <1>1, <1>2, <1>3, <1>4, <1>5, <1>6, <1>7, <1>8, <1>9, <1>10
  DEF Next, SendThread

(* IInv holds in every state the mailbox reaches.                            *)
THEOREM Invariance == Spec => []IInv
<1>1. QED
  BY InitInd, NextInd, PTL DEF Spec

-----------------------------------------------------------------------------
(* The safety properties.                                                    *)

(* The byte stream is whole packets, in call order, none of them twice.      *)
THEOREM Framing == Spec => []WireWellFramed
<1>1. IInv => WireWellFramed
  BY DEF IInv
<1>2. QED
  BY <1>1, Invariance, PTL

LEMMA LastIsWhole ==
  ASSUME IInv, NEW n \in Nat, LastIs(n, SizeOfCall(n))
  PROVE  Whole(n)
<1>1. Len(wire) \in DOMAIN wire
  BY DEF IInv, TypeOK, LastIs
<1>2. QED
  BY <1>1 DEF LastIs, Whole

(* The packet of the latest call is never the one that is dropped.           *)
THEOREM LatestKept == Spec => []LatestNotLost
<1>1. ASSUME IInv, up, send_lock = Nobody, queued # <<>>
      PROVE  \/ new_send_data /\ send_buffer = Len(queued)
                             /\ send_buffer_size = SizeOfCall(Len(queued))
             \/ Whole(Len(queued))
  <2>1. send_lock \notin Producers /\ spc # "clear"
    BY <1>1, SlotAssumption DEF IInv, LockInv, SendInside
  <2>2. CASE new_send_data
    BY <1>1, <2>1, <2>2 DEF IInv, BufferInv
  <2>3. CASE ~new_send_data
    <3>1. LastIs(Len(queued), SizeOfCall(Len(queued))) /\ Len(queued) \in Nat
      BY <1>1, <2>1, <2>3 DEF IInv, KeptInv, TypeOK
    <3>2. QED
      BY <1>1, <3>1, LastIsWhole
  <2>4. QED
    BY <2>2, <2>3
<1>2. IInv => LatestNotLost
  BY <1>1 DEF LatestNotLost
<1>3. QED
  BY <1>2, Invariance, PTL

LEMMA FlagStep ==
  ASSUME IInv, [Next]_vars, spc \in {"lock", "begin", "send"}
  PROVE  new_send_data'
<1>1. new_send_data
  BY DEF IInv, FlagInv
<1>2. ASSUME NEW p \in Producers, Producer(p) PROVE new_send_data'
  BY <1>1, <1>2 DEF Producer, Call, Lock, RaiseFlag, SetSize, Realloc, Memcpy,
                    Unlock, bufferVars
<1>3. CASE SendThread
  BY <1>1, <1>3 DEF SendThread, SenderPoll, SenderLock, SendBegin, SendChunk,
                    SendError, ClearFlag, SenderUnlock, bufferVars
<1>4. CASE ConnectionLost \/ UNCHANGED vars
  BY <1>1, <1>4 DEF ConnectionLost, vars, bufferVars
<1>5. QED
  BY <1>2, <1>3, <1>4 DEF Next

(* From its unlocked look at the flag until tcs_send is over, the send       *)
(* thread may rely on the flag.                                              *)
THEOREM FlagStable == Spec => FlagStableUntilLocked
<1>1. IInv /\ [Next]_vars
        => [(spc \in {"lock", "begin", "send"}) => new_send_data']_vars
  BY FlagStep
<1>2. QED
  BY <1>1, Invariance, PTL DEF Spec, FlagStableUntilLocked

-----------------------------------------------------------------------------
(* The mailbox implements the one-slot channel.                              *)

LEMMA ChannelInit == Init => Channel!ChInit
<1> SUFFICES ASSUME Init PROVE Channel!ChInit
  OBVIOUS
<1>1. Len(queued) = 0 /\ Delivered = {} /\ Waiting = 0 /\ up = TRUE
  BY SlotAssumption DEF Init, Delivered, Waiting
<1>2. QED
  BY <1>1 DEF Channel!ChInit

(* Steps that change neither the calls, nor the stream, nor who holds a      *)
(* packet are invisible to the channel.                                      *)
LEMMA SameDelivered ==
  ASSUME UNCHANGED <<queued, wire>>
  PROVE  Delivered' = Delivered
BY DEF Delivered, Whole, SizeOfCall

LEMMA LockPuts ==
  ASSUME IInv, NEW p \in Producers, Lock(p)
  PROVE  Channel!Put
<1>1. queued \in Seq(Packets) /\ packet[p] \in Packets /\ wire' = wire
      /\ queued' = Append(queued, packet[p]) /\ send_lock' = p /\ up' = up
  BY DEF IInv, TypeOK, Lock
<1>2. /\ Len(queued') = Len(queued) + 1
      /\ DOMAIN queued = 1 .. Len(queued)
      /\ DOMAIN queued' = 1 .. Len(queued) + 1
      /\ \A n \in DOMAIN queued : queued'[n] = queued[n]
  BY <1>1
<1>3. Len(queued) \in Nat
  BY <1>1
<1>4. Waiting' = Len(queued) + 1
  BY <1>1, <1>2 DEF Waiting
<1>5. \A n \in DOMAIN queued : Whole(n)' <=> Whole(n)
  BY <1>1, <1>2 DEF Whole, SizeOfCall
<1>6. ~Whole(Len(queued))'
  <2>1. \A i \in DOMAIN wire : wire[i].call \in 1 .. Len(queued)
    BY <1>2 DEF IInv, WireWellFramed, FramedAt
  <2>2. \A i \in DOMAIN wire : wire[i].call # Len(queued')
    BY <1>2, <1>3, <2>1
  <2>3. QED
    BY <1>1, <1>2, <2>2 DEF Whole
<1>7. Delivered' = Delivered
  BY <1>2, <1>3, <1>5, <1>6 DEF Delivered
<1>8. QED
  BY <1>1, <1>2, <1>4, <1>7 DEF Channel!Put

LEMMA ChunkDelivers ==
  ASSUME IInv, SendChunk
  PROVE  Channel!Deliver \/ UNCHANGED Channel!chVars
<1>1. PICK n \in 1 .. (goal - done) :
        /\ wire' = Append(wire, [call |-> send_buffer, from |-> done,
                                 to |-> done + n])
        /\ done' = done + n
        /\ spc' = IF done + n = goal THEN "clear" ELSE "send"
  BY DEF SendChunk
<1>2. /\ spc = "send" /\ up
      /\ UNCHANGED <<new_send_data, send_buffer, send_buffer_size, send_lock,
                     up, queued>>
  BY DEF SendChunk, bufferVars
<1>3. /\ TypeOK /\ wire \in Seq(Chunk) /\ queued \in Seq(Packets)
      /\ done \in Nat /\ goal \in Nat
  BY DEF IInv, TypeOK
<1>4. send_lock \notin Producers /\ new_send_data
  BY <1>2, SlotAssumption DEF IInv, LockInv, FlagInv, SendInside
<1>5. /\ queued # <<>> /\ send_buffer = Len(queued)
      /\ goal = SizeOfCall(Len(queued)) /\ Len(queued) \in DOMAIN queued
  BY <1>2, <1>3, <1>4 DEF IInv, BufferInv, ProgressInv
<1>6. n \in Nat /\ done + n \in Nat
  BY <1>1, <1>3
<1> DEFINE c == [call |-> send_buffer, from |-> done, to |-> done + n]
<1>7. c \in Chunk /\ c.call = Len(queued) /\ c.to = done + n
      /\ wire' = Append(wire, c)
  BY <1>1, <1>3, <1>5, <1>6 DEF Chunk, TypeOK
<1> HIDE DEF c
<1>8. /\ DOMAIN wire' = DOMAIN wire \cup {Len(wire) + 1}
      /\ \A i \in DOMAIN wire : wire'[i] = wire[i]
      /\ wire'[Len(wire) + 1] = c
  BY <1>3, <1>7
<1>9. \A m : Whole(m)' <=> Whole(m) \/ (m = Len(queued) /\ done + n = goal)
  BY <1>2, <1>5, <1>7, <1>8 DEF Whole, SizeOfCall
<1>10. Waiting = Len(queued) /\ Len(queued) # 0
  BY <1>2, <1>3, <1>4, <1>5 DEF Waiting
<1>11. CASE done + n = goal
  <2>1. Waiting' = 0
    BY <1>1, <1>2, <1>4, <1>11 DEF Waiting
  <2>2. Delivered' = Delivered \cup {Waiting}
    BY <1>2, <1>5, <1>9, <1>10, <1>11 DEF Delivered
  <2>3. QED
    BY <1>2, <1>10, <2>1, <2>2 DEF Channel!Deliver
<1>12. CASE done + n # goal
  <2>1. Waiting' = Waiting
    BY <1>1, <1>2, <1>12 DEF Waiting
  <2>2. Delivered' = Delivered
    BY <1>2, <1>9, <1>12 DEF Delivered
  <2>3. QED
    BY <1>2, <2>1, <2>2 DEF Channel!chVars
<1>13. QED
  BY <1>11, <1>12

LEMMA ChannelStep ==
  ASSUME IInv, [Next]_vars
  PROVE  [Channel!ChNext]_(Channel!chVars)
<1> USE DEF bufferVars, sendVars
<1>1. ASSUME NEW p \in Producers, Producer(p)
      PROVE  [Channel!ChNext]_(Channel!chVars)
  <2>1. CASE Lock(p)
    BY <2>1, LockPuts DEF Channel!ChNext
  <2>2. CASE Unlock(p)
    <3>1. send_lock = p /\ spc \notin SendInside /\ new_send_data
      BY <2>2, SlotAssumption DEF IInv, LockInv, FlagInv, Unlock, Goto, Inside
    <3>2. Waiting' = Waiting
      BY <2>2, <3>1 DEF Unlock, Waiting, SendInside
    <3>3. QED
      BY <2>2, <3>2, SameDelivered DEF Unlock, Channel!chVars
  <2>3. ASSUME NEW k \in Packets, Call(p, k) PROVE UNCHANGED Channel!chVars
    BY <2>3, SameDelivered DEF Call, Waiting, Channel!chVars
  <2>4. CASE RaiseFlag(p) \/ SetSize(p) \/ Realloc(p) \/ Memcpy(p)
    <3>1. send_lock = p /\ send_lock' = p
      BY <2>4 DEF IInv, LockInv, RaiseFlag, SetSize, Realloc, Memcpy, Goto,
                  Inside
    <3>2. UNCHANGED <<queued, wire, up>>
      BY <2>4 DEF RaiseFlag, SetSize, Realloc, Memcpy
    <3>3. QED
      BY <3>1, <3>2, SameDelivered DEF Waiting, Channel!chVars
  <2>5. QED
    BY <1>1, <2>1, <2>2, <2>3, <2>4 DEF Producer
<1>2. CASE SenderPoll \/ SenderLock \/ SendBegin \/ ClearFlag \/ SenderUnlock
  <2>1. send_lock \notin Producers <=> send_lock' \notin Producers
    BY <1>2, SlotAssumption
    DEF SenderPoll, SenderLock, SendBegin, ClearFlag, SenderUnlock,
        IInv, LockInv, SendInside
  <2>2. Waiting' = Waiting
    BY <1>2, <2>1, SlotAssumption
    DEF SenderPoll, SenderLock, SendBegin, ClearFlag, SenderUnlock, Waiting,
        IInv, FlagInv
  <2>3. UNCHANGED <<queued, wire, up>>
    BY <1>2 DEF SenderPoll, SenderLock, SendBegin, ClearFlag, SenderUnlock
  <2>4. QED
    BY <2>2, <2>3, SameDelivered DEF Channel!chVars
<1>3. CASE SendChunk
  BY <1>3, ChunkDelivers DEF Channel!ChNext
<1>4. CASE SendError
  <2>1. /\ new_send_data /\ send_lock \notin Producers
        /\ queued # <<>> /\ Len(queued) # 0
    BY <1>4, SlotAssumption
    DEF SendError, IInv, TypeOK, LockInv, FlagInv, BufferInv, SendInside
  <2>2. Waiting # 0 /\ Waiting' = 0
    BY <1>4, <2>1 DEF SendError, Waiting
  <2>3. QED
    BY <1>4, <2>2, SameDelivered DEF SendError, Channel!Lose, Channel!ChNext
<1>5. CASE ConnectionLost
  BY <1>5, SameDelivered
  DEF ConnectionLost, Waiting, Channel!GoDown, Channel!ChNext
<1>6. CASE UNCHANGED vars
  BY <1>6, SameDelivered DEF vars, Waiting, Channel!chVars
<1>7. QED
  BY <1>1, <1>2, <1>3, <1>4, <1>5, <1>6 DEF Next, SendThread

(* Whatever the interleaving of the callers and the send thread, the send    *)
(* side behaves as a place for one packet.                                   *)
THEOREM Refinement == Spec => ImplementsChannel
<1>1. IInv /\ [Next]_vars => [Channel!ChNext]_(Channel!chVars)
  BY ChannelStep
<1>2. QED
  BY <1>1, ChannelInit, Invariance, PTL
  DEF Spec, ImplementsChannel, Channel!ChSpec
=============================================================================
