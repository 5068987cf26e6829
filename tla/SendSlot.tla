------------------------------ MODULE SendSlot ------------------------------
(***************************************************************************)
(* The send side of one ThreadCollection (src/src/threads/threads.c): the  *)
(* SendData mailbox, the threads that queue a packet in it with            *)
(* threads_queue_new_send_data (the server's main thread and the receive   *)
(* threads of the other connections; the client's main and receive         *)
(* threads) and the send thread that polls it, threads_run_send_thread.    *)
(*                                                                         *)
(* Every memory access the lock is there to order is a step of its own:    *)
(* the flag is raised before the buffer is resized and filled, and the     *)
(* send thread reads the flag without the lock.                            *)
(*                                                                         *)
(* A packet is a member of Packets, PacketSize is its serialized size in   *)
(* the unit in which the kernel accepts data.  A call is numbered by the   *)
(* order in which it obtains send_lock; a buffer's content is the number   *)
(* of the call that filled it, or Junk.                                    *)
(***************************************************************************)
EXTENDS Naturals, Sequences, FiniteSets

CONSTANTS
  Producers,   \* threads that call threads_queue_new_send_data
  Sender,      \* the send thread
  Nobody,      \* the owner of a free lock
  Packets,     \* what can be queued
  PacketSize,  \* serialized size of each packet
  MaxCalls     \* bound on the number of calls

ASSUME SlotAssumption ==
  /\ Sender \notin Producers
  /\ Nobody \notin Producers \cup {Sender}
  /\ PacketSize \in [Packets -> Nat \ {0}]
  /\ MaxCalls \in Nat

VARIABLES
  new_send_data,     \* SendData.new_send_data
  send_lock,         \* owner of SendData.send_lock
  send_buffer,       \* content of *SendData.send_buffer
  send_buffer_size,  \* SendData.send_buffer_size
  pc,                \* where each producer is in threads_queue_new_send_data
  packet,            \* the packet each producer was called with
  spc,               \* where the send thread is in its loop
  goal, done,        \* tcs_send: bytes to send, bytes the kernel took
  up,                \* the connection is alive
  queued,            \* history: packet of each call, in lock order
  wire               \* history: what the kernel took, one record per send()

bufferVars == <<new_send_data, send_buffer, send_buffer_size>>
sendVars   == <<spc, goal, done>>
vars == <<new_send_data, send_lock, send_buffer, send_buffer_size, pc, packet,
          spc, goal, done, up, queued, wire>>

Junk == 0

Inside == {"flag", "size", "realloc", "memcpy", "unlock"}
SendInside == {"begin", "send", "clear", "unlock"}

Chunk == [call : Nat, from : Nat, to : Nat]

TypeOK ==
  /\ new_send_data \in BOOLEAN
  /\ send_lock \in Producers \cup {Sender, Nobody}
  /\ send_buffer \in Nat
  /\ send_buffer_size \in Nat
  /\ pc \in [Producers -> {"idle", "lock"} \cup Inside]
  /\ packet \in [Producers -> Packets]
  /\ spc \in {"poll", "lock"} \cup SendInside
  /\ goal \in Nat
  /\ done \in Nat
  /\ up \in BOOLEAN
  /\ queued \in Seq(Packets)
  /\ wire \in Seq(Chunk)

\* threads_init: flag down, one malloc'ed byte, a free mutex.
Init ==
  /\ new_send_data = FALSE
  /\ send_lock = Nobody
  /\ send_buffer = Junk
  /\ send_buffer_size = 1
  /\ pc = [p \in Producers |-> "idle"]
  /\ packet \in [Producers -> Packets]
  /\ spc = "poll"
  /\ goal = 0
  /\ done = 0
  /\ up = TRUE
  /\ queued = <<>>
  /\ wire = <<>>

-----------------------------------------------------------------------------
(* threads_queue_new_send_data                                               *)

Goto(p, from, to) ==
  /\ pc[p] = from
  /\ pc' = [pc EXCEPT ![p] = to]

\* MaxCalls bounds the calls made, those that still wait for the lock included.
Call(p, k) ==
  /\ Len(queued) + Cardinality({q \in Producers : pc[q] = "lock"}) < MaxCalls
  /\ Goto(p, "idle", "lock")
  /\ packet' = [packet EXCEPT ![p] = k]
  /\ UNCHANGED <<bufferVars, send_lock, sendVars, up, queued, wire>>

\* Bug: the flag is lowered while the buffer is rewritten.
LockAndLower(p) ==
  /\ Goto(p, "lock", "flag")
  /\ send_lock = Nobody
  /\ send_lock' = p
  /\ new_send_data' = FALSE
  /\ queued' = Append(queued, packet[p])
  /\ UNCHANGED <<send_buffer, send_buffer_size, packet, sendVars, up, wire>>

\* The call gets its number with the lock.
Lock(p) ==
  /\ Goto(p, "lock", "flag")
  /\ send_lock = Nobody
  /\ send_lock' = p
  /\ queued' = Append(queued, packet[p])
  /\ UNCHANGED <<bufferVars, packet, sendVars, up, wire>>

\* Bug: the flag is forgotten.
RaiseNoFlag(p) ==
  /\ Goto(p, "flag", "size")
  /\ UNCHANGED <<bufferVars, send_lock, packet, sendVars, up, queued, wire>>

RaiseFlag(p) ==
  /\ Goto(p, "flag", "size")
  /\ new_send_data' = TRUE
  /\ UNCHANGED <<send_buffer, send_buffer_size, send_lock, packet, sendVars,
                 up, queued, wire>>

\* Bug: a header's size is taken off a size that does not include it.
SetSizeLessHeader(p) ==
  /\ Goto(p, "size", "realloc")
  /\ send_buffer_size' = PacketSize[packet[p]] - 2
  /\ UNCHANGED <<new_send_data, send_buffer, send_lock, packet, sendVars, up,
                 queued, wire>>

SetSize(p) ==
  /\ Goto(p, "size", "realloc")
  /\ send_buffer_size' = PacketSize[packet[p]]
  /\ UNCHANGED <<new_send_data, send_buffer, send_lock, packet, sendVars, up,
                 queued, wire>>

\* Resized: neither the old packet nor the new one.
Realloc(p) ==
  /\ Goto(p, "realloc", "memcpy")
  /\ send_buffer' = Junk
  /\ UNCHANGED <<new_send_data, send_buffer_size, send_lock, packet, sendVars,
                 up, queued, wire>>

Memcpy(p) ==
  /\ Goto(p, "memcpy", "unlock")
  /\ send_buffer' = Len(queued)
  /\ UNCHANGED <<new_send_data, send_buffer_size, send_lock, packet, sendVars,
                 up, queued, wire>>

Unlock(p) ==
  /\ Goto(p, "unlock", "idle")
  /\ send_lock' = Nobody
  /\ UNCHANGED <<bufferVars, packet, sendVars, up, queued, wire>>

Producer(p) ==
  \/ \E k \in Packets : Call(p, k)
  \/ Lock(p) \/ RaiseFlag(p) \/ SetSize(p) \/ Realloc(p) \/ Memcpy(p)
  \/ Unlock(p)

-----------------------------------------------------------------------------
(* threads_run_send_thread and the tcs_send it calls                         *)

\* Bug: the send thread trusts the flag and does not lock.
SenderPollNoLock ==
  /\ spc = "poll"
  /\ spc' = IF new_send_data THEN "begin" ELSE "poll"
  /\ UNCHANGED <<bufferVars, send_lock, pc, packet, goal, done, up, queued,
                 wire>>

\* The flag is read without the lock; the thread spins while it is down.
SenderPoll ==
  /\ spc = "poll"
  /\ spc' = IF new_send_data THEN "lock" ELSE "poll"
  /\ UNCHANGED <<bufferVars, send_lock, pc, packet, goal, done, up, queued,
                 wire>>

SenderLock ==
  /\ spc = "lock"
  /\ send_lock = Nobody
  /\ send_lock' = Sender
  /\ spc' = "begin"
  /\ UNCHANGED <<bufferVars, pc, packet, goal, done, up, queued, wire>>

\* tcs_send is entered with the buffer's current size.
SendBegin ==
  /\ spc = "begin"
  /\ goal' = send_buffer_size
  /\ done' = 0
  /\ spc' = "send"
  /\ UNCHANGED <<bufferVars, send_lock, pc, packet, up, queued, wire>>

\* Bug: no TCS_MSG_SENDALL, one send() and the rest is forgotten.
SendChunkOnce ==
  /\ spc = "send"
  /\ up
  /\ \E n \in 1 .. (goal - done) :
       /\ wire' = Append(wire, [call |-> send_buffer, from |-> done,
                                to |-> done + n])
       /\ done' = done + n
       /\ spc' = "clear"
  /\ UNCHANGED <<bufferVars, send_lock, pc, packet, goal, up, queued>>

\* One send() of the TCS_MSG_SENDALL loop: the kernel takes a part of the rest.
SendChunk ==
  /\ spc = "send"
  /\ up
  /\ \E n \in 1 .. (goal - done) :
       /\ wire' = Append(wire, [call |-> send_buffer, from |-> done,
                                to |-> done + n])
       /\ done' = done + n
       /\ spc' = IF done + n = goal THEN "clear" ELSE "send"
  /\ UNCHANGED <<bufferVars, send_lock, pc, packet, goal, up, queued>>

\* send() fails, tcs_send returns the error and the caller ignores it.
SendError ==
  /\ spc = "send"
  /\ ~up
  /\ spc' = "clear"
  /\ UNCHANGED <<bufferVars, send_lock, pc, packet, goal, done, up, queued,
                 wire>>

\* Bug: the flag stays up and the packet goes out again.
ClearNoFlag ==
  /\ spc = "clear"
  /\ spc' = "unlock"
  /\ UNCHANGED <<bufferVars, send_lock, pc, packet, goal, done, up, queued,
                 wire>>

ClearFlag ==
  /\ spc = "clear"
  /\ new_send_data' = FALSE
  /\ spc' = "unlock"
  /\ UNCHANGED <<send_buffer, send_buffer_size, send_lock, pc, packet, goal,
                 done, up, queued, wire>>

SenderUnlock ==
  /\ spc = "unlock"
  /\ send_lock' = Nobody
  /\ spc' = "poll"
  /\ UNCHANGED <<bufferVars, pc, packet, goal, done, up, queued, wire>>

SendThread ==
  SenderPoll \/ SenderLock \/ SendBegin \/ SendChunk \/ SendError \/ ClearFlag
    \/ SenderUnlock

\* The peer goes away; later sends fail.
ConnectionLost ==
  /\ up
  /\ up' = FALSE
  /\ UNCHANGED <<bufferVars, send_lock, pc, packet, sendVars, queued, wire>>

Next == (\E p \in Producers : Producer(p)) \/ SendThread \/ ConnectionLost

Spec == Init /\ [][Next]_vars

(***************************************************************************)
(* Fairness: every thread that can run is eventually scheduled.  For       *)
(* SendChunk this also says that a peer that stays connected keeps reading *)
(* (send() does not block forever); a producer may call or not call.  WF   *)
(* of SenderLock is enough because MaxCalls lets the producers fall silent *)
(* at some point: a pthread mutex promises no order among the waiters.     *)
(***************************************************************************)
Fairness ==
  /\ \A p \in Producers :
       /\ WF_vars(Lock(p)) /\ WF_vars(RaiseFlag(p)) /\ WF_vars(SetSize(p))
       /\ WF_vars(Realloc(p)) /\ WF_vars(Memcpy(p)) /\ WF_vars(Unlock(p))
  /\ WF_vars(SendThread)

FairSpec == Spec /\ Fairness

-----------------------------------------------------------------------------
(* Properties                                                                *)

SizeOfCall(n) == PacketSize[queued[n]]

\* The call's packet has gone out whole.
Whole(n) == \E i \in DOMAIN wire : wire[i].call = n /\ wire[i].to = SizeOfCall(n)

\* Send i starts a packet after a whole one, or goes on where the last ended.
FramedAt(i) ==
  /\ wire[i].call \in DOMAIN queued
  /\ wire[i].from < wire[i].to
  /\ wire[i].to <= SizeOfCall(wire[i].call)
  /\ IF wire[i].from = 0
       THEN i > 1 => /\ wire[i - 1].call < wire[i].call
                     /\ wire[i - 1].to = SizeOfCall(wire[i - 1].call)
       ELSE /\ i > 1
            /\ wire[i - 1].call = wire[i].call
            /\ wire[i - 1].to = wire[i].from

(***************************************************************************)
(* The byte stream a peer reads is a sequence of whole packets, each the   *)
(* packet of one call, never twice and never after a packet of a later     *)
(* call; only the last one may be cut.  The flag is up long before the     *)
(* buffer holds the packet, so this rests on what the send thread does     *)
(* between its unlocked look at the flag and its tcs_send.                 *)
(***************************************************************************)
WireWellFramed == \A i \in DOMAIN wire : FramedAt(i)

(***************************************************************************)
(* A queued packet is dropped only for a newer one or with the connection: *)
(* whenever the lock is free the packet of the latest call still waits     *)
(* under a raised flag or has gone out whole.                              *)
(***************************************************************************)
LatestNotLost ==
  up /\ send_lock = Nobody /\ queued # <<>>
    => \/ new_send_data /\ send_buffer = Len(queued)
                        /\ send_buffer_size = SizeOfCall(Len(queued))
       \/ Whole(Len(queued))

(***************************************************************************)
(* The send thread looks at the flag before it locks and never looks       *)
(* again: it may rely on the flag because nobody but itself lowers it.     *)
(***************************************************************************)
FlagStableUntilLocked ==
  [][(spc \in {"lock", "begin", "send"}) => new_send_data']_vars

(***************************************************************************)
(* A packet that is queued is eventually on the wire, itself or a newer    *)
(* one in its place, unless the connection is lost: the send thread never  *)
(* sleeps through a raised flag.                                           *)
(***************************************************************************)
QueuedIsServed ==
  \A n \in 1 .. MaxCalls :
    (Len(queued) = n) ~> (~up \/ \E m \in n .. Len(queued) : Whole(m))

(***************************************************************************)
(* The mailbox implements the one-slot channel.  A put takes effect with   *)
(* the lock, a delivery with the last byte, a loss with a send that fails.  *)
(***************************************************************************)
Delivered == {n \in DOMAIN queued : Whole(n)}

Waiting ==
  IF send_lock \in Producers \/ (new_send_data /\ spc # "clear")
  THEN Len(queued) ELSE 0

Channel == INSTANCE OneSlotChannel
             WITH puts <- Len(queued), pending <- Waiting,
                  delivered <- Delivered, up <- up

ImplementsChannel == Channel!ChSpec
=============================================================================
