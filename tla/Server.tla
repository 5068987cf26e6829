------------------------------- MODULE Server -------------------------------
(***************************************************************************)
(* The server (src/src/server.c): the main thread that accepts clients     *)
(* into server.threads (server_run), and for each slot of that array a     *)
(* receive thread that runs server_handle_packets, a mailbox, and a send   *)
(* thread.  The mailbox is the one-slot channel that SendSlot implements:  *)
(* a put waits while the send thread is inside tcs_send with send_lock.    *)
(*                                                                         *)
(* The clients, and the sockets between, are the environment: a client     *)
(* sends, reads or stops reading, and leaves.  SendRoom packets fit in the *)
(* sockets' buffers unread; tcs_send blocks while they are full.           *)
(***************************************************************************)
EXTENDS Naturals, Sequences, FiniteSets

CONSTANTS
  MaxClients,   \* MAX_CLIENTS, the size of server.threads
  Inputs,       \* what clients send: records [type, flag]
  Outcomes,     \* how threads_init can end, see below
  SendRoom,     \* packets that fit in a connection unread
  MaxAccepts,   \* bound on the returns of tcs_accept
  MaxReceives,  \* bound on the packets received
  MaxLeaves     \* bound on the clients that leave

(***************************************************************************)
(* threads_init returns nothing, so the server goes on with a slot that is *)
(*   "live"    both threads run on a connected socket                      *)
(*   "null"    both threads run, tcs_accept failed and gave no socket      *)
(*   "nosend"  the send thread could not be created                        *)
(*   "dead"    no thread: malloc, the mutex or the receive thread failed   *)
(***************************************************************************)
AllOutcomes == {"live", "null", "nosend", "dead"}

ASSUME ServerAssumption ==
  /\ MaxClients \in Nat /\ MaxAccepts \in Nat /\ MaxReceives \in Nat
  /\ MaxLeaves \in Nat
  /\ SendRoom \in Nat \ {0}
  /\ Outcomes \subseteq AllOutcomes
  /\ \A in \in Inputs : {"type", "flag"} \subseteq DOMAIN in

VARIABLES
  mpc,            \* where the main thread is in server_run
  threads_count,  \* server.threads_count
  slot,           \* per slot: "unused" or the outcome of threads_init
  mail,           \* per slot: the packet that waits in the mailbox
  sending,        \* per slot: the send thread is in tcs_send, holding the lock
  rpc,            \* per slot: the receive thread waits, or is in the for loop
  index,          \* per slot: i of server_send_to_all
  received,       \* per slot, history: what the receive thread was given
  connected,      \* per slot: the client has not gone
  unread,         \* per slot: packets in the connection
  delivered       \* per slot, history: packets the connection took

mainVars == <<mpc, threads_count>>
recvVars == <<rpc, index, received>>
netVars  == <<connected, unread, delivered>>
vars == <<mainVars, slot, mail, sending, recvVars, netVars>>

Slots == 0 .. MaxClients - 1

\* What the server makes itself has no slot as its origin.
Ping == [origin |-> MaxClients, number |-> 0, type |-> "ping", flag |-> "none"]

\* new_send_data is false.
NoPacket == [Ping EXCEPT !.type = "nothing"]

\* server_send_to_all: the packet again, the flag cleared.
ForwardWithFlag(i, n) ==
  [origin |-> i, number |-> n, type |-> received[i][n].type,
   flag |-> received[i][n].flag]
Forward(i, n) ==
  [origin |-> i, number |-> n, type |-> received[i][n].type, flag |-> "none"]

Packet == [origin : 0 .. MaxClients, number : Nat,
           type : {"ping", "nothing"} \cup {in.type : in \in Inputs},
           flag : {"none"} \cup {in.flag : in \in Inputs}]

TypeOK ==
  /\ mpc \in {"accept", "init", "ping", "count", "overrun"}
  /\ threads_count \in 0 .. MaxClients
  /\ slot \in [Slots -> {"unused"} \cup Outcomes]
  /\ mail \in [Slots -> Packet]
  /\ sending \in [Slots -> BOOLEAN]
  /\ rpc \in [Slots -> {"receive", "broadcast"}]
  /\ index \in [Slots -> 0 .. MaxClients]
  /\ received \in [Slots -> Seq(Inputs)]
  /\ connected \in [Slots -> BOOLEAN]
  /\ unread \in [Slots -> 0 .. SendRoom]
  /\ delivered \in [Slots -> Seq(Packet)]

\* server_init has succeeded: `server` is a zeroed global.
Init ==
  /\ mpc = "accept"
  /\ threads_count = 0
  /\ slot = [i \in Slots |-> "unused"]
  /\ mail = [i \in Slots |-> NoPacket]
  /\ sending = [i \in Slots |-> FALSE]
  /\ rpc = [i \in Slots |-> "receive"]
  /\ index = [i \in Slots |-> 0]
  /\ received = [i \in Slots |-> <<>>]
  /\ connected = [i \in Slots |-> TRUE]
  /\ unread = [i \in Slots |-> 0]
  /\ delivered = [i \in Slots |-> <<>>]

-----------------------------------------------------------------------------
(* threads_queue_new_send_data, once per packet.                             *)

Put(i, packet) ==
  /\ ~sending[i]
  /\ mail' = [mail EXCEPT ![i] = packet]

-----------------------------------------------------------------------------
(* server_run                                                                *)

\* tcs_accept returns; whether it has a socket shows in InitThreads.
Accept ==
  /\ mpc = "accept"
  /\ threads_count < MaxAccepts
  /\ mpc' = "init"
  /\ UNCHANGED <<threads_count, slot, mail, sending, recvVars, netVars>>

\* threads_init on slot threads_count; its threads run from here on.
InitThreads ==
  /\ mpc = "init"
  /\ threads_count < MaxClients
  /\ \E o \in Outcomes : slot' = [slot EXCEPT ![threads_count] = o]
  /\ mpc' = "ping"
  /\ UNCHANGED <<threads_count, mail, sending, recvVars, netVars>>

\* The slot is behind the end of the array: what the write does is undefined.
\* Here the main thread stops and the others go on.
Overrun ==
  /\ mpc = "init"
  /\ threads_count >= MaxClients
  /\ mpc' = "overrun"
  /\ UNCHANGED <<threads_count, slot, mail, sending, recvVars, netVars>>

\* server_send_ping_packet
SendPing ==
  /\ mpc = "ping"
  /\ Put(threads_count, Ping)
  /\ mpc' = "count"
  /\ UNCHANGED <<threads_count, slot, sending, recvVars, netVars>>

Count ==
  /\ mpc = "count"
  /\ threads_count' = threads_count + 1
  /\ mpc' = "accept"
  /\ UNCHANGED <<slot, mail, sending, recvVars, netVars>>

Main == Accept \/ InitThreads \/ Overrun \/ SendPing \/ Count

-----------------------------------------------------------------------------
(* The receive thread of slot i: server_handle_packets, server_send_to_all   *)

AllReceived == UNION {{i} \X DOMAIN received[i] : i \in Slots}

\* A packet is complete.  Printing it (the second switch) changes nothing.
Receive(i) ==
  /\ slot[i] \in {"live", "nosend"}
  /\ rpc[i] = "receive"
  /\ Cardinality(AllReceived) < MaxReceives
  /\ \E in \in Inputs :
       /\ received' = [received EXCEPT ![i] = Append(@, in)]
       /\ rpc' = [rpc EXCEPT ![i] = IF in.flag = "send_to_all"
                                      THEN "broadcast" ELSE "receive"]
  /\ index' = [index EXCEPT ![i] = 0]
  /\ UNCHANGED <<mainVars, slot, mail, sending, netVars>>

\* Bug: the index is advanced by the body and by the for statement.
SkipOriginTwice(i) ==
  /\ rpc[i] = "broadcast"
  /\ index[i] < threads_count
  /\ index[i] = i
  /\ index' = [index EXCEPT ![i] = @ + 2]
  /\ UNCHANGED <<mainVars, slot, mail, sending, rpc, received, netVars>>

\* threads_count is read again in every turn, without a lock.
SkipOrigin(i) ==
  /\ rpc[i] = "broadcast"
  /\ index[i] < threads_count
  /\ index[i] = i
  /\ index' = [index EXCEPT ![i] = @ + 1]
  /\ UNCHANGED <<mainVars, slot, mail, sending, rpc, received, netVars>>

\* Bug: the loop runs one slot too far, into the one being set up.
PutForwardTooFar(i) ==
  /\ rpc[i] = "broadcast"
  /\ index[i] <= threads_count /\ index[i] \in Slots
  /\ index[i] # i
  /\ Put(index[i], Forward(i, Len(received[i])))
  /\ index' = [index EXCEPT ![i] = @ + 1]
  /\ UNCHANGED <<mainVars, slot, sending, rpc, received, netVars>>

\* Bug: the origin is not left out.
PutForwardEcho(i) ==
  /\ rpc[i] = "broadcast"
  /\ index[i] < threads_count
  /\ Put(index[i], Forward(i, Len(received[i])))
  /\ index' = [index EXCEPT ![i] = @ + 1]
  /\ UNCHANGED <<mainVars, slot, sending, rpc, received, netVars>>

\* Bug: the packet goes out with the flag it came with.
PutForwardFlagged(i) ==
  /\ rpc[i] = "broadcast"
  /\ index[i] < threads_count
  /\ index[i] # i
  /\ Put(index[i], ForwardWithFlag(i, Len(received[i])))
  /\ index' = [index EXCEPT ![i] = @ + 1]
  /\ UNCHANGED <<mainVars, slot, sending, rpc, received, netVars>>

PutForward(i) ==
  /\ rpc[i] = "broadcast"
  /\ index[i] < threads_count
  /\ index[i] # i
  /\ Put(index[i], Forward(i, Len(received[i])))
  /\ index' = [index EXCEPT ![i] = @ + 1]
  /\ UNCHANGED <<mainVars, slot, sending, rpc, received, netVars>>

BroadcastDone(i) ==
  /\ rpc[i] = "broadcast"
  /\ index[i] >= threads_count
  /\ rpc' = [rpc EXCEPT ![i] = "receive"]
  /\ UNCHANGED <<mainVars, slot, mail, sending, index, received, netVars>>

Broadcast(i) == SkipOrigin(i) \/ PutForward(i) \/ BroadcastDone(i)

-----------------------------------------------------------------------------
(* The send thread of slot i                                                 *)

\* It has seen the flag and got send_lock.
SendStart(i) ==
  /\ slot[i] \in {"live", "null"}
  /\ mail[i] # NoPacket
  /\ ~sending[i]
  /\ sending' = [sending EXCEPT ![i] = TRUE]
  /\ UNCHANGED <<mainVars, slot, mail, recvVars, netVars>>

EndSend(i) ==
  /\ sending[i]
  /\ sending' = [sending EXCEPT ![i] = FALSE]
  /\ mail' = [mail EXCEPT ![i] = NoPacket]
  /\ UNCHANGED <<mainVars, slot, recvVars>>

\* Bug: the flag is not cleared after the send.
SendAgain(i) ==
  /\ slot[i] = "live"
  /\ connected[i]
  /\ unread[i] < SendRoom
  /\ sending[i]
  /\ sending' = [sending EXCEPT ![i] = FALSE]
  /\ delivered' = [delivered EXCEPT ![i] = Append(@, mail[i])]
  /\ unread' = [unread EXCEPT ![i] = @ + 1]
  /\ UNCHANGED <<mainVars, slot, mail, recvVars, connected>>

SendDone(i) ==
  /\ slot[i] = "live"
  /\ connected[i]
  /\ unread[i] < SendRoom
  /\ EndSend(i)
  /\ delivered' = [delivered EXCEPT ![i] = Append(@, mail[i])]
  /\ unread' = [unread EXCEPT ![i] = @ + 1]
  /\ UNCHANGED connected

\* Bug: a failed send is tried again with the lock held.
SendRetry(i) ==
  /\ slot[i] = "null" \/ ~connected[i]
  /\ sending[i]
  /\ UNCHANGED vars

\* tcs_send fails: the packet is gone all the same.
SendFail(i) ==
  /\ slot[i] = "null" \/ ~connected[i]
  /\ EndSend(i)
  /\ UNCHANGED netVars

SendThread(i) == SendStart(i) \/ SendDone(i) \/ SendFail(i)

-----------------------------------------------------------------------------
(* The client of slot i                                                      *)

Read(i) ==
  /\ unread[i] > 0
  /\ unread' = [unread EXCEPT ![i] = @ - 1]
  /\ UNCHANGED <<mainVars, slot, mail, sending, recvVars, connected, delivered>>

Leave(i) ==
  /\ slot[i] \in {"live", "nosend", "dead"}
  /\ connected[i]
  /\ Cardinality({j \in Slots : ~connected[j]}) < MaxLeaves
  /\ connected' = [connected EXCEPT ![i] = FALSE]
  /\ UNCHANGED <<mainVars, slot, mail, sending, recvVars, unread, delivered>>

Next ==
  \/ Main
  \/ \E i \in Slots :
       Receive(i) \/ Broadcast(i) \/ SendThread(i) \/ Read(i) \/ Leave(i)

Spec == Init /\ [][Next]_vars

(***************************************************************************)
(* Every server thread that can run is scheduled, and a client that stays  *)
(* goes on reading.  Nobody has to connect, to send or to leave.           *)
(***************************************************************************)
Fairness ==
  /\ WF_vars(InitThreads \/ SendPing \/ Count)
  /\ \A i \in Slots :
       /\ WF_vars(Broadcast(i))
       /\ WF_vars(SendThread(i))
       /\ WF_vars(Read(i))

FairSpec == Spec /\ Fairness

-----------------------------------------------------------------------------
(* Properties                                                                *)

(***************************************************************************)
(* The accept loop never waits for a client: when it queues the ping, no   *)
(* one else can have put anything in that mailbox, because the slot is not *)
(* counted yet, so its send thread cannot be holding the lock.  Slow       *)
(* clients can stall every broadcast, but never the accepting.             *)
(***************************************************************************)
AcceptNeverWaits ==
  mpc = "ping" => ~sending[threads_count] /\ mail[threads_count] = NoPacket

(***************************************************************************)
(* The ping that greets a client is the first packet it gets or it is not  *)
(* sent at all (a broadcast took its place in the mailbox); it never comes *)
(* behind a forwarded packet, although receive threads broadcast while the *)
(* main thread is still setting the slot up.                               *)
(***************************************************************************)
PingFirst ==
  \A i \in Slots :
    /\ \A k \in DOMAIN delivered[i] : delivered[i][k] = Ping => k = 1
    /\ mail[i] = Ping => delivered[i] = <<>>

(***************************************************************************)
(* A client never gets its own packet back: thread_id, fixed when the slot *)
(* is set up, still names the slot whenever the broadcast loop compares.   *)
(***************************************************************************)
NoEcho ==
  \A i \in Slots :
    /\ \A k \in DOMAIN delivered[i] : delivered[i][k].origin # i
    /\ mail[i] # NoPacket => mail[i].origin # i

(***************************************************************************)
(* Of the packets of one origin a client gets a subsequence, in order and  *)
(* none twice, whatever is overwritten in its mailbox in between.          *)
(***************************************************************************)
OriginOrder ==
  \A i \in Slots : \A k, l \in DOMAIN delivered[i] :
    k < l /\ delivered[i][k].origin = delivered[i][l].origin
      => delivered[i][k].number < delivered[i][l].number

(***************************************************************************)
(* What a client gets besides the ping is a packet somebody sent with      *)
(* SEND_TO_ALL, with the flag cleared: no packet is ever forwarded twice.  *)
(***************************************************************************)
OnlyRequestedForwards ==
  \A i \in Slots : \A k \in DOMAIN delivered[i] :
    LET p == delivered[i][k] IN
      \/ p = Ping
      \/ /\ p.number \in DOMAIN received[p.origin]
         /\ received[p.origin][p.number].flag = "send_to_all"
         /\ p = Forward(p.origin, p.number)

(***************************************************************************)
(* While the clients that stay keep reading, every broadcast ends, however *)
(* many slots have failed, are gone, or were never properly set up.        *)
(***************************************************************************)
BroadcastEnds ==
  \A i \in Slots : (rpc[i] = "broadcast") ~> (rpc[i] = "receive" \/ mpc = "overrun")

(***************************************************************************)
(* server.h:14 sizes the array for MAX_CLIENTS; server_run never compares  *)
(* threads_count with it.  The code does not keep this.                    *)
(***************************************************************************)
SlotInArray == mpc # "overrun"
=============================================================================
