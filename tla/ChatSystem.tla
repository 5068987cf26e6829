----------------------------- MODULE ChatSystem -----------------------------
(***************************************************************************)
(* The whole program: N client processes (src/src/client.c) and the server *)
(* (src/src/server.c), the mailbox of each connection at both of its ends, *)
(* and the connections.  A mailbox is the one-slot channel that SendSlot   *)
(* implements; setting a slot up, which Server takes apart, is one step.   *)
(*                                                                         *)
(* A packet is who typed it and its number.  A ping, in either direction,  *)
(* is from nobody; the empty packets of a client whose input has ended     *)
(* have number 0.  Connections hold SendRoom packets.                      *)
(***************************************************************************)
EXTENDS ChatRoom, FiniteSets, SequencesExt

CONSTANTS
  SendRoom,      \* packets that fit in each direction of a connection
  Flood,         \* the clients whose standard input ends
  MaxQuits,      \* bound on the clients that go away
  MaxShortReads  \* bound on the receive threads that lose the framing

ASSUME ChatSystemAssumption ==
  /\ SendRoom \in Nat \ {0}
  /\ Flood \subseteq Clients
  /\ MaxQuits \in Nat /\ MaxShortReads \in Nat

VARIABLES
  cmail, csending,   \* per client: its mailbox; its send thread is in tcs_send
  toServer,          \* per client: packets on their way to the server
  accepted,          \* slots 1 .. accepted are counted
  handling, index,   \* per slot: the packet its receive thread forwards, to whom
  smail, ssending,   \* per slot: its mailbox; its send thread is in tcs_send
  toClient,          \* per slot: packets on their way to the client
  replying,          \* per client: its receive thread has a ping to answer
  running,           \* the clients that have not gone away
  deafServer,        \* the slots whose receive thread lost the framing
  deafClient         \* the clients whose receive thread did

clientVars == <<cmail, csending, toServer>>
serverVars == <<handling, index>>
slotVars   == <<smail, ssending, toClient>>
faultVars  == <<running, deafServer, deafClient>>
vars == <<roomVars, clientVars, accepted, serverVars, slotVars, replying, faultVars>>

NoPacket == [from |-> 0, number |-> 0]
Ping     == [from |-> 0, number |-> 1]
Empty(c) == Line(c, 0)
Packet   == {Ping} \cup [from : Clients, number : 0 .. MaxLines]

TypeOK ==
  /\ RoomTypeOK
  /\ cmail \in [Clients -> Packet \cup {NoPacket}]
  /\ csending \in [Clients -> BOOLEAN]
  /\ toServer \in [Clients -> Seq(Packet)]
  /\ \A c \in Clients : Len(toServer[c]) <= SendRoom
  /\ accepted \in 0 .. N
  /\ handling \in [Clients -> Packet \cup {NoPacket}]
  /\ index \in [Clients -> 1 .. N + 1]
  /\ smail \in [Clients -> Packet \cup {NoPacket}]
  /\ ssending \in [Clients -> BOOLEAN]
  /\ toClient \in [Clients -> Seq(Packet)]
  /\ \A c \in Clients : Len(toClient[c]) <= SendRoom
  /\ replying \in [Clients -> BOOLEAN]
  /\ running \subseteq Clients
  /\ deafServer \subseteq Clients
  /\ deafClient \subseteq Clients

\* Everybody has connected; the kernel accepts before the server does.
Init ==
  /\ RoomInit
  /\ cmail = [c \in Clients |-> NoPacket]
  /\ csending = [c \in Clients |-> FALSE]
  /\ toServer = [c \in Clients |-> <<>>]
  /\ accepted = 0
  /\ handling = [c \in Clients |-> NoPacket]
  /\ index = [c \in Clients |-> 1]
  /\ smail = [c \in Clients |-> NoPacket]
  /\ ssending = [c \in Clients |-> FALSE]
  /\ toClient = [c \in Clients |-> <<>>]
  /\ replying = [c \in Clients |-> FALSE]
  /\ running = Clients
  /\ deafServer = {}
  /\ deafClient = {}

-----------------------------------------------------------------------------
(* What each thread waits for.  A thread that queues a packet waits for the  *)
(* lock that the send thread holds while it is in tcs_send.                  *)

\* data_send_loop of the client: for a packet, then for room.
ClientCanSend(c) ==
  /\ c \in running
  /\ IF csending[c] THEN Len(toServer[c]) < SendRoom ELSE cmail[c] # NoPacket

\* The same loop of slot c.
ServerCanSend(c) ==
  IF ssending[c] THEN c \in running => Len(toClient[c]) < SendRoom
                 ELSE smail[c] # NoPacket

\* The receive threads are back in tcs_receive, and there is something to read.
ClientCanTake(c) == c \in running /\ ~replying[c] /\ toClient[c] # <<>>
ServerCanTake(c) == c <= accepted /\ handling[c] = NoPacket /\ toServer[c] # <<>>

ClientCanPut(c) == c \in running /\ ~csending[c]

\* Bug: the lock of the origin is taken as well.
CanForwardToAll(c) == index[c] <= accepted => ~ssending[index[c]]

\* The next turn of the loop of server_send_to_all, or its end.
CanForward(c) == index[c] \in 1 .. accepted /\ index[c] # c => ~ssending[index[c]]

-----------------------------------------------------------------------------
(* Client c                                                                  *)

\* threads_queue_new_send_data on the client's own mailbox.
ClientPut(c, packet) ==
  /\ ClientCanPut(c)
  /\ cmail' = [cmail EXCEPT ![c] = packet]
  /\ UNCHANGED <<csending, toServer, accepted, serverVars, slotVars, faultVars>>

\* fgets and client_send_data_packet.
Type(c) ==
  /\ RoomType(c)
  /\ ClientPut(c, Line(c, typed[c] + 1))
  /\ UNCHANGED replying

\* fgets at the end of the input, and client_send_data_packet.
TypeNothing(c) ==
  /\ c \in Flood
  /\ ClientPut(c, Empty(c))
  /\ UNCHANGED <<roomVars, replying>>

ClientSendStart(c) ==
  /\ ClientCanSend(c)
  /\ ~csending[c]
  /\ csending' = [csending EXCEPT ![c] = TRUE]
  /\ UNCHANGED <<roomVars, cmail, toServer, accepted, serverVars, slotVars,
                 replying, faultVars>>

ClientSendDone(c) ==
  /\ ClientCanSend(c)
  /\ csending[c]
  /\ toServer' = [toServer EXCEPT ![c] = Append(@, cmail[c])]
  /\ cmail' = [cmail EXCEPT ![c] = NoPacket]
  /\ csending' = [csending EXCEPT ![c] = FALSE]
  /\ UNCHANGED <<roomVars, accepted, serverVars, slotVars, replying, faultVars>>

ClientTake(c) ==
  /\ ClientCanTake(c)
  /\ toClient' = [toClient EXCEPT ![c] = Tail(@)]
  /\ UNCHANGED <<typed, clientVars, accepted, serverVars, smail, ssending,
                 running, deafServer>>

\* client_handle_ping_packet, client_handle_data_packet
ClientReceive(c) ==
  LET packet == Head(toClient[c]) IN
  /\ ClientTake(c)
  /\ c \notin deafClient
  /\ replying' = [replying EXCEPT ![c] = packet = Ping]
  /\ got' = IF packet.number = 0 \/ packet = Ping
              THEN got ELSE [got EXCEPT ![c] = Append(@, packet)]
  /\ UNCHANGED deafClient

\* The bytes are read and nothing is made of them.
ClientSwallow(c) ==
  /\ ClientTake(c)
  /\ \/ c \in deafClient /\ UNCHANGED deafClient
     \/ /\ c \notin deafClient
        /\ Cardinality(deafServer) + Cardinality(deafClient) < MaxShortReads
        /\ deafClient' = deafClient \cup {c}
  /\ UNCHANGED <<got, replying>>

\* client_send_ping_packet
QueueReply(c) ==
  /\ replying[c]
  /\ ClientPut(c, Ping)
  /\ replying' = [replying EXCEPT ![c] = FALSE]
  /\ UNCHANGED roomVars

\* SIGINT, or the machine: what the server has not read may be lost.
Quit(c) ==
  /\ c \in running
  /\ Cardinality(Clients \ running) < MaxQuits
  /\ running' = running \ {c}
  /\ \E k \in 0 .. Len(toServer[c]) :
       toServer' = [toServer EXCEPT ![c] = SubSeq(@, 1, k)]
  /\ UNCHANGED <<roomVars, cmail, csending, accepted, serverVars, slotVars,
                 replying, deafServer, deafClient>>

-----------------------------------------------------------------------------
(* The server                                                                *)

\* threads_queue_new_send_data on the mailbox of slot c.
ServerPut(c, packet) ==
  /\ ~ssending[c]
  /\ smail' = [smail EXCEPT ![c] = packet]
  /\ UNCHANGED <<roomVars, clientVars, ssending, toClient, replying, faultVars>>

\* tcs_accept, threads_init, server_send_ping_packet, threads_count ++
Accept ==
  /\ accepted < N
  /\ accepted' = accepted + 1
  /\ ServerPut(accepted + 1, Ping)
  /\ UNCHANGED serverVars

ServerTake(c) ==
  /\ ServerCanTake(c)
  /\ toServer' = [toServer EXCEPT ![c] = Tail(@)]
  /\ UNCHANGED <<roomVars, cmail, csending, accepted, slotVars, replying,
                 running, deafClient>>

\* Bug: server_handle_ping_packet answers as the client does.
ServerReceiveAnswers(c) ==
  LET packet == Head(toServer[c]) IN
  /\ c \notin deafServer
  /\ ServerCanTake(c)
  /\ toServer' = [toServer EXCEPT ![c] = Tail(@)]
  /\ IF packet = Ping
       THEN /\ ~ssending[c]
            /\ smail' = [smail EXCEPT ![c] = Ping]
            /\ UNCHANGED serverVars
       ELSE /\ handling' = [handling EXCEPT ![c] = packet]
            /\ index' = [index EXCEPT ![c] = 1]
            /\ UNCHANGED smail
  /\ UNCHANGED <<roomVars, cmail, csending, accepted, ssending, toClient, replying,
                 faultVars>>

\* server_handle_packets: a ping has no flag and is only printed.
ServerReceive(c) ==
  LET packet == Head(toServer[c]) IN
  /\ ServerTake(c)
  /\ c \notin deafServer
  /\ IF packet = Ping
       THEN UNCHANGED serverVars
       ELSE /\ handling' = [handling EXCEPT ![c] = packet]
            /\ index' = [index EXCEPT ![c] = 1]
  /\ UNCHANGED deafServer

\* The bytes are read and nothing is made of them.
ServerSwallow(c) ==
  /\ ServerTake(c)
  /\ \/ c \in deafServer /\ UNCHANGED deafServer
     \/ /\ c \notin deafServer
        /\ Cardinality(deafServer) + Cardinality(deafClient) < MaxShortReads
        /\ deafServer' = deafServer \cup {c}
  /\ UNCHANGED serverVars

\* Bug: the origin is not left out.
ForwardToAll(c) ==
  /\ handling[c] # NoPacket
  /\ index[c] <= accepted
  /\ ServerPut(index[c], handling[c])
  /\ index' = [index EXCEPT ![c] = @ + 1]
  /\ UNCHANGED <<accepted, handling>>

\* Bug: the index is incremented before the continue as well.
ForwardSkipsTwo(c) ==
  /\ handling[c] # NoPacket
  /\ index[c] <= accepted
  /\ IF index[c] = c
       THEN UNCHANGED <<roomVars, clientVars, slotVars, replying, faultVars>>
       ELSE ServerPut(index[c], handling[c])
  /\ index' = [index EXCEPT ![c] = IF @ = c THEN @ + 2 ELSE @ + 1]
  /\ UNCHANGED <<accepted, handling>>

\* One turn of the loop of server_send_to_all.
Forward(c) ==
  /\ handling[c] # NoPacket
  /\ index[c] <= accepted
  /\ CanForward(c)
  /\ IF index[c] = c
       THEN UNCHANGED <<roomVars, clientVars, slotVars, replying, faultVars>>
       ELSE ServerPut(index[c], handling[c])
  /\ index' = [index EXCEPT ![c] = @ + 1]
  /\ UNCHANGED <<accepted, handling>>

ForwardDone(c) ==
  /\ handling[c] # NoPacket
  /\ index[c] > accepted
  /\ handling' = [handling EXCEPT ![c] = NoPacket]
  /\ UNCHANGED <<roomVars, clientVars, accepted, index, slotVars, replying, faultVars>>

ServerSendStart(c) ==
  /\ ServerCanSend(c)
  /\ ~ssending[c]
  /\ ssending' = [ssending EXCEPT ![c] = TRUE]
  /\ UNCHANGED <<roomVars, clientVars, accepted, serverVars, smail, toClient,
                 replying, faultVars>>

\* To a client that is gone tcs_send fails, and the packet is gone as well.
ServerSendDone(c) ==
  /\ ServerCanSend(c)
  /\ ssending[c]
  /\ toClient' = IF c \in running
                   THEN [toClient EXCEPT ![c] = Append(@, smail[c])] ELSE toClient
  /\ smail' = [smail EXCEPT ![c] = NoPacket]
  /\ ssending' = [ssending EXCEPT ![c] = FALSE]
  /\ UNCHANGED <<roomVars, clientVars, accepted, serverVars, replying, faultVars>>

-----------------------------------------------------------------------------
\* What the threads do once nobody types and nothing fails.
ReceiveAtClient(c) == ClientReceive(c) \/ (c \in deafClient /\ ClientSwallow(c))
ReceiveAtServer(c) == ServerReceive(c) \/ (c \in deafServer /\ ServerSwallow(c))
ServerForward(c) == Forward(c) \/ ForwardDone(c)
ClientSend(c) == ClientSendStart(c) \/ ClientSendDone(c)
ServerSend(c) == ServerSendStart(c) \/ ServerSendDone(c)

Next ==
  \/ Accept
  \/ \E c \in Clients :
       \/ Type(c) \/ TypeNothing(c)
       \/ ClientSend(c) \/ ClientReceive(c) \/ ClientSwallow(c) \/ QueueReply(c)
       \/ ServerReceive(c) \/ ServerSwallow(c) \/ ServerForward(c) \/ ServerSend(c)
       \/ Quit(c)

Spec == Init /\ [][Next]_vars

\* Threads are scheduled.  Nobody has to type, to quit or to split a packet.
Fairness ==
  /\ WF_vars(Accept)
  /\ \A c \in Clients :
       /\ WF_vars(ClientSend(c))
       /\ WF_vars(ReceiveAtClient(c))
       /\ WF_vars(QueueReply(c))
       /\ WF_vars(ReceiveAtServer(c))
       /\ WF_vars(ServerForward(c))
       /\ WF_vars(ServerSend(c))

FairSpec == Spec /\ Fairness

-----------------------------------------------------------------------------
(* Properties                                                                *)

(***************************************************************************)
(* The program implements the chat room: through two mailboxes that        *)
(* overwrite, two queues and N receive threads that forward at their own   *)
(* pace, each client reads the others' lines in order, none twice, none of *)
(* its own.                                                                *)
(***************************************************************************)
ImplementsRoom == RoomSpec

\* Nothing waits anywhere, and no thread has anything in hand.
Drained ==
  \A c \in Clients :
    /\ c \in running => cmail[c] = NoPacket /\ toClient[c] = <<>> /\ ~replying[c]
    /\ toServer[c] = <<>>
    /\ handling[c] = NoPacket
    /\ smail[c] = NoPacket

\* No client has its greeting before it.
Answered ==
  /\ accepted = N
  /\ \A c \in running :
       ~replying[c] /\ smail[c] # Ping /\ ~\E k \in DOMAIN toClient[c] : toClient[c][k] = Ping

\* A step in which no client at the end of its input queues an empty packet.
NoFlood == \A c \in Clients : ~TypeNothing(c)

(***************************************************************************)
(* Once every client has answered its greeting the waiting cannot close a  *)
(* circle: all that is queued is sent, forwarded and read, whoever quits   *)
(* and whoever has lost the framing, unless a client at the end of its     *)
(* input floods the connections for ever.  In particular a ping causes a   *)
(* reply, and the reply causes nothing.                                    *)
(***************************************************************************)
AnsweredDrains == <>[][NoFlood]_vars => (Answered ~> Drained)

\* Some thread of client c, or of its slot, has work and can go on with it.
CanStep(c) ==
  \/ ClientCanSend(c) \/ ClientCanTake(c)
  \/ replying[c] /\ ClientCanPut(c)
  \/ ServerCanSend(c) \/ ServerCanTake(c)
  \/ handling[c] # NoPacket /\ CanForward(c)

\* No thread can take a step of its own, and there is work left.
Stuck ==
  /\ ~Drained
  /\ accepted = N
  /\ \A c \in Clients : ~CanStep(c)

(***************************************************************************)
(* The program can come to rest with packets everywhere: send threads hold *)
(* their locks on full connections, broadcasts wait for those locks, and   *)
(* the receive threads that would read wait for their own send threads to  *)
(* queue a reply.  It takes two clients that have not answered yet.  (A    *)
(* client whose process does not read at all, which no client here is,     *)
(* stalls every broadcast alone.)                                          *)
(***************************************************************************)
StuckNeedsTwo == Stuck => Cardinality({c \in running : replying[c]}) >= 2
=============================================================================
