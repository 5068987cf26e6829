---------------------------- MODULE ServerProofs ----------------------------
(***************************************************************************)
(* Proofs about Server for every number of slots, every set of inputs and  *)
(* every outcome of threads_init: type correctness and all the safety      *)
(* properties of what clients get.                                         *)
(***************************************************************************)
EXTENDS Server, Integers, TLAPS

\* The slot that is being set up is a slot of the array.
MainInv == mpc \in {"ping", "count"} => threads_count < MaxClients

\* No packet of anyone is, or ever was, with slot i.
Untouched(i) == ~sending[i] /\ mail[i] = NoPacket /\ delivered[i] = <<>>

\* Nothing but the ping gets to a slot that is not counted.
FreshInv ==
  \A i \in Slots : i >= threads_count =>
    \/ Untouched(i)
    \/ mpc = "count" /\ i = threads_count

SendingInv == \A i \in Slots : sending[i] => mail[i] # NoPacket

\* A receive thread broadcasts a packet that asks for it.
BroadcastInv ==
  \A i \in Slots : rpc[i] = "broadcast" =>
    /\ received[i] # <<>>
    /\ received[i][Len(received[i])].flag = "send_to_all"

Requested(p) ==
  /\ p.origin \in Slots
  /\ p.number \in DOMAIN received[p.origin]
  /\ received[p.origin][p.number].flag = "send_to_all"
  /\ p = Forward(p.origin, p.number)

MailInv ==
  \A i \in Slots :
    /\ mail[i] \in {NoPacket, Ping} \/ Requested(mail[i])
    /\ \A k \in DOMAIN delivered[i] :
         delivered[i][k] = Ping \/ Requested(delivered[i][k])

\* The latest packet of j that can have got to slot i.
Latest(j, i) ==
  IF rpc[j] = "broadcast" /\ i >= index[j]
    THEN Len(received[j]) - 1 ELSE Len(received[j])

LatestInv ==
  \A i, j \in Slots :
    /\ mail[i].origin = j => mail[i].number <= Latest(j, i)
    /\ \A k \in DOMAIN delivered[i] :
         delivered[i][k].origin = j => delivered[i][k].number <= Latest(j, i)

\* What waits is newer than what the client got from the same origin.
NewerInv ==
  \A i \in Slots : mail[i] # NoPacket =>
    \A k \in DOMAIN delivered[i] :
      delivered[i][k].origin = mail[i].origin
        => delivered[i][k].number < mail[i].number

IInv ==
  /\ TypeOK /\ MainInv /\ BroadcastInv /\ FreshInv /\ SendingInv /\ MailInv
  /\ LatestInv /\ NewerInv /\ PingFirst /\ NoEcho /\ OriginOrder

-----------------------------------------------------------------------------
(* Packets                                                                   *)

LEMMA PacketFacts ==
  /\ Ping \in Packet /\ NoPacket \in Packet /\ Ping # NoPacket
  /\ Ping.origin = MaxClients /\ NoPacket.origin = MaxClients
  /\ Ping.number = 0
  /\ MaxClients \notin Slots
  /\ Slots \subseteq Nat
<1>1. MaxClients \in Nat /\ MaxClients \in 0 .. MaxClients
  BY ServerAssumption
<1>2. NoPacket = [origin |-> MaxClients, number |-> 0, type |-> "nothing",
                  flag |-> "none"]
  BY DEF NoPacket, Ping
<1>3. NoPacket.type # Ping.type
  BY <1>2 DEF Ping
<1>4. QED
  BY <1>1, <1>2, <1>3 DEF Ping, Packet, Slots

LEMMA ForwardFacts ==
  ASSUME TypeOK, NEW j \in Slots, NEW n \in DOMAIN received[j]
  PROVE  /\ Forward(j, n) \in Packet
         /\ Forward(j, n).origin = j /\ Forward(j, n).number = n
         /\ Forward(j, n) # Ping /\ Forward(j, n) # NoPacket
<1>1. received[j][n] \in Inputs /\ n \in Nat
  BY DEF TypeOK
<1>2. Forward(j, n) = [origin |-> j, number |-> n,
                       type |-> received[j][n].type, flag |-> "none"]
  BY DEF Forward
<1>3. Forward(j, n).origin = j /\ Forward(j, n).number = n
  BY <1>2
<1>4. j \in 0 .. MaxClients
  BY ServerAssumption DEF Slots
<1>5. Forward(j, n) \in Packet
  BY <1>1, <1>2, <1>4 DEF Packet
<1>6. QED
  BY <1>3, <1>5, PacketFacts

-----------------------------------------------------------------------------
(* Type correctness, with what it takes of the other invariants.             *)

TypeInv == TypeOK /\ MainInv /\ BroadcastInv

LEMMA InitType == Init => TypeInv
<1> SUFFICES ASSUME Init PROVE TypeInv
  OBVIOUS
<1>1. /\ MaxClients \in Nat /\ 0 \in 0 .. MaxClients /\ 0 \in 0 .. SendRoom
      /\ <<>> \in Seq(Inputs) /\ <<>> \in Seq(Packet)
  BY ServerAssumption
<1>2. mail \in [Slots -> Packet] /\ delivered \in [Slots -> Seq(Packet)]
      /\ received \in [Slots -> Seq(Inputs)]
  BY <1>1, PacketFacts DEF Init
<1>3. QED
  BY <1>1, <1>2 DEF Init, TypeInv, TypeOK, MainInv, BroadcastInv

(* The step that extends what a receive thread has been given.               *)
LEMMA ReceiveType ==
  ASSUME TypeInv, NEW i \in Slots, Receive(i)
  PROVE  TypeInv'
<1>1. PICK in \in Inputs :
        /\ received' = [received EXCEPT ![i] = Append(@, in)]
        /\ rpc' = [rpc EXCEPT ![i] = IF in.flag = "send_to_all"
                                       THEN "broadcast" ELSE "receive"]
  BY DEF Receive
<1>2. /\ index' = [index EXCEPT ![i] = 0]
      /\ UNCHANGED <<mpc, threads_count, slot, mail, sending, connected,
                     unread, delivered>>
  BY DEF Receive, mainVars, netVars
<1>3. TypeOK /\ MainInv /\ BroadcastInv /\ received[i] \in Seq(Inputs)
  BY DEF TypeInv, TypeOK
<1>4. /\ Append(received[i], in) \in Seq(Inputs)
      /\ Append(received[i], in) # <<>>
      /\ Append(received[i], in)[Len(Append(received[i], in))] = in
  BY <1>3
<1>5. received' \in [Slots -> Seq(Inputs)] /\ received'[i] = Append(received[i], in)
  BY <1>1, <1>3, <1>4 DEF TypeOK
<1>6. index' \in [Slots -> 0 .. MaxClients]
  BY <1>2, <1>3, ServerAssumption DEF TypeOK
<1>7. rpc' \in [Slots -> {"receive", "broadcast"}]
  BY <1>1, <1>3 DEF TypeOK
<1>8. TypeOK'
  BY <1>2, <1>3, <1>5, <1>6, <1>7 DEF TypeOK
<1>9. MainInv'
  BY <1>2, <1>3 DEF MainInv
<1>10. BroadcastInv'
  <2> SUFFICES ASSUME NEW j \in Slots, rpc'[j] = "broadcast"
               PROVE  /\ received'[j] # <<>>
                      /\ received'[j][Len(received'[j])].flag = "send_to_all"
    BY DEF BroadcastInv
  <2>1. CASE j = i
    <3>1. in.flag = "send_to_all"
      BY <1>1, <1>3, <2>1 DEF TypeOK
    <3>2. QED
      BY <1>4, <1>5, <2>1, <3>1
  <2>2. CASE j # i
    BY <1>1, <1>3, <2>2 DEF TypeOK, BroadcastInv
  <2>3. QED
    BY <2>1, <2>2
<1>11. QED
  BY <1>8, <1>9, <1>10 DEF TypeInv

LEMMA NextType == TypeInv /\ [Next]_vars => TypeInv'
<1> SUFFICES ASSUME TypeInv, [Next]_vars PROVE TypeInv'
  OBVIOUS
<1> USE ServerAssumption
    DEF TypeInv, TypeOK, MainInv, BroadcastInv, mainVars, recvVars, netVars
<1>1. CASE Accept
  BY <1>1 DEF Accept
<1>2. CASE InitThreads
  BY <1>2 DEF InitThreads
<1>3. CASE Overrun
  BY <1>3 DEF Overrun
<1>4. CASE SendPing
  BY <1>4, PacketFacts DEF SendPing, Put
<1>5. CASE Count
  BY <1>5 DEF Count
<1>6. ASSUME NEW i \in Slots, Receive(i) PROVE TypeInv'
  BY <1>6, ReceiveType
<1>7. ASSUME NEW i \in Slots, Broadcast(i) PROVE TypeInv'
  <2>1. CASE SkipOrigin(i)
    BY <2>1 DEF SkipOrigin
  <2>2. CASE PutForward(i)
    <3>1. Len(received[i]) \in DOMAIN received[i]
      BY <2>2 DEF PutForward
    <3>2. Forward(i, Len(received[i])) \in Packet
      BY <3>1, ForwardFacts
    <3>3. mail' \in [Slots -> Packet]
      BY <2>2, <3>2 DEF PutForward, Put
    <3>4. index' \in [Slots -> 0 .. MaxClients]
      BY <2>2 DEF PutForward
    <3>5. QED
      BY <2>2, <3>3, <3>4 DEF PutForward
  <2>3. CASE BroadcastDone(i)
    BY <2>3 DEF BroadcastDone
  <2>4. QED
    BY <1>7, <2>1, <2>2, <2>3 DEF Broadcast
<1>8. ASSUME NEW i \in Slots, SendThread(i) PROVE TypeInv'
  <2>1. CASE SendStart(i)
    BY <2>1 DEF SendStart
  <2>2. CASE SendDone(i)
    <3>1. mail' \in [Slots -> Packet] /\ sending' \in [Slots -> BOOLEAN]
      BY <2>2, PacketFacts DEF SendDone, EndSend
    <3>2. delivered' \in [Slots -> Seq(Packet)]
      BY <2>2 DEF SendDone
    <3>3. unread' \in [Slots -> 0 .. SendRoom]
      BY <2>2 DEF SendDone
    <3>4. QED
      BY <2>2, <3>1, <3>2, <3>3 DEF SendDone, EndSend
  <2>3. CASE SendFail(i)
    BY <2>3, PacketFacts DEF SendFail, EndSend
  <2>4. QED
    BY <1>8, <2>1, <2>2, <2>3 DEF SendThread
<1>9. ASSUME NEW i \in Slots, Read(i) PROVE TypeInv'
  BY <1>9 DEF Read
<1>10. ASSUME NEW i \in Slots, Leave(i) PROVE TypeInv'
  BY <1>10 DEF Leave
<1>11. CASE UNCHANGED vars
  BY <1>11 DEF vars
<1>12. QED
  BY <1>1, <1>2, <1>3, <1>4, <1>5, <1>6, <1>7, <1>8, <1>9, <1>10, <1>11
  DEF Next, Main

(* Every behaviour of the server keeps its variables in their types: up to   *)
(* the accept that overruns the array, threads_count and the broadcast index *)
(* stay within it.                                                           *)
THEOREM TypeCorrect == Spec => []TypeOK
<1>1. TypeInv => TypeOK
  BY DEF TypeInv
<1>2. QED
  BY <1>1, InitType, NextType, PTL DEF Spec

-----------------------------------------------------------------------------
(* What packets there are and where they may be.                             *)

ContentInv ==
  MailInv /\ LatestInv /\ NewerInv /\ PingFirst /\ NoEcho /\ OriginOrder

LEMMA Parts == IInv <=> TypeInv /\ FreshInv /\ SendingInv /\ ContentInv
BY DEF IInv, TypeInv, ContentInv

LEMMA InitInd == Init => IInv
<1> SUFFICES ASSUME Init PROVE IInv
  OBVIOUS
<1>1. TypeInv
  BY InitType
<1>2. FreshInv /\ SendingInv
  BY DEF Init, FreshInv, Untouched, SendingInv
<1>3. ContentInv
  BY PacketFacts
  DEF Init, ContentInv, MailInv, LatestInv, NewerInv, PingFirst, NoEcho,
      OriginOrder
<1>4. QED
  BY <1>1, <1>2, <1>3, Parts

LEMMA Types ==
  ASSUME TypeInv
  PROVE  /\ \A i \in Slots : mail[i] \in Packet /\ mail[i].number \in Nat
         /\ \A i \in Slots : \A k \in DOMAIN delivered[i] :
              delivered[i][k] \in Packet /\ delivered[i][k].number \in Nat
         /\ \A i, j \in Slots : Latest(i, j) \in Int
         /\ \A i \in Slots : Len(received[i]) \in Nat
<1>1. TypeOK
  BY DEF TypeInv
<1>2. \A q \in Packet : q.number \in Nat
  BY DEF Packet
<1>3. \A i \in Slots : mail[i] \in Packet
  BY <1>1 DEF TypeOK
<1>4. \A i \in Slots : \A k \in DOMAIN delivered[i] : delivered[i][k] \in Packet
  BY <1>1 DEF TypeOK
<1>5. \A i \in Slots : Len(received[i]) \in Nat
  BY <1>1 DEF TypeOK
<1>6. \A i, j \in Slots : Latest(i, j) \in Int
  BY <1>5 DEF Latest
<1>7. QED
  BY <1>2, <1>3, <1>4, <1>5, <1>6

(* A step that moves no packet and takes back nothing of Latest.             *)
LEMMA QuietInd ==
  ASSUME TypeInv, TypeInv', ContentInv, UNCHANGED <<mail, delivered, received>>,
         \A i, j \in Slots : Latest(j, i) <= Latest(j, i)'
  PROVE  ContentInv'
<1>1. MailInv'
  BY DEF ContentInv, MailInv, Requested, Forward
<1>2. LatestInv'
  <2>1. \A i, j \in Slots : Latest(i, j)' \in Int
    BY DEF TypeInv, TypeOK, Latest
  <2>2. \A i, j \in Slots : \A n \in Nat :
          n <= Latest(j, i) => n <= Latest(j, i)'
    BY <2>1, Types
  <2>3. QED
    BY <2>2, Types DEF ContentInv, LatestInv
<1>3. NewerInv' /\ PingFirst' /\ NoEcho' /\ OriginOrder'
  BY DEF ContentInv, NewerInv, PingFirst, NoEcho, OriginOrder
<1>4. QED
  BY <1>1, <1>2, <1>3 DEF ContentInv

(* A mailbox is emptied, and the packet may go to the client.                *)
LEMMA SendDoneInd ==
  ASSUME TypeInv, TypeInv', SendingInv, ContentInv, NEW i \in Slots, SendDone(i)
  PROVE  ContentInv'
<1>1. /\ delivered' = [delivered EXCEPT ![i] = Append(@, mail[i])]
      /\ mail' = [mail EXCEPT ![i] = NoPacket]
      /\ UNCHANGED <<received, rpc, index>> /\ sending[i]
  BY DEF SendDone, EndSend, recvVars
<1>2. PICK L \in Nat : L = Len(delivered[i]) /\ DOMAIN delivered[i] = 1 .. L
  BY DEF TypeInv, TypeOK
<1>3. /\ DOMAIN delivered'[i] = 1 .. L + 1
      /\ \A k \in 1 .. L : delivered'[i][k] = delivered[i][k]
      /\ delivered'[i][L + 1] = mail[i]
      /\ mail'[i] = NoPacket
      /\ \A j \in Slots \ {i} : delivered'[j] = delivered[j] /\ mail'[j] = mail[j]
  <2>1. delivered[i] \in Seq(Packet) /\ mail[i] \in Packet
        /\ DOMAIN delivered = Slots /\ DOMAIN mail = Slots
    BY DEF TypeInv, TypeOK
  <2>2. delivered'[i] = Append(delivered[i], mail[i])
    BY <1>1, <2>1
  <2>3. QED
    BY <1>1, <1>2, <2>1, <2>2
<1>4. mail[i] # NoPacket
  BY <1>1 DEF SendingInv
<1>5. \A k \in 1 .. L + 1 : k \in 1 .. L \/ k = L + 1
  OBVIOUS
<1>6. MailInv'
  <2>1. \A q : Requested(q)' <=> Requested(q)
    BY <1>1 DEF Requested, Forward
  <2>2. mail[i] = Ping \/ Requested(mail[i])
    BY <1>4 DEF ContentInv, MailInv
  <2>3. \A k \in DOMAIN delivered'[i] :
          delivered'[i][k] = Ping \/ Requested(delivered'[i][k])
    BY <1>2, <1>3, <1>5, <2>2 DEF ContentInv, MailInv
  <2>4. QED
    BY <1>3, <2>1, <2>3 DEF ContentInv, MailInv
<1>7. LatestInv'
  <2>1. \A j, k \in Slots : Latest(j, k)' = Latest(j, k)
    BY <1>1 DEF Latest
  <2>2. \A j \in Slots : mail'[i].origin # j
    BY <1>3, PacketFacts
  <2>3. \A j \in Slots : \A k \in DOMAIN delivered'[i] :
          delivered'[i][k].origin = j
            => delivered'[i][k].number <= Latest(j, i)
    BY <1>2, <1>3, <1>5 DEF ContentInv, LatestInv
  <2>4. QED
    BY <1>3, <2>1, <2>2, <2>3 DEF ContentInv, LatestInv
<1>8. NewerInv' /\ NoEcho'
  <2>1. NewerInv'
    BY <1>3 DEF ContentInv, NewerInv
  <2>2. NoEcho'
    BY <1>2, <1>3, <1>4, <1>5 DEF ContentInv, NoEcho
  <2>3. QED
    BY <2>1, <2>2
<1>9. PingFirst'
  <2>1. mail[i] = Ping => L = 0
    BY <1>2 DEF ContentInv, PingFirst
  <2>2. \A k \in DOMAIN delivered'[i] : delivered'[i][k] = Ping => k = 1
    BY <1>2, <1>3, <1>5, <2>1 DEF ContentInv, PingFirst
  <2>3. QED
    BY <1>3, <2>2, PacketFacts DEF ContentInv, PingFirst
<1>10. OriginOrder'
  <2>1. ASSUME NEW k \in 1 .. L + 1, NEW l \in 1 .. L + 1, k < l,
               delivered'[i][k].origin = delivered'[i][l].origin
        PROVE  delivered'[i][k].number < delivered'[i][l].number
    <3>1. k \in 1 .. L
      BY <2>1
    <3>2. CASE l \in 1 .. L
      BY <1>2, <1>3, <2>1, <3>1, <3>2 DEF ContentInv, OriginOrder
    <3>3. CASE l = L + 1
      BY <1>2, <1>3, <1>4, <2>1, <3>1, <3>3 DEF ContentInv, NewerInv
    <3>4. QED
      BY <1>5, <3>2, <3>3
  <2>2. QED
    BY <1>3, <2>1 DEF ContentInv, OriginOrder
<1>11. QED
  BY <1>6, <1>7, <1>8, <1>9, <1>10 DEF ContentInv

LEMMA SendFailInd ==
  ASSUME TypeInv, TypeInv', ContentInv, NEW i \in Slots, SendFail(i)
  PROVE  ContentInv'
<1>1. /\ mail' = [mail EXCEPT ![i] = NoPacket]
      /\ UNCHANGED <<received, rpc, index, delivered>> /\ DOMAIN mail = Slots
  BY DEF SendFail, EndSend, recvVars, netVars, TypeInv, TypeOK
<1>2. mail'[i] = NoPacket /\ \A j \in Slots \ {i} : mail'[j] = mail[j]
  BY <1>1
<1>3. \A q : Requested(q)' <=> Requested(q)
  BY <1>1 DEF Requested, Forward
<1>4. MailInv'
  BY <1>1, <1>2, <1>3 DEF ContentInv, MailInv
<1>5. LatestInv'
  BY <1>1, <1>2, PacketFacts DEF ContentInv, LatestInv, Latest
<1>6. NewerInv' /\ NoEcho' /\ OriginOrder'
  BY <1>1, <1>2 DEF ContentInv, NewerInv, NoEcho, OriginOrder
<1>7. PingFirst'
  BY <1>1, <1>2, PacketFacts DEF ContentInv, PingFirst
<1>8. QED
  BY <1>4, <1>5, <1>6, <1>7 DEF ContentInv

(* The ping goes into a mailbox nobody has used.                             *)
LEMMA SendPingInd ==
  ASSUME IInv, TypeInv', SendPing
  PROVE  ContentInv'
<1> DEFINE c == threads_count
<1>1. /\ mail' = [mail EXCEPT ![c] = Ping]
      /\ UNCHANGED <<received, rpc, index, delivered>> /\ DOMAIN mail = Slots
      /\ mpc = "ping" /\ c \in Slots
  BY ServerAssumption
  DEF SendPing, Put, recvVars, netVars, IInv, TypeOK, MainInv, Slots
<1>2. mail'[c] = Ping /\ \A j \in Slots \ {c} : mail'[j] = mail[j]
  BY <1>1
<1>3. delivered[c] = <<>>
  BY <1>1, PacketFacts DEF IInv, FreshInv, Untouched
<1>4. \A q : Requested(q)' <=> Requested(q)
  BY <1>1 DEF Requested, Forward
<1> HIDE DEF c
<1>5. MailInv'
  BY <1>1, <1>2, <1>4 DEF IInv, MailInv
<1>6. LatestInv'
  BY <1>1, <1>2, PacketFacts DEF IInv, LatestInv, Latest
<1>7. NewerInv' /\ PingFirst' /\ OriginOrder'
  BY <1>1, <1>2, <1>3 DEF IInv, NewerInv, PingFirst, OriginOrder
<1>8. NoEcho'
  BY <1>1, <1>2, PacketFacts DEF IInv, NoEcho
<1>9. QED
  BY <1>5, <1>6, <1>7, <1>8 DEF ContentInv

(* A forwarded packet goes into the mailbox of another slot; it is newer     *)
(* than all that came from its origin before.                                *)
LEMMA PutForwardInd ==
  ASSUME TypeInv, TypeInv', ContentInv, NEW j \in Slots, PutForward(j)
  PROVE  ContentInv'
<1>1. PICK t \in Slots : t = index[j]
  BY ServerAssumption DEF PutForward, TypeInv, TypeOK, Slots
<1>2. PICK n \in DOMAIN received[j] : n = Len(received[j])
  <2>1. received[j] # <<>> /\ received[j] \in Seq(Inputs)
    BY DEF PutForward, TypeInv, TypeOK, BroadcastInv
  <2>2. Len(received[j]) \in DOMAIN received[j]
    BY <2>1
  <2>3. QED
    BY <2>2
<1>3. PICK p \in Packet : p = Forward(j, n)
  BY ForwardFacts DEF TypeInv
<1>4. /\ mail' = [mail EXCEPT ![t] = p]
      /\ index' = [index EXCEPT ![j] = @ + 1]
      /\ UNCHANGED <<received, rpc, delivered>>
      /\ rpc[j] = "broadcast" /\ t # j
  BY <1>1, <1>2, <1>3 DEF PutForward, Put, netVars
<1>5. /\ mail'[t] = p /\ \A i \in Slots \ {t} : mail'[i] = mail[i]
      /\ index'[j] = t + 1 /\ \A i \in Slots \ {j} : index'[i] = index[i]
  BY <1>1, <1>4 DEF TypeInv, TypeOK
<1>6. /\ p.origin = j /\ p.number = n /\ p # Ping /\ p # NoPacket
      /\ n \in Nat /\ t \in Nat
  <2>1. TypeOK /\ received[j] \in Seq(Inputs)
    BY DEF TypeInv, TypeOK
  <2>2. /\ Forward(j, n).origin = j /\ Forward(j, n).number = n
        /\ Forward(j, n) # Ping /\ Forward(j, n) # NoPacket
    BY <2>1, ForwardFacts
  <2>3. n \in Nat
    BY <1>2, <2>1
  <2>4. QED
    BY <1>1, <1>3, <2>2, <2>3, PacketFacts
<1>7. \A q : Requested(q)' <=> Requested(q)
  BY <1>4 DEF Requested, Forward
<1>8. MailInv'
  <2>1. Requested(p)
    BY <1>2, <1>3, <1>4, <1>6 DEF Requested, TypeInv, BroadcastInv
  <2>2. QED
    BY <1>4, <1>5, <1>7, <2>1 DEF ContentInv, MailInv
<1>9. /\ \A i, k \in Slots : k # j => Latest(k, i)' = Latest(k, i)
      /\ \A i \in Slots : i # t => Latest(j, i)' = Latest(j, i)
      /\ Latest(j, t)' = n /\ Latest(j, t) = n - 1
  <2>1. \A i, k \in Slots : k # j => Latest(k, i)' = Latest(k, i)
    BY <1>4, <1>5 DEF Latest
  <2>2. ASSUME NEW i \in Slots, i # t PROVE Latest(j, i)' = Latest(j, i)
    <3>1. i \in Nat /\ (i >= t + 1 <=> i >= t)
      BY <1>6, <2>2, PacketFacts
    <3>2. QED
      BY <1>1, <1>4, <1>5, <3>1 DEF Latest
  <2>3. Latest(j, t)' = n
    <3>1. ~(t >= t + 1)
      BY <1>6
    <3>2. QED
      BY <1>2, <1>4, <1>5, <3>1 DEF Latest
  <2>4. Latest(j, t) = n - 1
    BY <1>1, <1>2, <1>4, <1>6 DEF Latest
  <2>5. QED
    BY <2>1, <2>2, <2>3, <2>4
<1>10. LatestInv'
  <2>1. ASSUME NEW i \in Slots, NEW k \in Slots, mail'[i].origin = k
        PROVE  mail'[i].number <= Latest(k, i)'
    <3>1. CASE i = t
      BY <1>5, <1>6, <1>9, <2>1, <3>1
    <3>2. CASE i # t
      BY <1>5, <1>9, <2>1, <3>2 DEF ContentInv, LatestInv
    <3>3. QED
      BY <3>1, <3>2
  <2>2. ASSUME NEW i \in Slots, NEW k \in Slots, NEW m \in DOMAIN delivered[i],
               delivered[i][m].origin = k
        PROVE  delivered[i][m].number <= Latest(k, i)'
    <3>1. delivered[i][m].number <= Latest(k, i) /\ delivered[i][m].number \in Nat
      BY <2>2, Types DEF ContentInv, LatestInv
    <3>2. CASE k = j /\ i = t
      BY <1>6, <1>9, <3>1, <3>2
    <3>3. CASE ~(k = j /\ i = t)
      BY <1>9, <3>1, <3>3
    <3>4. QED
      BY <3>2, <3>3
  <2>3. QED
    BY <1>4, <2>1, <2>2 DEF LatestInv
<1>11. NewerInv'
  <2>1. ASSUME NEW k \in DOMAIN delivered[t], delivered[t][k].origin = j
        PROVE  delivered[t][k].number < n
    <3>1. delivered[t][k].number <= Latest(j, t) /\ delivered[t][k].number \in Nat
      BY <2>1, Types DEF ContentInv, LatestInv
    <3>2. QED
      BY <1>6, <1>9, <3>1
  <2>2. QED
    BY <1>4, <1>5, <1>6, <2>1 DEF ContentInv, NewerInv
<1>12. PingFirst' /\ NoEcho' /\ OriginOrder'
  BY <1>4, <1>5, <1>6 DEF ContentInv, PingFirst, NoEcho, OriginOrder
<1>13. QED
  BY <1>8, <1>10, <1>11, <1>12 DEF ContentInv

(* What a receive thread is given is appended; nothing moves.                *)
LEMMA ReceiveInd ==
  ASSUME TypeInv, TypeInv', ContentInv, NEW i \in Slots, Receive(i)
  PROVE  ContentInv'
<1>1. PICK in \in Inputs :
        /\ received' = [received EXCEPT ![i] = Append(@, in)]
        /\ rpc' = [rpc EXCEPT ![i] = IF in.flag = "send_to_all"
                                       THEN "broadcast" ELSE "receive"]
  BY DEF Receive
<1>2. /\ index' = [index EXCEPT ![i] = 0] /\ rpc[i] = "receive"
      /\ UNCHANGED <<mail, delivered>>
  BY DEF Receive, netVars
<1>3. PICK L \in Nat : L = Len(received[i])
  BY DEF TypeInv, TypeOK
<1>4. /\ received'[i] = Append(received[i], in)
      /\ \A j \in Slots \ {i} :
           received'[j] = received[j] /\ rpc'[j] = rpc[j] /\ index'[j] = index[j]
      /\ DOMAIN received = Slots /\ received[i] \in Seq(Inputs)
      /\ index'[i] = 0
  BY <1>1, <1>2 DEF TypeInv, TypeOK
<1>5. /\ Len(received'[i]) = L + 1
      /\ DOMAIN received[i] = 1 .. L /\ DOMAIN received'[i] = 1 .. L + 1
      /\ \A n \in 1 .. L : received'[i][n] = received[i][n]
  BY <1>3, <1>4
<1>6. ASSUME NEW q, Requested(q) PROVE Requested(q)'
  <2>1. /\ q.origin \in Slots /\ q.number \in DOMAIN received'[q.origin]
        /\ received'[q.origin][q.number] = received[q.origin][q.number]
    BY <1>4, <1>5, <1>6 DEF Requested
  <2>2. QED
    BY <1>6, <2>1 DEF Requested, Forward
<1>7. MailInv'
  BY <1>2, <1>6 DEF ContentInv, MailInv
<1>8. \A j, k \in Slots : Latest(j, k) <= Latest(j, k)'
  <2> SUFFICES ASSUME NEW j \in Slots, NEW k \in Slots
               PROVE  Latest(j, k) <= Latest(j, k)'
    OBVIOUS
  <2>1. CASE j = i
    <3>1. Latest(i, k) = L
      BY <1>2, <1>3 DEF Latest
    <3>2. Latest(i, k)' \in {L, L + 1}
      BY <1>3, <1>5 DEF Latest
    <3>3. QED
      BY <1>3, <2>1, <3>1, <3>2
  <2>2. CASE j # i
    <3>1. Latest(j, k)' = Latest(j, k)
      BY <1>4, <2>2 DEF Latest
    <3>2. QED
      BY <3>1, Types
  <2>3. QED
    BY <2>1, <2>2
<1>9. LatestInv'
  <2>1. \A j, k \in Slots : Latest(j, k)' \in Int
    BY DEF TypeInv, TypeOK, Latest
  <2>2. \A j, k \in Slots : \A n \in Nat :
          n <= Latest(j, k) => n <= Latest(j, k)'
    BY <1>8, <2>1, Types
  <2>3. QED
    BY <1>2, <2>2, Types DEF ContentInv, LatestInv
<1>10. NewerInv' /\ PingFirst' /\ NoEcho' /\ OriginOrder'
  BY <1>2 DEF ContentInv, NewerInv, PingFirst, NoEcho, OriginOrder
<1>11. QED
  BY <1>7, <1>9, <1>10 DEF ContentInv

(* Every step keeps ContentInv.                                              *)
LEMMA ContentInd ==
  ASSUME IInv, [Next]_vars
  PROVE  ContentInv'
<1>1. TypeInv /\ TypeInv' /\ ContentInv /\ SendingInv
  BY Parts, NextType
<1>2. ASSUME UNCHANGED <<mail, delivered, received, rpc, index>>
      PROVE  ContentInv'
  <2>1. \A i, j \in Slots : Latest(j, i)' = Latest(j, i)
    BY <1>2 DEF Latest
  <2>2. QED
    BY <1>1, <1>2, <2>1, QuietInd, Types
<1> USE DEF mainVars, recvVars, netVars
<1>3. CASE Accept \/ InitThreads \/ Overrun \/ Count \/ UNCHANGED vars
  BY <1>2, <1>3 DEF Accept, InitThreads, Overrun, Count, vars
<1>4. CASE SendPing
  BY <1>1, <1>4, SendPingInd
<1>5. ASSUME NEW i \in Slots, Receive(i) PROVE ContentInv'
  BY <1>1, <1>5, ReceiveInd
<1>6. ASSUME NEW i \in Slots, Broadcast(i) PROVE ContentInv'
  <2>1. CASE PutForward(i)
    BY <1>1, <2>1, PutForwardInd
  <2>2. CASE SkipOrigin(i) \/ BroadcastDone(i)
    <3>1. UNCHANGED <<mail, delivered, received>>
      BY <2>2 DEF SkipOrigin, BroadcastDone
    <3>2. \A j, k \in Slots : Latest(j, k) <= Latest(j, k)'
      <4> SUFFICES ASSUME NEW j \in Slots, NEW k \in Slots
                   PROVE  Latest(j, k) <= Latest(j, k)'
        OBVIOUS
      <4>1. Latest(j, k) \in Int /\ Len(received[j]) \in Nat
        BY <1>1, Types
      <4>2. CASE SkipOrigin(i)
        <5>1. rpc' = rpc /\ (k >= index'[j] => k >= index[j])
          BY <1>1, <4>2, PacketFacts DEF SkipOrigin, TypeInv, TypeOK
        <5>2. QED
          BY <3>1, <4>1, <5>1 DEF Latest
      <4>3. CASE BroadcastDone(i)
        <5>1. index' = index /\ (rpc'[j] = "broadcast" => rpc[j] = "broadcast")
          BY <1>1, <4>3 DEF BroadcastDone, TypeInv, TypeOK
        <5>2. QED
          BY <3>1, <4>1, <5>1 DEF Latest
      <4>4. QED
        BY <2>2, <4>2, <4>3
    <3>3. QED
      BY <1>1, <3>1, <3>2, QuietInd
  <2>3. QED
    BY <1>6, <2>1, <2>2 DEF Broadcast
<1>7. ASSUME NEW i \in Slots, SendThread(i) PROVE ContentInv'
  <2>1. CASE SendStart(i)
    BY <1>2, <2>1 DEF SendStart
  <2>2. CASE SendDone(i)
    BY <1>1, <2>2, SendDoneInd
  <2>3. CASE SendFail(i)
    BY <1>1, <2>3, SendFailInd
  <2>4. QED
    BY <1>7, <2>1, <2>2, <2>3 DEF SendThread
<1>8. ASSUME NEW i \in Slots, Read(i) \/ Leave(i) PROVE ContentInv'
  BY <1>2, <1>8 DEF Read, Leave
<1>9. QED
  BY <1>3, <1>4, <1>5, <1>6, <1>7, <1>8 DEF Next, Main

(* Only the ping gets to a slot that is not counted, and a send thread is in *)
(* tcs_send only with a packet.                                              *)
LEMMA FreshInd ==
  ASSUME IInv, [Next]_vars
  PROVE  FreshInv' /\ SendingInv'
<1>1. TypeInv /\ TypeInv' /\ FreshInv /\ SendingInv
  BY Parts, NextType
<1>2. /\ DOMAIN mail = Slots /\ DOMAIN sending = Slots
      /\ DOMAIN delivered = Slots
      /\ threads_count \in Nat /\ threads_count' \in Nat
      /\ Slots \subseteq Nat
  BY <1>1, ServerAssumption, PacketFacts DEF TypeInv, TypeOK
<1> USE DEF mainVars, recvVars, netVars, FreshInv, SendingInv, Untouched
<1>3. CASE Accept
  BY <1>1, <1>3 DEF Accept
<1>4. CASE InitThreads
  BY <1>1, <1>4 DEF InitThreads
<1>5. CASE Overrun
  BY <1>1, <1>5 DEF Overrun
<1>6. CASE SendPing
  <2>1. \A i \in Slots : i # threads_count => mail'[i] = mail[i]
    BY <1>2, <1>6 DEF SendPing, Put
  <2>2. threads_count \in Slots => mail'[threads_count] = Ping
    BY <1>2, <1>6 DEF SendPing, Put
  <2>3. QED
    BY <1>1, <1>2, <1>6, <2>1, <2>2, PacketFacts DEF SendPing
<1>7. CASE Count
  <2>1. threads_count' = threads_count + 1
        /\ UNCHANGED <<mail, sending, delivered>>
    BY <1>7 DEF Count
  <2>2. \A i \in Slots : i >= threads_count' => i >= threads_count /\ i # threads_count
    BY <1>2, <2>1
  <2>3. QED
    BY <1>1, <2>1, <2>2
<1>8. ASSUME NEW i \in Slots, Receive(i) PROVE FreshInv' /\ SendingInv'
  BY <1>1, <1>8 DEF Receive
<1>9. ASSUME NEW i \in Slots, Broadcast(i) PROVE FreshInv' /\ SendingInv'
  <2>1. CASE PutForward(i)
    <3>1. PICK t \in Slots : t = index[i] /\ t < threads_count
      BY <1>1, <2>1, ServerAssumption DEF PutForward, TypeInv, TypeOK, Slots
    <3>2. PICK p \in Packet : p = Forward(i, Len(received[i])) /\ p # NoPacket
      <4>1. received[i] # <<>> /\ received[i] \in Seq(Inputs)
        BY <1>1, <2>1 DEF PutForward, TypeInv, TypeOK, BroadcastInv
      <4>2. Len(received[i]) \in DOMAIN received[i]
        BY <4>1
      <4>3. QED
        BY <1>1, <4>2, ForwardFacts DEF TypeInv
    <3>3. /\ mail' = [mail EXCEPT ![t] = p]
          /\ UNCHANGED <<mpc, threads_count, sending, delivered>>
      BY <2>1, <3>1, <3>2 DEF PutForward, Put
    <3>4. \A j \in Slots : j >= threads_count => mail'[j] = mail[j]
      BY <1>2, <3>1, <3>3
    <3>5. \A j \in Slots : mail'[j] = mail[j] \/ mail'[j] # NoPacket
      BY <1>2, <3>2, <3>3
    <3>6. QED
      BY <1>1, <3>3, <3>4, <3>5
  <2>2. CASE SkipOrigin(i)
    BY <1>1, <2>2 DEF SkipOrigin
  <2>3. CASE BroadcastDone(i)
    BY <1>1, <2>3 DEF BroadcastDone
  <2>4. QED
    BY <1>9, <2>1, <2>2, <2>3 DEF Broadcast
<1>10. ASSUME NEW i \in Slots, SendThread(i) PROVE FreshInv' /\ SendingInv'
  <2>1. CASE SendStart(i)
    <3>1. ~Untouched(i)
      BY <2>1 DEF SendStart
    <3>2. QED
      BY <1>1, <1>2, <2>1, <3>1 DEF SendStart
  <2>2. CASE SendDone(i) \/ SendFail(i)
    <3>1. /\ sending[i]
          /\ sending' = [sending EXCEPT ![i] = FALSE]
          /\ mail' = [mail EXCEPT ![i] = NoPacket]
          /\ UNCHANGED <<mpc, threads_count>>
          /\ \A j \in Slots \ {i} : delivered'[j] = delivered[j]
      BY <1>2, <2>2 DEF SendDone, SendFail, EndSend
    <3>2. QED
      BY <1>1, <1>2, <3>1
  <2>3. QED
    BY <1>10, <2>1, <2>2 DEF SendThread
<1>11. ASSUME NEW i \in Slots, Read(i) PROVE FreshInv' /\ SendingInv'
  BY <1>1, <1>11 DEF Read
<1>12. ASSUME NEW i \in Slots, Leave(i) PROVE FreshInv' /\ SendingInv'
  BY <1>1, <1>12 DEF Leave
<1>13. CASE UNCHANGED vars
  BY <1>1, <1>13 DEF vars
<1>14. QED
  BY <1>3, <1>4, <1>5, <1>6, <1>7, <1>8, <1>9, <1>10, <1>11, <1>12, <1>13
  DEF Next, Main

(* IInv holds in every state the server reaches.                             *)
THEOREM Invariance == Spec => []IInv
<1>1. ASSUME IInv, [Next]_vars PROVE IInv'
  <2>1. TypeInv' /\ ContentInv' /\ FreshInv' /\ SendingInv'
    BY <1>1, Parts, NextType, ContentInd, FreshInd
  <2>2. QED
    BY <2>1 DEF IInv, TypeInv, ContentInv
<1>2. QED
  BY <1>1, InitInd, PTL DEF Spec

-----------------------------------------------------------------------------
(* The safety properties.                                                    *)

(* The main thread never waits for a send thread.                            *)
THEOREM AcceptFree == Spec => []AcceptNeverWaits
<1>1. IInv => AcceptNeverWaits
  <2> SUFFICES ASSUME IInv, mpc = "ping"
               PROVE  ~sending[threads_count] /\ mail[threads_count] = NoPacket
    BY DEF AcceptNeverWaits
  <2>1. threads_count \in Slots /\ threads_count >= threads_count
    BY ServerAssumption DEF IInv, TypeOK, MainInv, Slots
  <2>2. QED
    BY <2>1 DEF IInv, FreshInv, Untouched
<1>2. QED
  BY <1>1, Invariance, PTL

(* The greeting is the first packet a client gets, or it gets none.          *)
THEOREM Greeting == Spec => []PingFirst
<1>1. IInv => PingFirst
  BY DEF IInv
<1>2. QED
  BY <1>1, Invariance, PTL

(* No client gets its own packet back.                                       *)
THEOREM Echo == Spec => []NoEcho
<1>1. IInv => NoEcho
  BY DEF IInv
<1>2. QED
  BY <1>1, Invariance, PTL

(* The packets of one origin arrive in order and none of them twice.         *)
THEOREM Order == Spec => []OriginOrder
<1>1. IInv => OriginOrder
  BY DEF IInv
<1>2. QED
  BY <1>1, Invariance, PTL

(* Nothing but requested packets is forwarded, with the flag cleared.        *)
THEOREM Forwards == Spec => []OnlyRequestedForwards
<1>1. IInv => OnlyRequestedForwards
  BY DEF IInv, MailInv, Requested, OnlyRequestedForwards
<1>2. QED
  BY <1>1, Invariance, PTL
=============================================================================
