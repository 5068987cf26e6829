---------------------------- MODULE ClientProofs ----------------------------
(***************************************************************************)
(* Proofs about Client for any number of lines, pings and signals and any  *)
(* size of the connection: the order of what the server gets, and what the *)
(* mailbox may lose.                                                       *)
(***************************************************************************)
EXTENDS Client, TLAPS

Stream == Append(sent, mail)

\* What has a number got it from a counter that has not gone back.
Counted(p) ==
  /\ p.type = "line" => p.number <= typed
  /\ p.type = "reply" => p.number <= pings

\* Older(p, q), but for a p that may be the newest reply.
OldFor(p) ==
  /\ Counted(p)
  /\ Older(p, line)
  /\ rpc = "reply" => Older(p, Reply(pings))

StreamInv ==
  /\ \A k, l \in DOMAIN sent : k < l => Older(sent[k], sent[l])
  /\ \A k \in DOMAIN sent : Older(sent[k], mail) /\ OldFor(sent[k])
  /\ OldFor(mail)
  /\ Counted(line)

\* Who holds what.
HeldInv ==
  /\ line.type # "reply"
  /\ mpc = "fgets" <=> line = NoPacket
  /\ sending => mail # NoPacket
  /\ mail # NoPacket => mail = latest
  /\ rpc = "reply" => pings > 0

IInv == TypeOK /\ HeldInv /\ StreamInv /\ LatestKept

-----------------------------------------------------------------------------
(* Packets and the stream                                                    *)

LEMMA PacketFacts ==
  /\ NoPacket \in Packet /\ Empty \in Packet /\ NoPacket # Empty
  /\ NoPacket.type = "nothing" /\ Empty.type = "empty"
  /\ \A n \in 1 .. MaxLines : Line(n) \in Packet
  /\ \A n \in 1 .. MaxPings : Reply(n) \in Packet
  /\ \A n \in Nat : /\ Line(n).type = "line" /\ Line(n).number = n
                    /\ Reply(n).type = "reply" /\ Reply(n).number = n
                    /\ {Line(n), Reply(n)} \cap {NoPacket, Empty} = {}
  /\ \A p \in Packet : p.number \in Nat
  /\ \A p \in Packet : p.type = "nothing" => p = NoPacket
<1>1. \A n \in Nat : /\ Line(n).type = "line" /\ Line(n).number = n
                     /\ Reply(n).type = "reply" /\ Reply(n).number = n
  BY DEF Line, Reply
<1>2. /\ NoPacket.type = "nothing" /\ Empty.type = "empty"
      /\ NoPacket.number = 0 /\ Empty.number = 0
  BY DEF NoPacket, Empty
<1>3. \A p \in Packet : \/ p \in {NoPacket, Empty}
                        \/ \E n \in 1 .. MaxLines : p = Line(n)
                        \/ \E n \in 1 .. MaxPings : p = Reply(n)
  BY DEF Packet
<1>4. 1 .. MaxLines \subseteq Nat /\ 1 .. MaxPings \subseteq Nat
  BY ClientAssumption DEF ClientAssumption
<1>5. \A p \in Packet : p.number \in Nat /\ (p.type = "nothing" => p = NoPacket)
  <2> SUFFICES ASSUME NEW p \in Packet
               PROVE  p.number \in Nat /\ (p.type = "nothing" => p = NoPacket)
    OBVIOUS
  <2>1. CASE p \in {NoPacket, Empty}
    BY <2>1, <1>2
  <2>2. CASE \E n \in 1 .. MaxLines : p = Line(n)
    BY <2>2, <1>1, <1>4
  <2>3. CASE \E n \in 1 .. MaxPings : p = Reply(n)
    BY <2>3, <1>1, <1>4
  <2> QED BY <1>3, <2>1, <2>2, <2>3
<1>6. \A n \in Nat : {Line(n), Reply(n)} \cap {NoPacket, Empty} = {}
  BY <1>1, <1>2
<1>7. /\ NoPacket \in Packet /\ Empty \in Packet
      /\ \A n \in 1 .. MaxLines : Line(n) \in Packet
      /\ \A n \in 1 .. MaxPings : Reply(n) \in Packet
  BY DEF Packet
<1> QED BY <1>1, <1>2, <1>5, <1>6, <1>7

LEMMA StreamOrder ==
  ASSUME TypeOK, StreamInv
  PROVE  StreamInOrder
<1> DEFINE s == Append(sent, mail)
<1>1. sent \in Seq(Packet \ {NoPacket, Empty}) /\ Len(sent) \in Nat
  BY DEF TypeOK
<1>2. /\ DOMAIN sent = 1 .. Len(sent)
      /\ DOMAIN s = 1 .. Len(sent) + 1
      /\ \A k \in DOMAIN sent : s[k] = sent[k]
      /\ s[Len(sent) + 1] = mail
  BY <1>1
<1> HIDE DEF s
<1>3. ASSUME NEW k \in DOMAIN s, NEW l \in DOMAIN s, k < l
      PROVE  Older(s[k], s[l])
  <2>1. k \in DOMAIN sent
    BY <1>1, <1>2, <1>3
  <2>2. CASE l \in DOMAIN sent
    BY <1>2, <1>3, <2>1, <2>2 DEF StreamInv
  <2>3. CASE l = Len(sent) + 1
    BY <1>2, <2>1, <2>3 DEF StreamInv
  <2> QED BY <1>1, <1>2, <2>2, <2>3
<1>4. ASSUME NEW k \in DOMAIN s
      PROVE  OldFor(s[k])
  <2>1. CASE k \in DOMAIN sent
    BY <1>2, <2>1 DEF StreamInv
  <2>2. CASE k = Len(sent) + 1
    BY <1>2, <2>2 DEF StreamInv
  <2> QED BY <1>1, <1>2, <2>1, <2>2
<1> QED BY <1>3, <1>4 DEF StreamInOrder, OldFor, s

-----------------------------------------------------------------------------
(* The invariant                                                             *)

LEMMA InitKeeps == Init => IInv
<1> SUFFICES ASSUME Init PROVE IInv
  OBVIOUS
<1>1. TypeOK
  <2>1. 0 \in 0 .. MaxLines /\ 0 \in 0 .. MaxPings /\ 0 \in 0 .. SendRoom
    BY ClientAssumption DEF ClientAssumption
  <2>2. sent \in Seq(Packet \ {NoPacket, Empty})
    BY DEF Init
  <2> QED BY <2>1, <2>2, PacketFacts DEF Init, TypeOK
<1>2. HeldInv /\ LatestKept
  BY PacketFacts DEF Init, HeldInv, LatestKept
<1>3. StreamInv
  BY PacketFacts DEF Init, StreamInv, OldFor, Counted, Older
<1> QED BY <1>1, <1>2, <1>3 DEF IInv

\* Steps that touch nothing of what the stream is made of.
LEMMA QuietKeeps ==
  ASSUME IInv, TypeOK', UNCHANGED <<mpc, line, typed, rpc, pings, mail, latest, sent>>,
         sending' => mail # NoPacket, up' => up
  PROVE  IInv'
<1>1. HeldInv' /\ LatestKept'
  BY DEF IInv, HeldInv, LatestKept
<1>2. StreamInv'
  BY DEF IInv, StreamInv, OldFor, Counted
<1> QED BY <1>1, <1>2 DEF IInv

\* Put, by either thread: what is put is newer than all that is out.
LEMMA PutKeeps ==
  ASSUME IInv, TypeOK', NEW p \in Packet \ {NoPacket}, Put(p),
         UNCHANGED <<typed, pings, sent, up>>,
         \A k \in DOMAIN sent : Older(sent[k], p),
         OldFor(p)',
         (line' = line /\ mpc' = mpc) \/ (line' = NoPacket /\ mpc' = "fgets"),
         rpc' = rpc \/ rpc' = "receive"
  PROVE  IInv'
<1>1. mail' = p /\ latest' = p /\ sending' = FALSE /\ sent' = sent
  BY DEF Put, IInv, TypeOK
<1>2. HeldInv'
  BY <1>1, PacketFacts DEF IInv, HeldInv
<1>3. LatestKept'
  BY <1>1 DEF LatestKept
<1>4. StreamInv'
  <2>1. \A k \in DOMAIN sent : OldFor(sent[k])'
    BY <1>1, PacketFacts DEF IInv, StreamInv, OldFor, Counted, Older
  <2>2. Counted(line)'
    BY PacketFacts DEF IInv, StreamInv, Counted
  <2> QED BY <1>1, <2>1, <2>2 DEF IInv, StreamInv
<1> QED BY <1>2, <1>3, <1>4 DEF IInv

LEMMA ReadLineKeeps == ASSUME IInv, ReadLine PROVE IInv'
<1> USE DEF IInv
<1>1. /\ typed \in Nat /\ typed' = typed + 1 /\ typed' \in 1 .. MaxLines
      /\ line' = Line(typed + 1) /\ mpc' = "queue"
      /\ UNCHANGED <<threads, ended, recvVars, slotVars, netVars, sigVars>>
  BY ClientAssumption DEF ReadLine, FgetsReturns, TypeOK, ClientAssumption
<1>2. /\ line'.type = "line" /\ line'.number = typed + 1 /\ line' \in Packet
      /\ line' # NoPacket
  BY <1>1, PacketFacts
<1>3. TypeOK'
  BY <1>1, <1>2 DEF TypeOK, recvVars, slotVars, netVars, sigVars
<1>4. HeldInv' /\ LatestKept'
  BY <1>1, <1>2 DEF HeldInv, LatestKept, recvVars, slotVars, netVars
<1>5. ASSUME NEW p \in Packet, OldFor(p)
      PROVE  OldFor(p)'
  BY <1>1, <1>2, <1>5, PacketFacts DEF OldFor, Counted, Older, recvVars
<1>6. StreamInv'
  <2>1. mail \in Packet /\ \A k \in DOMAIN sent : sent[k] \in Packet
    BY DEF TypeOK
  <2>2. Counted(line)'
    BY <1>1, <1>2 DEF Counted
  <2> QED BY <1>1, <1>5, <2>1, <2>2 DEF StreamInv, slotVars, netVars
<1> QED BY <1>3, <1>4, <1>6

LEMMA ReadNothingKeeps == ASSUME IInv, ReadNothing PROVE IInv'
<1> USE DEF IInv
<1>1. /\ line' = Empty /\ mpc' = "queue" /\ typed' = typed
      /\ UNCHANGED <<threads, ended, recvVars, slotVars, netVars, sigVars>>
  BY DEF ReadNothing, FgetsReturns
<1>2. TypeOK'
  BY <1>1, PacketFacts DEF TypeOK, recvVars, slotVars, netVars, sigVars
<1>3. HeldInv' /\ LatestKept'
  BY <1>1, PacketFacts DEF HeldInv, LatestKept, recvVars, slotVars, netVars
<1>4. StreamInv'
  BY <1>1, PacketFacts
     DEF StreamInv, OldFor, Counted, Older, recvVars, slotVars, netVars
<1> QED BY <1>2, <1>3, <1>4

LEMMA QueueLineKeeps == ASSUME IInv, QueueLine PROVE IInv'
<1> USE DEF IInv
<1>1. /\ mpc = "queue" /\ Put(line) /\ line' = NoPacket /\ mpc' = "fgets"
      /\ mail' = line /\ latest' = line
      /\ UNCHANGED <<threads, ended, typed, sending, recvVars, netVars, sigVars>>
  BY DEF QueueLine, Put
<1>2. TypeOK'
  BY <1>1, PacketFacts DEF TypeOK, recvVars, netVars, sigVars
<1>3. PICK p \in Packet \ {NoPacket} : p = line
  BY <1>1 DEF TypeOK, HeldInv
<1>4. \A k \in DOMAIN sent : Older(sent[k], p)
  BY <1>3 DEF StreamInv, OldFor
<1>5. OldFor(p)'
  <2>1. /\ Counted(p)' /\ p.type # "reply"
    BY <1>1, <1>3 DEF StreamInv, HeldInv, Counted, recvVars
  <2>2. Older(p, line)'
    <3>1. NoPacket.type = "nothing"
      BY PacketFacts
    <3> QED BY <1>1, <3>1 DEF Older
  <2>3. Older(p, Reply(pings))'
    BY <2>1 DEF Older, Reply
  <2> QED BY <2>1, <2>2, <2>3 DEF OldFor
<1>6. Put(p) /\ UNCHANGED <<typed, rpc, pings, sent, up>>
  BY <1>1, <1>3 DEF recvVars, netVars
<1> HIDE DEF IInv
<1> QED BY <1>1, <1>2, <1>4, <1>5, <1>6, PutKeeps

LEMMA ReceivePingKeeps == ASSUME IInv, ReceivePing PROVE IInv'
<1> USE DEF IInv
<1>1. /\ pings \in Nat /\ pings' = pings + 1 /\ rpc' = "reply"
      /\ pings' \in 1 .. MaxPings
      /\ UNCHANGED <<threads, mainVars, slotVars, netVars, sigVars>>
  BY ClientAssumption DEF ReceivePing, TypeOK, ClientAssumption
<1>2. TypeOK'
  BY <1>1 DEF TypeOK, mainVars, slotVars, netVars, sigVars
<1>3. HeldInv' /\ LatestKept'
  BY <1>1 DEF HeldInv, LatestKept, mainVars, slotVars, netVars
<1>4. Reply(pings').type = "reply" /\ Reply(pings').number = pings + 1
  BY <1>1, PacketFacts
<1>5. ASSUME NEW p \in Packet, OldFor(p)
      PROVE  OldFor(p)'
  BY <1>1, <1>4, <1>5, PacketFacts DEF OldFor, Counted, Older, mainVars
<1>6. StreamInv'
  <2>1. mail \in Packet /\ \A k \in DOMAIN sent : sent[k] \in Packet
    BY DEF TypeOK
  <2>2. Counted(line)'
    BY <1>1 DEF StreamInv, HeldInv, Counted, mainVars
  <2> QED BY <1>1, <1>5, <2>1, <2>2 DEF StreamInv, slotVars, netVars
<1> QED BY <1>2, <1>3, <1>6

LEMMA QueueReplyKeeps == ASSUME IInv, QueueReply PROVE IInv'
<1> USE DEF IInv
<1>1. /\ rpc = "reply" /\ Put(Reply(pings)) /\ rpc' = "receive"
      /\ mail' = Reply(pings) /\ latest' = Reply(pings)
      /\ UNCHANGED <<threads, mainVars, pings, sending, netVars, sigVars>>
  BY DEF QueueReply, Put
<1>2. pings \in 1 .. MaxPings
  BY <1>1 DEF TypeOK, HeldInv
<1>3. Reply(pings) \in Packet \ {NoPacket}
      /\ Reply(pings).type = "reply" /\ Reply(pings).number = pings
  BY <1>2, PacketFacts
<1>4. TypeOK'
  BY <1>1, <1>3 DEF TypeOK, mainVars, netVars, sigVars
<1>5. \A k \in DOMAIN sent : Older(sent[k], Reply(pings))
  BY <1>1 DEF StreamInv, OldFor
<1>6. OldFor(Reply(pings))'
  BY <1>1, <1>2, <1>3 DEF HeldInv, OldFor, Counted, Older, mainVars
<1>7. UNCHANGED <<line, mpc, typed, pings, sent, up>>
  BY <1>1 DEF mainVars, netVars
<1> HIDE DEF IInv
<1> QED BY <1>1, <1>3, <1>4, <1>5, <1>6, <1>7, PutKeeps

LEMMA SendDoneKeeps == ASSUME IInv, SendDone PROVE IInv'
<1> USE DEF IInv
<1>1. /\ sending /\ mail # NoPacket /\ mail = latest
      /\ sent' = IF up /\ mail # Empty THEN Append(sent, mail) ELSE sent
      /\ mail' = NoPacket /\ sending' = FALSE
      /\ UNCHANGED <<threads, mainVars, recvVars, latest, up, sigVars>>
  BY DEF SendDone, HeldInv
<1>2. sent \in Seq(Packet \ {NoPacket, Empty}) /\ mail \in Packet
  BY DEF TypeOK
<1>3. CASE sent' = sent /\ (up => mail = Empty)
  <2>1. unread' \in 0 .. SendRoom
    BY ClientAssumption DEF SendDone, TypeOK, ClientAssumption
  <2>2. TypeOK'
    <3>1. {mail', latest'} \subseteq Packet /\ sending' \in BOOLEAN
          /\ sent' \in Seq(Packet \ {NoPacket, Empty}) /\ up' \in BOOLEAN
      BY <1>1, <1>2, <1>3, PacketFacts DEF TypeOK
    <3>2. QED
      BY <1>1, <2>1, <3>1 DEF TypeOK, mainVars, recvVars, sigVars
  <2>3. HeldInv' /\ LatestKept'
    <3>1. HeldInv'
      BY <1>1 DEF HeldInv, mainVars, recvVars
    <3>2. LatestKept'
      BY <1>1, <1>3 DEF LatestKept
    <3> QED BY <3>1, <3>2
  <2>4. StreamInv'
    BY <1>1, <1>3, PacketFacts
       DEF StreamInv, OldFor, Counted, Older, mainVars, recvVars
  <2> QED BY <2>2, <2>3, <2>4
<1>4. CASE sent' = Append(sent, mail) /\ mail # Empty
  <2>1. /\ sent' \in Seq(Packet \ {NoPacket, Empty})
        /\ DOMAIN sent = 1 .. Len(sent) /\ Len(sent) \in Nat
        /\ DOMAIN sent' = 1 .. Len(sent) + 1 /\ Len(sent') = Len(sent) + 1
        /\ \A k \in DOMAIN sent : sent'[k] = sent[k]
        /\ sent'[Len(sent) + 1] = mail
    BY <1>1, <1>2, <1>4
  <2>2. unread' \in 0 .. SendRoom
    BY ClientAssumption DEF SendDone, TypeOK, ClientAssumption
  <2>3. TypeOK'
    <3>1. {mail', latest'} \subseteq Packet /\ sending' \in BOOLEAN
      <4>1. mail' = NoPacket /\ sending' = FALSE /\ latest' = latest
        BY <1>1
      <4>2. NoPacket \in Packet
        BY PacketFacts
      <4>3. {mail, latest} \subseteq Packet
        BY DEF TypeOK
      <4> QED BY <4>1, <4>2, <4>3
    <3>2. /\ sent' \in Seq(Packet \ {NoPacket, Empty}) /\ unread' \in 0 .. SendRoom
      BY <2>1, <2>2
    <3>3. UNCHANGED <<threads, ended, mpc, line, typed, rpc, pings, up, fds, handler, alive>>
      BY <1>1 DEF mainVars, recvVars, sigVars
    <3> QED BY <3>1, <3>2, <3>3 DEF TypeOK
  <2>4. HeldInv' /\ LatestKept'
    <3>1. HeldInv'
      BY <1>1 DEF HeldInv, mainVars, recvVars
    <3>2. sent' # <<>> /\ latest' = sent'[Len(sent')]
      BY <1>1, <2>1
    <3>3. LatestKept'
      BY <3>2 DEF LatestKept
    <3> QED BY <3>1, <3>3
  <2>5. \A k, l \in DOMAIN sent' : k < l => Older(sent'[k], sent'[l])
    BY <2>1 DEF StreamInv
  <2>6. \A k \in DOMAIN sent' : OldFor(sent'[k])
    BY <2>1 DEF StreamInv
  <2>7. StreamInv'
    BY <1>1, <2>5, <2>6, PacketFacts
       DEF StreamInv, OldFor, Counted, Older, mainVars, recvVars
  <2> QED BY <2>3, <2>4, <2>7
<1> QED BY <1>1, <1>3, <1>4

LEMMA NextKeeps == IInv /\ [Next]_vars => IInv'
<1> SUFFICES ASSUME IInv, [Next]_vars PROVE IInv'
  OBVIOUS
<1>1. CASE UNCHANGED vars
  <2>1. TypeOK' /\ (sending' => mail # NoPacket)
    BY <1>1 DEF vars, mainVars, recvVars, slotVars, netVars, sigVars, IInv, TypeOK, HeldInv
  <2> QED BY <1>1, <2>1, QuietKeeps DEF vars, mainVars, recvVars, slotVars, netVars
<1>2. CASE Main
  BY <1>2, ReadLineKeeps, ReadNothingKeeps, QueueLineKeeps DEF Main
<1>3. CASE EndOfInput
  <2>1. TypeOK' /\ (sending' => mail # NoPacket)
    BY <1>3 DEF EndOfInput, recvVars, slotVars, netVars, sigVars, IInv, TypeOK, HeldInv
  <2> QED BY <1>3, <2>1, QuietKeeps DEF EndOfInput, recvVars, slotVars, netVars
<1>4. CASE ReceivePing \/ QueueReply
  BY <1>4, ReceivePingKeeps, QueueReplyKeeps
<1>5. CASE SendStart
  <2>1. TypeOK' /\ (sending' => mail # NoPacket)
    BY <1>5 DEF SendStart, mainVars, recvVars, netVars, sigVars, IInv, TypeOK
  <2> QED BY <1>5, <2>1, QuietKeeps DEF SendStart, mainVars, recvVars, netVars
<1>6. CASE SendDone
  BY <1>6, SendDoneKeeps
<1>7. CASE ServerReads
  <2>1. TypeOK' /\ (sending' => mail # NoPacket)
    BY <1>7, ClientAssumption
       DEF ServerReads, mainVars, recvVars, slotVars, sigVars, IInv, TypeOK, HeldInv,
           ClientAssumption
  <2> QED BY <1>7, <2>1, QuietKeeps DEF ServerReads, mainVars, recvVars, slotVars
<1>8. CASE ConnectionLost
  <2>1. TypeOK' /\ (sending' => mail # NoPacket)
    BY <1>8 DEF ConnectionLost, mainVars, recvVars, slotVars, sigVars, IInv, TypeOK, HeldInv
  <2> QED BY <1>8, <2>1, QuietKeeps DEF ConnectionLost, mainVars, recvVars, slotVars
<1>9. ASSUME NEW t \in Threads, Sigint(t) \/ Handler(t)
      PROVE  IInv'
  <2>1. TypeOK'
    <3>1. CASE Sigint(t)
      BY <1>9, <3>1 DEF Sigint, mainVars, recvVars, slotVars, netVars, IInv, TypeOK
    <3>2. CASE CleanupServer(t)
      BY <1>9, <3>2 DEF CleanupServer, mainVars, recvVars, slotVars, netVars, IInv, TypeOK
    <3>3. CASE Exit(t)
      BY <1>9, <3>3 DEF Exit, mainVars, recvVars, slotVars, netVars, IInv, TypeOK
    <3> QED BY <1>9, <3>1, <3>2, <3>3 DEF Handler
  <2>2. UNCHANGED <<mainVars, recvVars, slotVars, netVars>>
    BY <1>9 DEF Sigint, Handler, CleanupServer, Exit
  <2>3. sending' => mail # NoPacket
    BY <2>2 DEF slotVars, IInv, HeldInv
  <2> QED BY <2>1, <2>2, <2>3, QuietKeeps DEF mainVars, recvVars, slotVars, netVars
<1> QED
  BY <1>1, <1>2, <1>3, <1>4, <1>5, <1>6, <1>7, <1>8, <1>9 DEF Next, SendThread

-----------------------------------------------------------------------------
(* The theorems                                                              *)

\* Every variable of the client keeps its type: no packet is queued that no
\* thread made, and the connection never holds more than fits.
THEOREM TypeCorrect == Spec => []TypeOK
<1>1. IInv => TypeOK
  BY DEF IInv
<1> QED BY <1>1, InitKeeps, NextKeeps, PTL DEF Spec

\* However many lines, pings and signals there are, the server gets the lines
\* in order and none twice, and the same of the replies.
THEOREM Order == Spec => []StreamInOrder
<1>1. IInv => StreamInOrder
  BY StreamOrder DEF IInv
<1> QED BY <1>1, InitKeeps, NextKeeps, PTL DEF Spec

\* What was queued last waits or is out as long as the connection is up.
THEOREM Latest == Spec => []LatestKept
<1>1. IInv => LatestKept
  BY DEF IInv
<1> QED BY <1>1, InitKeeps, NextKeeps, PTL DEF Spec
=============================================================================
