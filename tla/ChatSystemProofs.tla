-------------------------- MODULE ChatSystemProofs --------------------------
(***************************************************************************)
(* Proofs about ChatRoom and ChatSystem for every number of clients and    *)
(* lines, every size of the connections, and any quits and short reads:    *)
(* the chat room keeps every author's order, and the program implements    *)
(* the chat room.                                                          *)
(***************************************************************************)
EXTENDS ChatSystem, FiniteSetTheorems, TLAPS

\* A line of author a, not a ping, not an empty packet.
IsLine(p, a) == p.from = a /\ p.number > 0

\* What is before the server's receive thread of a comes from a (or is the
\* reply to the greeting), was typed, and is in order.
InOrderUp(a) ==
  /\ cmail[a].from \in {0, a}
  /\ handling[a] # NoPacket => handling[a].from = a
  /\ \A k \in DOMAIN toServer[a] : toServer[a][k].from \in {0, a}
  /\ \A k, l \in DOMAIN toServer[a] :
       k < l /\ toServer[a][k].from = a /\ IsLine(toServer[a][l], a)
         => toServer[a][k].number < toServer[a][l].number
  /\ \A k \in DOMAIN toServer[a] :
       toServer[a][k].from = a =>
         /\ toServer[a][k].number <= typed[a]
         /\ IsLine(cmail[a], a) => toServer[a][k].number < cmail[a].number
  /\ cmail[a].from = a => cmail[a].number <= typed[a]

\* Number n of author a is older than all that its receive thread will read.
Older(a, n) ==
  /\ n <= typed[a]
  /\ \A k \in DOMAIN toServer[a] :
       IsLine(toServer[a][k], a) => n < toServer[a][k].number
  /\ IsLine(cmail[a], a) => n < cmail[a].number

HandlingOlder(a) == handling[a].from = a => Older(a, handling[a].number)

\* It is older than all that slot d has still to get from a.
Passed(a, d, n) ==
  /\ Older(a, n)
  /\ IsLine(handling[a], a) /\ index[a] <= d => n < handling[a].number

\* On the way from slot d to its reader, packets of a are in order.
InOrderDown(a, d) ==
  /\ smail[d].from = a => Passed(a, d, smail[d].number)
  /\ \A k \in DOMAIN toClient[d] : toClient[d][k].from = a =>
       /\ Passed(a, d, toClient[d][k].number)
       /\ IsLine(smail[d], a) => toClient[d][k].number < smail[d].number
  /\ \A k, l \in DOMAIN toClient[d] :
       k < l /\ toClient[d][k].from = a /\ IsLine(toClient[d][l], a)
         => toClient[d][k].number < toClient[d][l].number
  /\ \A k \in DOMAIN got[d] : got[d][k].from = a =>
       /\ Passed(a, d, got[d][k].number)
       /\ IsLine(smail[d], a) => got[d][k].number < smail[d].number
       /\ \A l \in DOMAIN toClient[d] :
            IsLine(toClient[d][l], a) => got[d][k].number < toClient[d][l].number

NoneOfItsOwn(d) ==
  /\ smail[d].from # d
  /\ \A k \in DOMAIN toClient[d] : toClient[d][k].from # d

\* A send thread in tcs_send has a packet.
SendingInv ==
  \A c \in Clients : /\ csending[c] => cmail[c] # NoPacket
                     /\ ssending[c] => smail[c] # NoPacket

UpInv == \A a \in Clients : InOrderUp(a) /\ HandlingOlder(a)
DownInv == \A a, d \in Clients : a # d => InOrderDown(a, d)
OwnInv == \A d \in Clients : NoneOfItsOwn(d)

IInv == TypeOK /\ SendingInv /\ UpInv /\ DownInv /\ OwnInv

-----------------------------------------------------------------------------
(* Packets and sequences                                                     *)

LEMMA PacketFacts ==
  /\ N \in Nat /\ MaxLines \in Nat /\ SendRoom \in Nat \ {0}
  /\ Clients \subseteq Nat /\ 0 \notin Clients
  /\ Ping \in Packet /\ NoPacket # Ping
  /\ Ping.from = 0 /\ NoPacket.from = 0 /\ NoPacket.number = 0
  /\ \A p \in Packet : p.from \in Clients \cup {0} /\ p.number \in Nat
  /\ \A p \in Packet : p # NoPacket /\ (p.from = 0 => p = Ping)
  /\ \A c \in Clients, n \in 0 .. MaxLines :
       /\ Line(c, n) \in Packet
       /\ Line(c, n).from = c /\ Line(c, n).number = n
BY ChatRoomAssumption, ChatSystemAssumption
   DEF Clients, Packet, Ping, NoPacket, Line

LEMMA AppendFacts ==
  ASSUME NEW S, NEW s \in Seq(S), NEW e \in S
  PROVE  /\ Append(s, e) \in Seq(S)
         /\ Len(Append(s, e)) = Len(s) + 1
         /\ \A k \in DOMAIN Append(s, e) :
              \/ k \in DOMAIN s /\ Append(s, e)[k] = s[k]
              \/ k = Len(s) + 1 /\ Append(s, e)[k] = e
         /\ \A k \in DOMAIN s : k < Len(s) + 1
OBVIOUS

LEMMA TailFacts ==
  ASSUME NEW S, NEW s \in Seq(S), s # <<>>
  PROVE  /\ Tail(s) \in Seq(S)
         /\ Len(Tail(s)) = Len(s) - 1
         /\ Head(s) = s[1] /\ 1 \in DOMAIN s /\ s[1] \in S
         /\ \A k \in DOMAIN Tail(s) : k + 1 \in DOMAIN s /\ Tail(s)[k] = s[k + 1] /\ 1 < k + 1
         /\ \A k, l \in DOMAIN Tail(s) : k < l => k + 1 < l + 1
OBVIOUS

LEMMA PrefixFacts ==
  ASSUME NEW S, NEW s \in Seq(S), NEW m \in 0 .. Len(s)
  PROVE  /\ SubSeq(s, 1, m) \in Seq(S)
         /\ Len(SubSeq(s, 1, m)) <= Len(s)
         /\ \A k \in DOMAIN SubSeq(s, 1, m) : k \in DOMAIN s /\ SubSeq(s, 1, m)[k] = s[k]
OBVIOUS

-----------------------------------------------------------------------------
(* Frames: which part of the invariant depends on what                       *)

\* Nothing on the author's side moves.
LEMMA UpFrame ==
  ASSUME UpInv, UNCHANGED <<typed, cmail, toServer, handling>>
  PROVE  UpInv'
BY DEF UpInv, InOrderUp, HandlingOlder, Older, IsLine

\* What was passed stays passed, and nothing on the reader's side moves.
LEMMA DownFrame ==
  ASSUME TypeOK, DownInv, UNCHANGED <<smail, toClient, got>>,
         \A a, d \in Clients : a # d =>
           \A n \in Nat : Passed(a, d, n) => Passed(a, d, n)'
  PROVE  DownInv'
<1> SUFFICES ASSUME NEW a \in Clients, NEW d \in Clients, a # d
             PROVE  InOrderDown(a, d)'
  BY DEF DownInv
<1>1. InOrderDown(a, d)
  BY DEF DownInv
<1>2. /\ smail[d].from = a => smail[d].number \in Nat
      /\ \A k \in DOMAIN toClient[d] : toClient[d][k].number \in Nat
      /\ \A k \in DOMAIN got[d] : got[d][k].number \in Nat
  <2>1. smail[d] \in Packet \cup {NoPacket} /\ toClient[d] \in Seq(Packet)
        /\ got[d] \in Seq(Lines)
    BY DEF TypeOK, RoomTypeOK
  <2>2. /\ \A k \in DOMAIN toClient[d] : toClient[d][k] \in Packet
        /\ \A k \in DOMAIN got[d] : got[d][k] \in Lines
    BY <2>1
  <2>3. \A p \in Lines : p.number \in Nat
    BY PacketFacts DEF Lines
  <2>4. QED
    BY <2>1, <2>2, <2>3, PacketFacts
<1>3. QED
  BY <1>1, <1>2 DEF InOrderDown, IsLine

LEMMA OwnFrame ==
  ASSUME OwnInv, UNCHANGED <<smail, toClient>>
  PROVE  OwnInv'
BY DEF OwnInv, NoneOfItsOwn

-----------------------------------------------------------------------------
(* One lemma per action of the clients                                       *)

LEMMA TypeKeeps ==
  ASSUME IInv, NEW c \in Clients, Type(c)
  PROVE  IInv'
<1>1. /\ typed[c] < MaxLines
      /\ typed' = [typed EXCEPT ![c] = @ + 1]
      /\ cmail' = [cmail EXCEPT ![c] = Line(c, typed[c] + 1)]
      /\ UNCHANGED <<got, csending, toServer, accepted, handling, index, smail,
                     ssending, toClient, replying, running, deafServer, deafClient>>
  BY DEF Type, RoomType, ClientPut, serverVars, slotVars, faultVars
<1>2. TypeOK /\ SendingInv /\ UpInv /\ DownInv /\ OwnInv
  BY DEF IInv
<1>3. /\ typed[c] \in Nat /\ typed[c] + 1 \in 0 .. MaxLines
      /\ Line(c, typed[c] + 1) \in Packet
      /\ Line(c, typed[c] + 1).from = c /\ Line(c, typed[c] + 1).number = typed[c] + 1
  BY <1>1, <1>2, PacketFacts DEF TypeOK, RoomTypeOK
<1>4. /\ typed' \in [Clients -> 0 .. MaxLines]
      /\ cmail' \in [Clients -> Packet \cup {NoPacket}]
  BY <1>1, <1>2, <1>3 DEF TypeOK, RoomTypeOK
<1>5. TypeOK'
  BY <1>1, <1>2, <1>4 DEF TypeOK, RoomTypeOK
<1>6. \A a \in Clients :
        /\ a # c => typed'[a] = typed[a] /\ cmail'[a] = cmail[a]
        /\ a = c => typed'[a] = typed[a] + 1 /\ cmail'[a] = Line(c, typed[c] + 1)
  BY <1>1, <1>2 DEF TypeOK, RoomTypeOK
<1>7. ASSUME NEW a \in Clients, NEW n \in Nat, Older(a, n)
      PROVE  Older(a, n)'
  BY <1>1, <1>3, <1>6, <1>7 DEF Older, IsLine
<1>8. UpInv'
  <2> SUFFICES ASSUME NEW a \in Clients PROVE InOrderUp(a)' /\ HandlingOlder(a)'
    BY DEF UpInv
  <2>1. InOrderUp(a) /\ HandlingOlder(a)
    BY <1>2 DEF UpInv
  <2>2. /\ handling[a] \in Packet \cup {NoPacket}
        /\ \A k \in DOMAIN toServer[a] : toServer[a][k] \in Packet
    BY <1>2 DEF TypeOK
  <2>3. handling[a].number \in Nat
        /\ \A k \in DOMAIN toServer[a] : toServer[a][k].number \in Nat
    BY <2>2, PacketFacts
  <2>4. HandlingOlder(a)'
    BY <1>1, <1>7, <2>1, <2>3 DEF HandlingOlder
  <2>5. CASE a = c
    BY <1>1, <1>3, <1>6, <2>1, <2>3, <2>4, <2>5 DEF InOrderUp, IsLine
  <2>6. CASE a # c
    BY <1>1, <1>6, <2>1, <2>4, <2>6 DEF InOrderUp, IsLine
  <2>7. QED
    BY <2>5, <2>6, <2>4
<1>9. \A a, d \in Clients : a # d =>
        \A n \in Nat : Passed(a, d, n) => Passed(a, d, n)'
  BY <1>1, <1>7 DEF Passed, IsLine
<1>10. DownInv' /\ OwnInv'
  BY <1>1, <1>2, <1>9, DownFrame, OwnFrame
<1>20. SendingInv'
  BY <1>1, <1>2, <1>3, <1>6, PacketFacts DEF SendingInv, Type, ClientPut
<1>11. QED
  BY <1>20, <1>5, <1>8, <1>10 DEF IInv

\* The mailbox gets a packet that is not a line.
LEMMA PutKeeps ==
  ASSUME IInv, NEW c \in Clients, NEW packet \in Packet, ClientPut(c, packet),
         packet.from \in {0, c}, packet.from = c => packet.number = 0,
         replying' \in [Clients -> BOOLEAN], UNCHANGED roomVars
  PROVE  IInv'
<1>1. /\ cmail' = [cmail EXCEPT ![c] = packet]
      /\ UNCHANGED <<typed, got, csending, toServer, accepted, handling, index, smail,
                     ssending, toClient, running, deafServer, deafClient>>
  BY DEF ClientPut, roomVars, serverVars, slotVars, faultVars
<1>2. TypeOK /\ SendingInv /\ UpInv /\ DownInv /\ OwnInv
  BY DEF IInv
<1>3. cmail' \in [Clients -> Packet \cup {NoPacket}]
  BY <1>1, <1>2 DEF TypeOK
<1>4. TypeOK'
  BY <1>1, <1>2, <1>3 DEF TypeOK, RoomTypeOK
<1>5. /\ \A a \in Clients : a # c => cmail'[a] = cmail[a]
      /\ cmail'[c] = packet
      /\ ~IsLine(packet, c)
  BY <1>1, <1>2 DEF TypeOK, IsLine
<1>6. ASSUME NEW a \in Clients, NEW n \in Nat, Older(a, n)
      PROVE  Older(a, n)'
  BY <1>1, <1>5, <1>6 DEF Older, IsLine
<1>7. UpInv'
  <2> SUFFICES ASSUME NEW a \in Clients PROVE InOrderUp(a)' /\ HandlingOlder(a)'
    BY DEF UpInv
  <2>1. InOrderUp(a) /\ HandlingOlder(a) /\ typed[a] \in Nat
    BY <1>2 DEF UpInv, TypeOK, RoomTypeOK
  <2>2. handling[a] \in Packet \cup {NoPacket}
    BY <1>2 DEF TypeOK
  <2>3. HandlingOlder(a)'
    BY <1>1, <1>6, <2>1, <2>2, PacketFacts DEF HandlingOlder
  <2>4. InOrderUp(a)'
    BY <1>1, <1>5, <2>1 DEF InOrderUp, IsLine
  <2>5. QED
    BY <2>3, <2>4
<1>8. \A a, d \in Clients : a # d =>
        \A n \in Nat : Passed(a, d, n) => Passed(a, d, n)'
  BY <1>1, <1>6 DEF Passed, IsLine
<1>9. DownInv' /\ OwnInv'
  BY <1>1, <1>2, <1>8, DownFrame, OwnFrame
<1>20. SendingInv'
  BY <1>1, <1>2, <1>5, PacketFacts DEF SendingInv
<1>10. QED
  BY <1>20, <1>4, <1>7, <1>9 DEF IInv

LEMMA TypeNothingKeeps ==
  ASSUME IInv, NEW c \in Clients, TypeNothing(c)
  PROVE  IInv'
<1>1. 0 \in 0 .. MaxLines
  BY PacketFacts
<1>2. Empty(c) \in Packet /\ Empty(c).from = c /\ Empty(c).number = 0
  BY <1>1, PacketFacts DEF Empty
<1>3. ClientPut(c, Empty(c)) /\ UNCHANGED roomVars
  BY DEF TypeNothing, roomVars
<1>4. replying' \in [Clients -> BOOLEAN]
  BY DEF TypeNothing, IInv, TypeOK
<1>5. QED
  BY <1>2, <1>3, <1>4, PutKeeps

LEMMA QueueReplyKeeps ==
  ASSUME IInv, NEW c \in Clients, QueueReply(c)
  PROVE  IInv'
<1>1. ClientPut(c, Ping) /\ UNCHANGED roomVars
  BY DEF QueueReply
<1>2. replying' \in [Clients -> BOOLEAN]
  BY DEF QueueReply, IInv, TypeOK
<1>3. Ping.from \in {0, c} /\ Ping.from # c
  BY PacketFacts
<1>4. QED
  BY <1>1, <1>2, <1>3, PacketFacts, PutKeeps

LEMMA ClientSendStartKeeps ==
  ASSUME IInv, NEW c \in Clients, ClientSendStart(c)
  PROVE  IInv'
<1>1. /\ csending' = [csending EXCEPT ![c] = TRUE]
      /\ UNCHANGED <<typed, got, cmail, toServer, accepted, handling, index, smail,
                     ssending, toClient, replying, running, deafServer, deafClient>>
  BY DEF ClientSendStart, roomVars, serverVars, slotVars, faultVars
<1>2. TypeOK /\ SendingInv /\ UpInv /\ DownInv /\ OwnInv
  BY DEF IInv
<1>3. TypeOK'
  BY <1>1, <1>2 DEF TypeOK, RoomTypeOK
<1>4. \A a, d \in Clients : a # d =>
        \A n \in Nat : Passed(a, d, n) => Passed(a, d, n)'
  BY <1>1 DEF Passed, Older, IsLine
<1>20. SendingInv'
  BY <1>1, <1>2 DEF SendingInv, TypeOK, ClientSendStart, ClientCanSend
<1>5. QED
  BY <1>20, <1>1, <1>2, <1>3, <1>4, UpFrame, DownFrame, OwnFrame DEF IInv

LEMMA ClientSendDoneKeeps ==
  ASSUME IInv, NEW c \in Clients, ClientSendDone(c)
  PROVE  IInv'
<1>1. /\ Len(toServer[c]) < SendRoom
      /\ toServer' = [toServer EXCEPT ![c] = Append(@, cmail[c])]
      /\ cmail' = [cmail EXCEPT ![c] = NoPacket]
      /\ csending' = [csending EXCEPT ![c] = FALSE]
      /\ UNCHANGED <<typed, got, accepted, handling, index, smail,
                     ssending, toClient, replying, running, deafServer, deafClient>>
  BY DEF ClientSendDone, ClientCanSend, roomVars, serverVars, slotVars, faultVars
<1>2. TypeOK /\ SendingInv /\ UpInv /\ DownInv /\ OwnInv
  BY DEF IInv
<1> DEFINE s == toServer[c]
           t == Append(s, cmail[c])
<1> cmail[c] # NoPacket
  BY <1>2 DEF SendingInv, ClientSendDone
<1>3. s \in Seq(Packet) /\ cmail[c] \in Packet /\ cmail[c].number \in Nat
  BY <1>2, PacketFacts DEF TypeOK
<1>4. /\ t \in Seq(Packet) /\ Len(t) = Len(s) + 1
      /\ \A k \in DOMAIN t : \/ k \in DOMAIN s /\ t[k] = s[k]
                             \/ k = Len(s) + 1 /\ t[k] = cmail[c]
      /\ \A k \in DOMAIN t, l \in DOMAIN t : k < l => k \in DOMAIN s
      /\ Len(s) \in Nat
  BY <1>3, AppendFacts
<1>5. /\ toServer' \in [Clients -> Seq(Packet)]
      /\ cmail' \in [Clients -> Packet \cup {NoPacket}]
      /\ csending' \in [Clients -> BOOLEAN]
      /\ toServer'[c] = t /\ cmail'[c] = NoPacket
      /\ \A a \in Clients : a # c => toServer'[a] = toServer[a] /\ cmail'[a] = cmail[a]
  BY <1>1, <1>2, <1>4 DEF TypeOK
<1>6. \A a \in Clients : Len(toServer'[a]) <= SendRoom
  BY <1>1, <1>2, <1>4, <1>5, PacketFacts DEF TypeOK
<1>7. TypeOK'
  BY <1>1, <1>2, <1>5, <1>6 DEF TypeOK, RoomTypeOK
<1>8. ASSUME NEW a \in Clients, NEW n \in Nat, Older(a, n)
      PROVE  Older(a, n)'
  <2>1. CASE a = c
    BY <1>1, <1>4, <1>5, <1>8, <2>1, PacketFacts DEF Older, IsLine
  <2>2. CASE a # c
    BY <1>1, <1>5, <1>8, <2>2 DEF Older, IsLine
  <2>3. QED
    BY <2>1, <2>2
<1>9. UpInv'
  <2> SUFFICES ASSUME NEW a \in Clients PROVE InOrderUp(a)' /\ HandlingOlder(a)'
    BY DEF UpInv
  <2>1. InOrderUp(a) /\ HandlingOlder(a)
    BY <1>2 DEF UpInv
  <2>2. handling[a] \in Packet \cup {NoPacket}
    BY <1>2 DEF TypeOK
  <2>3. HandlingOlder(a)'
    BY <1>1, <1>8, <2>1, <2>2, PacketFacts DEF HandlingOlder
  <2>4. CASE a = c
    <3>1. /\ NoPacket.from \in {0, c} /\ NoPacket.from # c /\ ~IsLine(NoPacket, c)
      BY PacketFacts DEF IsLine
    <3>2. \A k \in DOMAIN t : t[k].from \in {0, c}
      BY <1>4, <2>1, <2>4 DEF InOrderUp
    <3>3. \A k \in DOMAIN t : t[k].from = c => t[k].number <= typed[c]
      BY <1>4, <2>1, <2>4 DEF InOrderUp
    <3>4. \A k, l \in DOMAIN t : k < l /\ t[k].from = c /\ IsLine(t[l], c)
            => t[k].number < t[l].number
      BY <1>4, <2>1, <2>4 DEF InOrderUp
    <3>5. QED
      BY <1>1, <1>5, <2>1, <2>3, <2>4, <3>1, <3>2, <3>3, <3>4 DEF InOrderUp
  <2>5. CASE a # c
    BY <1>1, <1>5, <2>1, <2>3, <2>5 DEF InOrderUp, IsLine
  <2>6. QED
    BY <2>4, <2>5
<1>10. \A a, d \in Clients : a # d =>
        \A n \in Nat : Passed(a, d, n) => Passed(a, d, n)'
  BY <1>1, <1>8 DEF Passed, IsLine
<1>11. DownInv' /\ OwnInv'
  BY <1>1, <1>2, <1>10, DownFrame, OwnFrame
<1>20. SendingInv'
  BY <1>1, <1>2, <1>5 DEF SendingInv, TypeOK
<1>12. QED
  BY <1>20, <1>7, <1>9, <1>11 DEF IInv

LEMMA QuitKeeps ==
  ASSUME IInv, NEW c \in Clients, Quit(c)
  PROVE  IInv'
<1>1. PICK m \in 0 .. Len(toServer[c]) :
        toServer' = [toServer EXCEPT ![c] = SubSeq(@, 1, m)]
  BY DEF Quit
<1>2. /\ running' = running \ {c}
      /\ UNCHANGED <<typed, got, cmail, csending, accepted, handling, index, smail,
                     ssending, toClient, replying, deafServer, deafClient>>
  BY DEF Quit, roomVars, serverVars, slotVars
<1>3. TypeOK /\ SendingInv /\ UpInv /\ DownInv /\ OwnInv
  BY DEF IInv
<1> DEFINE s == toServer[c]
           t == SubSeq(s, 1, m)
<1>4. s \in Seq(Packet)
  BY <1>3 DEF TypeOK
<1>5. /\ t \in Seq(Packet) /\ Len(t) <= Len(s)
      /\ \A k \in DOMAIN t : k \in DOMAIN s /\ t[k] = s[k]
      /\ Len(s) \in Nat /\ Len(t) \in Nat
  BY <1>4, PrefixFacts
<1>6. /\ toServer' \in [Clients -> Seq(Packet)]
      /\ toServer'[c] = t
      /\ \A a \in Clients : a # c => toServer'[a] = toServer[a]
  BY <1>1, <1>3, <1>5 DEF TypeOK
<1>7. \A a \in Clients : Len(toServer'[a]) <= SendRoom
  <2> SUFFICES ASSUME NEW a \in Clients PROVE Len(toServer'[a]) <= SendRoom
    OBVIOUS
  <2>1. Len(toServer[a]) <= SendRoom /\ Len(s) <= SendRoom
    BY <1>3 DEF TypeOK
  <2> HIDE DEF s, t
  <2>2. Len(t) <= SendRoom
    BY <1>5, <2>1, PacketFacts
  <2>3. toServer'[a] = IF a = c THEN t ELSE toServer[a]
    BY <1>6
  <2>4. QED
    BY <2>1, <2>2, <2>3
<1>8. TypeOK'
  BY <1>2, <1>3, <1>6, <1>7 DEF TypeOK, RoomTypeOK
<1>9. ASSUME NEW a \in Clients, NEW n \in Nat, Older(a, n)
      PROVE  Older(a, n)'
  BY <1>2, <1>5, <1>6, <1>9 DEF Older, IsLine
<1>10. UpInv'
  <2> SUFFICES ASSUME NEW a \in Clients PROVE InOrderUp(a)' /\ HandlingOlder(a)'
    BY DEF UpInv
  <2>1. InOrderUp(a) /\ HandlingOlder(a)
    BY <1>3 DEF UpInv
  <2>2. handling[a] \in Packet \cup {NoPacket}
    BY <1>3 DEF TypeOK
  <2>3. HandlingOlder(a)'
    BY <1>2, <1>9, <2>1, <2>2, PacketFacts DEF HandlingOlder
  <2>4. InOrderUp(a)'
    BY <1>2, <1>5, <1>6, <2>1 DEF InOrderUp, IsLine
  <2>5. QED
    BY <2>3, <2>4
<1>11. \A a, d \in Clients : a # d =>
        \A n \in Nat : Passed(a, d, n) => Passed(a, d, n)'
  BY <1>2, <1>9 DEF Passed, IsLine
<1>12. DownInv' /\ OwnInv' /\ SendingInv'
  BY <1>2, <1>3, <1>11, DownFrame, OwnFrame DEF SendingInv
<1>13. QED
  BY <1>8, <1>10, <1>12 DEF IInv

\* The reader's receive thread takes a packet, which may be a line to keep.
LEMMA TakeKeeps ==
  ASSUME IInv, NEW c \in Clients, ClientTake(c),
         replying' \in [Clients -> BOOLEAN], deafClient' \subseteq Clients,
         \/ got' = got
         \/ /\ Head(toClient[c]) \in Lines
            /\ got' = [got EXCEPT ![c] = Append(@, Head(toClient[c]))]
  PROVE  IInv'
<1>1. /\ toClient[c] # <<>>
      /\ toClient' = [toClient EXCEPT ![c] = Tail(@)]
      /\ UNCHANGED <<typed, cmail, csending, toServer, accepted, handling, index, smail,
                     ssending, running, deafServer>>
  BY DEF ClientTake, ClientCanTake, clientVars, serverVars
<1>2. TypeOK /\ SendingInv /\ UpInv /\ DownInv /\ OwnInv
  BY DEF IInv
<1> DEFINE s == toClient[c]
           t == Tail(s)
<1>3. s \in Seq(Packet) /\ s # <<>>
  BY <1>1, <1>2 DEF TypeOK
<1>4. /\ t \in Seq(Packet) /\ Len(t) = Len(s) - 1
      /\ Head(s) = s[1] /\ 1 \in DOMAIN s
      /\ \A k \in DOMAIN t : k + 1 \in DOMAIN s /\ t[k] = s[k + 1] /\ 1 < k + 1
      /\ \A k, l \in DOMAIN t : k < l => k + 1 < l + 1
      /\ Len(s) \in Nat /\ Len(t) \in Nat
  BY <1>3, TailFacts
<1>5. /\ toClient' \in [Clients -> Seq(Packet)]
      /\ toClient'[c] = t
      /\ \A d \in Clients : d # c => toClient'[d] = toClient[d]
  BY <1>1, <1>2, <1>4 DEF TypeOK
<1>6. \A d \in Clients : Len(toClient'[d]) <= SendRoom
  BY <1>2, <1>4, <1>5, PacketFacts DEF TypeOK
<1>7. /\ got' \in [Clients -> Seq(Lines)]
      /\ \A d \in Clients : d # c => got'[d] = got[d]
      /\ \A k \in DOMAIN got'[c] :
           \/ k \in DOMAIN got[c] /\ got'[c][k] = got[c][k]
           \/ got'[c][k] = s[1]
  <2>1. got \in [Clients -> Seq(Lines)] /\ got[c] \in Seq(Lines)
    BY <1>2 DEF TypeOK, RoomTypeOK
  <2>2. CASE got' = got
    BY <2>1, <2>2
  <2>3. CASE /\ Head(toClient[c]) \in Lines
             /\ got' = [got EXCEPT ![c] = Append(@, Head(toClient[c]))]
    <3>1. /\ Append(got[c], s[1]) \in Seq(Lines)
          /\ \A k \in DOMAIN Append(got[c], s[1]) :
               \/ k \in DOMAIN got[c] /\ Append(got[c], s[1])[k] = got[c][k]
               \/ Append(got[c], s[1])[k] = s[1]
      BY <1>4, <2>1, <2>3, AppendFacts
    <3>2. QED
      BY <1>4, <2>1, <2>3, <3>1
  <2>4. QED
    BY <2>2, <2>3
<1>8. TypeOK'
  BY <1>1, <1>2, <1>5, <1>6, <1>7 DEF TypeOK, RoomTypeOK
<1>9. UpInv' /\ SendingInv'
  BY <1>1, <1>2, UpFrame DEF SendingInv
<1>10. \A a, d, n : Passed(a, d, n)' <=> Passed(a, d, n)
  BY <1>1 DEF Passed, Older, IsLine
<1>11. ASSUME NEW a \in Clients, NEW d \in Clients, a # d
       PROVE  InOrderDown(a, d)'
  <2>1. InOrderDown(a, d)
    BY <1>2, <1>11 DEF DownInv
  <2>2. CASE d # c
    BY <1>1, <1>5, <1>7, <1>10, <2>1, <2>2 DEF InOrderDown, IsLine
  <2>3. CASE d = c
    <3>1. smail[d].from = a => Passed(a, d, smail[d].number)
      BY <2>1 DEF InOrderDown
    <3>2. \A k \in DOMAIN t : t[k].from = a =>
            /\ Passed(a, d, t[k].number)
            /\ IsLine(smail[d], a) => t[k].number < smail[d].number
      BY <1>4, <2>1, <2>3 DEF InOrderDown, IsLine
    <3>3. \A k, l \in DOMAIN t : k < l /\ t[k].from = a /\ IsLine(t[l], a)
            => t[k].number < t[l].number
      BY <1>4, <2>1, <2>3 DEF InOrderDown, IsLine
    <3>4. \A k \in DOMAIN got'[d] : got'[d][k].from = a =>
            /\ Passed(a, d, got'[d][k].number)
            /\ IsLine(smail[d], a) => got'[d][k].number < smail[d].number
            /\ \A l \in DOMAIN t :
                 IsLine(t[l], a) => got'[d][k].number < t[l].number
      <4> SUFFICES ASSUME NEW k \in DOMAIN got'[d], got'[d][k].from = a
                   PROVE  /\ Passed(a, d, got'[d][k].number)
                          /\ IsLine(smail[d], a) => got'[d][k].number < smail[d].number
                          /\ \A l \in DOMAIN t :
                               IsLine(t[l], a) => got'[d][k].number < t[l].number
        OBVIOUS
      <4>1. CASE k \in DOMAIN got[d] /\ got'[d][k] = got[d][k]
        BY <1>4, <2>1, <2>3, <4>1 DEF InOrderDown, IsLine
      <4>2. CASE got'[d][k] = s[1]
        BY <1>4, <2>1, <2>3, <4>2 DEF InOrderDown, IsLine
      <4>3. QED
        BY <1>7, <2>3, <4>1, <4>2
    <3>5. QED
      BY <1>1, <1>5, <1>10, <2>3, <3>1, <3>2, <3>3, <3>4 DEF InOrderDown, IsLine
  <2>4. QED
    BY <2>2, <2>3
<1>12. OwnInv'
  BY <1>1, <1>2, <1>4, <1>5 DEF OwnInv, NoneOfItsOwn
<1>13. QED
  BY <1>8, <1>9, <1>11, <1>12 DEF IInv, DownInv

\* What a receive thread keeps is a line.
LEMMA ReceivedLine ==
  ASSUME TypeOK, NEW c \in Clients, toClient[c] # <<>>,
         Head(toClient[c]).number # 0, Head(toClient[c]) # Ping
  PROVE  Head(toClient[c]) \in Lines
<1>1. Head(toClient[c]) \in Packet
  BY TailFacts DEF TypeOK
<1>2. Head(toClient[c]) \in [from : Clients, number : 0 .. MaxLines]
  BY <1>1 DEF Packet
<1>3. QED
  BY <1>2, PacketFacts DEF Lines

LEMMA ClientReceiveKeeps ==
  ASSUME IInv, NEW c \in Clients, ClientReceive(c)
  PROVE  IInv'
<1>1. ClientTake(c) /\ toClient[c] # <<>> /\ deafClient' = deafClient
  BY DEF ClientReceive, ClientTake, ClientCanTake
<1>2. replying' \in [Clients -> BOOLEAN] /\ deafClient' \subseteq Clients
  BY <1>1 DEF ClientReceive, IInv, TypeOK
<1>3. \/ got' = got
      \/ /\ Head(toClient[c]) \in Lines
         /\ got' = [got EXCEPT ![c] = Append(@, Head(toClient[c]))]
  BY <1>1, ReceivedLine DEF ClientReceive, IInv
<1>4. QED
  BY <1>1, <1>2, <1>3, TakeKeeps

LEMMA ClientSwallowKeeps ==
  ASSUME IInv, NEW c \in Clients, ClientSwallow(c)
  PROVE  IInv'
<1>1. /\ ClientTake(c) /\ got' = got
      /\ replying' \in [Clients -> BOOLEAN] /\ deafClient' \subseteq Clients
  BY DEF ClientSwallow, IInv, TypeOK
<1>2. QED
  BY <1>1, TakeKeeps

-----------------------------------------------------------------------------
(* One lemma per action of the server                                        *)

LEMMA AcceptKeeps ==
  ASSUME IInv, Accept
  PROVE  IInv'
<1> DEFINE c == accepted + 1
<1>1. /\ accepted < N /\ accepted' = c
      /\ ~ssending[c]
      /\ smail' = [smail EXCEPT ![c] = Ping]
      /\ UNCHANGED <<typed, got, cmail, csending, toServer, handling, index,
                     ssending, toClient, replying, running, deafServer, deafClient>>
  BY DEF Accept, ServerPut, roomVars, clientVars, serverVars, faultVars
<1>2. TypeOK /\ SendingInv /\ UpInv /\ DownInv /\ OwnInv
  BY DEF IInv
<1>3. /\ accepted' \in 0 .. N /\ c \in Clients
      /\ smail' \in [Clients -> Packet \cup {NoPacket}]
      /\ smail'[c] = Ping
      /\ \A d \in Clients : d # c => smail'[d] = smail[d]
  BY <1>1, <1>2, PacketFacts DEF TypeOK, Clients
<1>4. TypeOK'
  BY <1>1, <1>2, <1>3 DEF TypeOK, RoomTypeOK
<1>5. UpInv' /\ SendingInv'
  BY <1>1, <1>2, <1>3, UpFrame DEF SendingInv
<1>6. \A a, d, n : Passed(a, d, n)' <=> Passed(a, d, n)
  BY <1>1 DEF Passed, Older, IsLine
<1>7. \A a \in Clients : Ping.from # a /\ ~IsLine(Ping, a)
  BY PacketFacts DEF IsLine
<1>8. ASSUME NEW a \in Clients, NEW d \in Clients, a # d
      PROVE  InOrderDown(a, d)'
  <2>1. InOrderDown(a, d)
    BY <1>2, <1>8 DEF DownInv
  <2>2. QED
    BY <1>1, <1>3, <1>6, <1>7, <2>1 DEF InOrderDown, IsLine
<1>9. OwnInv'
  BY <1>1, <1>2, <1>3, <1>7 DEF OwnInv, NoneOfItsOwn
<1>10. QED
  BY <1>4, <1>5, <1>8, <1>9 DEF IInv, DownInv

\* The receive thread of slot c takes a packet, which may be one to forward.
LEMMA ServerTakeKeeps ==
  ASSUME IInv, NEW c \in Clients, ServerTake(c), deafServer' \subseteq Clients,
         \/ UNCHANGED serverVars
         \/ /\ Head(toServer[c]) # Ping
            /\ handling' = [handling EXCEPT ![c] = Head(toServer[c])]
            /\ index' = [index EXCEPT ![c] = 1]
  PROVE  IInv'
<1>1. /\ toServer[c] # <<>> /\ handling[c] = NoPacket
      /\ toServer' = [toServer EXCEPT ![c] = Tail(@)]
      /\ UNCHANGED <<typed, got, cmail, csending, accepted, smail, ssending,
                     toClient, replying, running, deafClient>>
  BY DEF ServerTake, ServerCanTake, roomVars, slotVars
<1>2. TypeOK /\ SendingInv /\ UpInv /\ DownInv /\ OwnInv
  BY DEF IInv
<1> DEFINE s == toServer[c]
           t == Tail(s)
<1>3. s \in Seq(Packet) /\ s # <<>>
  BY <1>1, <1>2 DEF TypeOK
<1>4. /\ t \in Seq(Packet) /\ Len(t) = Len(s) - 1
      /\ Head(s) = s[1] /\ 1 \in DOMAIN s /\ s[1] \in Packet
      /\ \A k \in DOMAIN t : k + 1 \in DOMAIN s /\ t[k] = s[k + 1] /\ 1 < k + 1
      /\ \A k, l \in DOMAIN t : k < l => k + 1 < l + 1
      /\ Len(s) \in Nat /\ Len(t) \in Nat
  BY <1>3, TailFacts
<1>5. /\ toServer' \in [Clients -> Seq(Packet)]
      /\ toServer'[c] = t
      /\ \A a \in Clients : a # c => toServer'[a] = toServer[a]
  BY <1>1, <1>2, <1>4 DEF TypeOK
<1>6. \A a \in Clients : Len(toServer'[a]) <= SendRoom
  <2> SUFFICES ASSUME NEW a \in Clients PROVE Len(toServer'[a]) <= SendRoom
    OBVIOUS
  <2>1. Len(toServer[a]) <= SendRoom /\ Len(s) <= SendRoom
    BY <1>2 DEF TypeOK
  <2>2. QED
    BY <1>4, <1>5, <2>1, PacketFacts
<1>7. /\ handling' \in [Clients -> Packet \cup {NoPacket}]
      /\ index' \in [Clients -> 1 .. N + 1]
      /\ \A a \in Clients : a # c => handling'[a] = handling[a] /\ index'[a] = index[a]
      /\ \/ handling'[c] = NoPacket
         \/ handling'[c] = s[1] /\ s[1] # Ping
  BY <1>1, <1>2, <1>4, PacketFacts DEF TypeOK, serverVars
<1>8. TypeOK'
  BY <1>1, <1>2, <1>5, <1>6, <1>7 DEF TypeOK, RoomTypeOK
<1>9. ASSUME NEW a \in Clients, NEW n \in Nat, Older(a, n)
      PROVE  Older(a, n)'
  BY <1>1, <1>4, <1>5, <1>9 DEF Older, IsLine
<1>10. UpInv'
  <2> SUFFICES ASSUME NEW a \in Clients PROVE InOrderUp(a)' /\ HandlingOlder(a)'
    BY DEF UpInv
  <2>1. InOrderUp(a) /\ HandlingOlder(a)
    BY <1>2 DEF UpInv
  <2>2. CASE a # c
    <3>1. handling[a] \in Packet \cup {NoPacket}
      BY <1>2 DEF TypeOK
    <3>2. HandlingOlder(a)'
      BY <1>1, <1>7, <1>9, <2>1, <2>2, <3>1, PacketFacts DEF HandlingOlder
    <3>3. InOrderUp(a)'
      BY <1>1, <1>5, <1>7, <2>1, <2>2 DEF InOrderUp, IsLine
    <3>4. QED
      BY <3>2, <3>3
  <2>3. CASE a = c
    <3>1. handling'[c] # NoPacket => handling'[c].from = c
      BY <1>4, <1>7, <2>1, <2>3, PacketFacts DEF InOrderUp
    <3>2. /\ \A k \in DOMAIN t : t[k].from \in {0, c}
          /\ \A k, l \in DOMAIN t : k < l /\ t[k].from = c /\ IsLine(t[l], c)
               => t[k].number < t[l].number
          /\ \A k \in DOMAIN t : t[k].from = c =>
               /\ t[k].number <= typed[c]
               /\ IsLine(cmail[c], c) => t[k].number < cmail[c].number
      BY <1>4, <2>1, <2>3 DEF InOrderUp, IsLine
    <3>3. InOrderUp(a)'
      BY <1>1, <1>5, <2>1, <2>3, <3>1, <3>2 DEF InOrderUp, IsLine
    <3>4. s[1].from = c =>
            /\ s[1].number <= typed[c]
            /\ \A k \in DOMAIN t : IsLine(t[k], c) => s[1].number < t[k].number
            /\ IsLine(cmail[c], c) => s[1].number < cmail[c].number
      BY <1>4, <2>1, <2>3 DEF InOrderUp, IsLine
    <3>5. handling'[c].from = c => handling'[c] = s[1]
      BY <1>7, PacketFacts
    <3>6. HandlingOlder(a)'
      BY <1>1, <1>5, <2>3, <3>4, <3>5 DEF HandlingOlder, Older, IsLine
    <3>7. QED
      BY <3>3, <3>6
  <2>4. QED
    BY <2>2, <2>3
<1>11. ASSUME NEW a \in Clients, NEW d \in Clients, a # d, NEW n \in Nat, Passed(a, d, n)
       PROVE  Passed(a, d, n)'
  <2>1. Older(a, n) /\ Older(a, n)'
    BY <1>9, <1>11 DEF Passed
  <2>2. CASE a # c
    BY <1>7, <1>11, <2>1, <2>2 DEF Passed, IsLine
  <2>3. CASE a = c
    <3>1. IsLine(s[1], c) => n < s[1].number
      BY <1>4, <2>1, <2>3 DEF Older
    <3>2. ~IsLine(NoPacket, c)
      BY PacketFacts DEF IsLine
    <3>3. QED
      BY <1>7, <2>1, <2>3, <3>1, <3>2 DEF Passed, IsLine
  <2>4. QED
    BY <2>2, <2>3
<1>12. DownInv' /\ OwnInv' /\ SendingInv'
  BY <1>1, <1>2, <1>11, DownFrame, OwnFrame DEF SendingInv
<1>13. QED
  BY <1>8, <1>10, <1>12 DEF IInv

LEMMA ServerReceiveKeeps ==
  ASSUME IInv, NEW c \in Clients, ServerReceive(c)
  PROVE  IInv'
<1>1. /\ ServerTake(c) /\ deafServer' \subseteq Clients
      /\ \/ UNCHANGED serverVars
         \/ /\ Head(toServer[c]) # Ping
            /\ handling' = [handling EXCEPT ![c] = Head(toServer[c])]
            /\ index' = [index EXCEPT ![c] = 1]
  BY DEF ServerReceive, IInv, TypeOK
<1>2. QED
  BY <1>1, ServerTakeKeeps

LEMMA ServerSwallowKeeps ==
  ASSUME IInv, NEW c \in Clients, ServerSwallow(c)
  PROVE  IInv'
<1>1. ServerTake(c) /\ deafServer' \subseteq Clients /\ UNCHANGED serverVars
  BY DEF ServerSwallow, IInv, TypeOK
<1>2. QED
  BY <1>1, ServerTakeKeeps

LEMMA ForwardKeeps ==
  ASSUME IInv, NEW c \in Clients, Forward(c)
  PROVE  IInv'
<1> DEFINE e == index[c]
<1>1. /\ handling[c] # NoPacket /\ e <= accepted
      /\ index' = [index EXCEPT ![c] = e + 1]
      /\ \/ e = c /\ smail' = smail
         \/ e # c /\ ~ssending[e] /\ smail' = [smail EXCEPT ![e] = handling[c]]
      /\ UNCHANGED <<typed, got, cmail, csending, toServer, accepted, handling,
                     ssending, toClient, replying, running, deafServer, deafClient>>
  BY DEF Forward, ServerPut, roomVars, clientVars, slotVars, faultVars
<1>2. TypeOK /\ SendingInv /\ UpInv /\ DownInv /\ OwnInv
  BY DEF IInv
<1>3. /\ e \in Clients /\ e + 1 \in 1 .. N + 1
      /\ handling[c] \in Packet
      /\ index' \in [Clients -> 1 .. N + 1]
      /\ index'[c] = e + 1
      /\ \A a \in Clients : a # c => index'[a] = index[a]
  <2>1. /\ index \in [Clients -> 1 .. N + 1] /\ accepted \in 0 .. N
        /\ handling[c] \in Packet \cup {NoPacket}
    BY <1>2 DEF TypeOK
  <2>2. e \in 1 .. N + 1 /\ e <= N
    BY <1>1, <2>1, PacketFacts
  <2>3. e \in Clients /\ e + 1 \in 1 .. N + 1
    BY <2>2, PacketFacts DEF Clients
  <2>4. QED
    BY <1>1, <2>1, <2>3
<1>4. /\ smail' \in [Clients -> Packet \cup {NoPacket}]
      /\ \A d \in Clients : d # e \/ e = c => smail'[d] = smail[d]
      /\ e # c => smail'[e] = handling[c] /\ ~ssending[e]
  BY <1>1, <1>2, <1>3 DEF TypeOK
<1>5. TypeOK'
  BY <1>1, <1>2, <1>3, <1>4 DEF TypeOK, RoomTypeOK
<1>6. UpInv'
  BY <1>1, <1>2, UpFrame
<1>7. SendingInv'
  BY <1>1, <1>2, <1>3, <1>4, PacketFacts DEF SendingInv
<1>8. handling[c].from = c /\ handling[c].number \in Nat /\ Older(c, handling[c].number)
  BY <1>1, <1>2, <1>3, PacketFacts DEF UpInv, InOrderUp, HandlingOlder
<1>9. \A a, n : Older(a, n)' <=> Older(a, n)
  BY <1>1 DEF Older, IsLine
<1>10. ASSUME NEW a \in Clients, NEW d \in Clients, a # d
       PROVE  InOrderDown(a, d)'
  <2>1. InOrderDown(a, d)
    BY <1>2, <1>10 DEF DownInv
  <2>2. d \in Nat /\ e \in Nat
    BY <1>3, PacketFacts
  <2>3. CASE a # c
    <3>1. \A n : Passed(a, d, n)' <=> Passed(a, d, n)
      BY <1>1, <1>3, <1>9, <2>3 DEF Passed, IsLine
    <3>2. smail'[d].from = a => smail'[d] = smail[d]
      BY <1>4, <1>8, <2>3
    <3>3. QED
      BY <1>1, <2>1, <3>1, <3>2 DEF InOrderDown, IsLine
  <2>4. CASE a = c /\ d # e
    <3>1. \A n : Passed(a, d, n)  => Passed(a, d, n)'
      BY <1>1, <1>3, <1>9, <2>2, <2>4 DEF Passed, IsLine
    <3>2. smail'[d] = smail[d]
      BY <1>4, <2>4
    <3>3. QED
      BY <1>1, <2>1, <3>1, <3>2 DEF InOrderDown, IsLine
  <2>5. CASE a = c /\ d = e
    <3>1. smail'[d] = handling[c]
      BY <1>4, <1>10, <2>5
    <3>2. \A n : Passed(a, d, n) =>
            /\ Passed(a, d, n)'
            /\ IsLine(handling[c], c) => n < handling[c].number
      BY <1>1, <1>3, <1>9, <2>2, <2>5 DEF Passed, IsLine
    <3>3. Passed(a, d, handling[c].number)'
      BY <1>1, <1>3, <1>8, <1>9, <2>2, <2>5 DEF Passed, IsLine
    <3>4. QED
      BY <1>1, <2>1, <2>5, <3>1, <3>2, <3>3 DEF InOrderDown, IsLine
  <2>6. QED
    BY <2>3, <2>4, <2>5
<1>11. OwnInv'
  BY <1>1, <1>2, <1>4, <1>8 DEF OwnInv, NoneOfItsOwn
<1>12. QED
  BY <1>5, <1>6, <1>7, <1>10, <1>11 DEF IInv, DownInv

LEMMA ForwardDoneKeeps ==
  ASSUME IInv, NEW c \in Clients, ForwardDone(c)
  PROVE  IInv'
<1>1. /\ handling' = [handling EXCEPT ![c] = NoPacket]
      /\ UNCHANGED <<typed, got, cmail, csending, toServer, accepted, index, smail,
                     ssending, toClient, replying, running, deafServer, deafClient>>
  BY DEF ForwardDone, roomVars, clientVars, slotVars, faultVars
<1>2. TypeOK /\ SendingInv /\ UpInv /\ DownInv /\ OwnInv
  BY DEF IInv
<1>3. /\ handling' \in [Clients -> Packet \cup {NoPacket}]
      /\ \A a \in Clients : handling'[a] \in {handling[a], NoPacket}
  BY <1>1, <1>2 DEF TypeOK
<1>4. TypeOK'
  BY <1>1, <1>2, <1>3 DEF TypeOK, RoomTypeOK
<1>5. \A a \in Clients : NoPacket.from # a /\ ~IsLine(NoPacket, a)
  BY PacketFacts DEF IsLine
<1>6. UpInv'
  BY <1>1, <1>2, <1>3, <1>5 DEF UpInv, InOrderUp, HandlingOlder, Older, IsLine
<1>7. \A a, d \in Clients : a # d =>
        \A n \in Nat : Passed(a, d, n) => Passed(a, d, n)'
  BY <1>1, <1>3, <1>5 DEF Passed, Older, IsLine
<1>8. DownInv' /\ OwnInv' /\ SendingInv'
  BY <1>1, <1>2, <1>7, DownFrame, OwnFrame DEF SendingInv
<1>9. QED
  BY <1>4, <1>6, <1>8 DEF IInv

LEMMA ServerSendStartKeeps ==
  ASSUME IInv, NEW c \in Clients, ServerSendStart(c)
  PROVE  IInv'
<1>1. /\ smail[c] # NoPacket
      /\ ssending' = [ssending EXCEPT ![c] = TRUE]
      /\ UNCHANGED <<typed, got, cmail, csending, toServer, accepted, handling, index,
                     smail, toClient, replying, running, deafServer, deafClient>>
  BY DEF ServerSendStart, ServerCanSend, roomVars, clientVars, serverVars, faultVars
<1>2. TypeOK /\ SendingInv /\ UpInv /\ DownInv /\ OwnInv
  BY DEF IInv
<1>3. TypeOK' /\ SendingInv'
  BY <1>1, <1>2 DEF TypeOK, RoomTypeOK, SendingInv
<1>4. \A a, d \in Clients : a # d =>
        \A n \in Nat : Passed(a, d, n) => Passed(a, d, n)'
  BY <1>1 DEF Passed, Older, IsLine
<1>5. QED
  BY <1>1, <1>2, <1>3, <1>4, UpFrame, DownFrame, OwnFrame DEF IInv

LEMMA ServerSendDoneKeeps ==
  ASSUME IInv, NEW c \in Clients, ServerSendDone(c)
  PROVE  IInv'
<1>1. /\ ssending[c]
      /\ smail' = [smail EXCEPT ![c] = NoPacket]
      /\ ssending' = [ssending EXCEPT ![c] = FALSE]
      /\ \/ toClient' = toClient
         \/ /\ Len(toClient[c]) < SendRoom
            /\ toClient' = [toClient EXCEPT ![c] = Append(@, smail[c])]
      /\ UNCHANGED <<typed, got, cmail, csending, toServer, accepted, handling, index,
                     replying, running, deafServer, deafClient>>
  BY DEF ServerSendDone, ServerCanSend, roomVars, clientVars, serverVars, faultVars
<1>2. TypeOK /\ SendingInv /\ UpInv /\ DownInv /\ OwnInv
  BY DEF IInv
<1> DEFINE s == toClient[c]
           t == toClient'[c]
<1>3. s \in Seq(Packet) /\ smail[c] \in Packet /\ Len(s) \in Nat /\ Len(s) <= SendRoom
  BY <1>1, <1>2 DEF TypeOK, SendingInv
<1>4. /\ toClient' \in [Clients -> Seq(Packet)]
      /\ \A d \in Clients : d # c => toClient'[d] = toClient[d]
      /\ Len(t) <= SendRoom
      /\ \A k \in DOMAIN t : \/ k \in DOMAIN s /\ t[k] = s[k]
                             \/ k = Len(s) + 1 /\ t[k] = smail[c]
      /\ \A k, l \in DOMAIN t : k < l => k \in DOMAIN s /\ t[k] = s[k]
  <2>1. CASE toClient' = toClient
    BY <1>2, <1>3, <2>1 DEF TypeOK
  <2>2. CASE /\ Len(toClient[c]) < SendRoom
             /\ toClient' = [toClient EXCEPT ![c] = Append(@, smail[c])]
    <3> DEFINE u == Append(s, smail[c])
    <3>1. /\ u \in Seq(Packet) /\ Len(u) = Len(s) + 1
          /\ \A k \in DOMAIN u : \/ k \in DOMAIN s /\ u[k] = s[k]
                                 \/ k = Len(s) + 1 /\ u[k] = smail[c]
          /\ \A k, l \in DOMAIN u : k < l => k \in DOMAIN s /\ u[k] = s[k]
      BY <1>3, AppendFacts
    <3>2. t = u /\ toClient' \in [Clients -> Seq(Packet)]
          /\ \A d \in Clients : d # c => toClient'[d] = toClient[d]
      BY <1>2, <2>2, <3>1 DEF TypeOK
    <3>3. QED
      BY <1>3, <2>2, <3>1, <3>2, PacketFacts
  <2>3. QED
    BY <1>1, <2>1, <2>2
<1>5. /\ smail' \in [Clients -> Packet \cup {NoPacket}]
      /\ ssending' \in [Clients -> BOOLEAN]
      /\ smail'[c] = NoPacket
      /\ \A d \in Clients : d # c => smail'[d] = smail[d] /\ ssending'[d] = ssending[d]
      /\ ssending'[c] = FALSE
  BY <1>1, <1>2 DEF TypeOK
<1>6. \A d \in Clients : Len(toClient'[d]) <= SendRoom
  BY <1>2, <1>4 DEF TypeOK
<1>7. TypeOK'
  BY <1>1, <1>2, <1>4, <1>5, <1>6 DEF TypeOK, RoomTypeOK
<1>8. UpInv' /\ SendingInv'
  BY <1>1, <1>2, <1>5, UpFrame DEF SendingInv
<1>9. \A a, d, n : Passed(a, d, n)' <=> Passed(a, d, n)
  BY <1>1 DEF Passed, Older, IsLine
<1>10. \A a \in Clients : NoPacket.from # a /\ ~IsLine(NoPacket, a)
  BY PacketFacts DEF IsLine
<1>11. ASSUME NEW a \in Clients, NEW d \in Clients, a # d
       PROVE  InOrderDown(a, d)'
  <2>1. InOrderDown(a, d)
    BY <1>2, <1>11 DEF DownInv
  <2>2. CASE d # c
    BY <1>1, <1>4, <1>5, <1>9, <2>1, <2>2 DEF InOrderDown, IsLine
  <2>3. CASE d = c
    <3>1. \A k \in DOMAIN t : t[k].from = a => Passed(a, d, t[k].number)
      BY <1>4, <2>1, <2>3 DEF InOrderDown
    <3>2. \A k, l \in DOMAIN t : k < l /\ t[k].from = a /\ IsLine(t[l], a)
            => t[k].number < t[l].number
      BY <1>4, <2>1, <2>3 DEF InOrderDown, IsLine
    <3>3. \A k \in DOMAIN got[d] : got[d][k].from = a =>
            /\ Passed(a, d, got[d][k].number)
            /\ \A l \in DOMAIN t : IsLine(t[l], a) => got[d][k].number < t[l].number
      BY <1>4, <2>1, <2>3 DEF InOrderDown, IsLine
    <3>4. QED
      BY <1>1, <1>5, <1>9, <1>10, <2>3, <3>1, <3>2, <3>3 DEF InOrderDown
  <2>4. QED
    BY <2>2, <2>3
<1>12. OwnInv'
  BY <1>1, <1>2, <1>4, <1>5, <1>10 DEF OwnInv, NoneOfItsOwn
<1>13. QED
  BY <1>7, <1>8, <1>11, <1>12 DEF IInv, DownInv

-----------------------------------------------------------------------------
(* The invariant                                                             *)

LEMMA InitInv == Init => IInv
<1> SUFFICES ASSUME Init PROVE IInv
  OBVIOUS
<1>1. /\ 0 \in 0 .. MaxLines /\ 0 \in 0 .. N /\ 1 \in 1 .. N + 1 /\ 0 <= SendRoom
      /\ <<>> \in Seq(Packet) /\ <<>> \in Seq(Lines) /\ Len(<<>>) = 0
      /\ DOMAIN <<>> = {}
  BY PacketFacts
<1>2. TypeOK
  BY <1>1 DEF Init, RoomInit, TypeOK, RoomTypeOK
<1>3. \A a \in Clients : NoPacket.from # a /\ ~IsLine(NoPacket, a) /\ NoPacket.from = 0
  BY PacketFacts DEF IsLine
<1>4. \A a \in Clients :
        /\ cmail[a] = NoPacket /\ handling[a] = NoPacket /\ smail[a] = NoPacket
        /\ DOMAIN toServer[a] = {} /\ DOMAIN toClient[a] = {} /\ DOMAIN got[a] = {}
        /\ ~csending[a] /\ ~ssending[a]
  BY <1>1 DEF Init, RoomInit
<1>5. UpInv /\ OwnInv /\ SendingInv
  BY <1>3, <1>4 DEF UpInv, InOrderUp, HandlingOlder, OwnInv, NoneOfItsOwn, SendingInv
<1>6. DownInv
  BY <1>3, <1>4 DEF DownInv, InOrderDown
<1>7. QED
  BY <1>2, <1>5, <1>6 DEF IInv

LEMMA StutterKeeps ==
  ASSUME IInv, UNCHANGED vars
  PROVE  IInv'
<1>1. UNCHANGED <<typed, got, cmail, csending, toServer, accepted, handling, index,
                  smail, ssending, toClient, replying, running, deafServer, deafClient>>
  BY DEF vars, roomVars, clientVars, serverVars, slotVars, faultVars
<1>2. \A a, d, n : Passed(a, d, n)' <=> Passed(a, d, n)
  BY <1>1 DEF Passed, Older, IsLine
<1>3. TypeOK' /\ SendingInv'
  BY <1>1 DEF IInv, TypeOK, RoomTypeOK, SendingInv
<1>4. UpInv' /\ DownInv' /\ OwnInv'
  BY <1>1, <1>2, <1>3, UpFrame, DownFrame, OwnFrame DEF IInv
<1>5. QED
  BY <1>3, <1>4 DEF IInv

LEMMA NextKeeps ==
  ASSUME IInv, [Next]_vars
  PROVE  IInv'
<1>1. CASE Accept
  BY <1>1, AcceptKeeps
<1>2. ASSUME NEW c \in Clients,
             Type(c) \/ TypeNothing(c) \/ ClientSend(c) \/ ClientReceive(c)
             \/ ClientSwallow(c) \/ QueueReply(c) \/ Quit(c)
      PROVE  IInv'
  BY <1>2, TypeKeeps, TypeNothingKeeps, ClientSendStartKeeps, ClientSendDoneKeeps,
     ClientReceiveKeeps, ClientSwallowKeeps, QueueReplyKeeps, QuitKeeps DEF ClientSend
<1>3. ASSUME NEW c \in Clients,
             ServerReceive(c) \/ ServerSwallow(c) \/ ServerForward(c) \/ ServerSend(c)
      PROVE  IInv'
  BY <1>3, ServerReceiveKeeps, ServerSwallowKeeps, ForwardKeeps, ForwardDoneKeeps,
     ServerSendStartKeeps, ServerSendDoneKeeps DEF ServerForward, ServerSend
<1>4. CASE UNCHANGED vars
  BY <1>4, StutterKeeps
<1>5. QED
  BY <1>1, <1>2, <1>3, <1>4 DEF Next

(***************************************************************************)
(* Type correctness: in particular each connection holds at most SendRoom  *)
(* packets, and the forwarding loop stays within the counted slots.        *)
(***************************************************************************)
THEOREM TypeCorrect == Spec => []TypeOK
<1>1. Init => IInv
  BY InitInv
<1>2. IInv /\ [Next]_vars => IInv'
  BY NextKeeps
<1>3. IInv => TypeOK
  BY DEF IInv
<1>4. QED
  BY <1>1, <1>2, <1>3, PTL DEF Spec

-----------------------------------------------------------------------------
(* The refinement                                                            *)

\* A receive thread of a client prints a line: the reader reads it.
LEMMA ReceiveReads ==
  ASSUME IInv, NEW d \in Clients, ClientReceive(d)
  PROVE  [RoomNext]_roomVars
<1> DEFINE p == Head(toClient[d])
<1>1. ClientTake(d) /\ toClient[d] # <<>> /\ typed' = typed
  BY DEF ClientReceive, ClientTake, ClientCanTake
<1>2. CASE p.number = 0 \/ p = Ping
  BY <1>1, <1>2 DEF ClientReceive, roomVars
<1>3. CASE ~(p.number = 0 \/ p = Ping)
  <2>1. /\ p \in Lines /\ p = toClient[d][1] /\ 1 \in DOMAIN toClient[d]
        /\ got' = [got EXCEPT ![d] = Append(@, p)]
    BY <1>1, <1>3, ReceivedLine, TailFacts DEF IInv, TypeOK, ClientReceive
  <2>2. PICK a \in Clients, n \in 1 .. MaxLines : p = Line(a, n)
    BY <2>1 DEF Lines, Line
  <2>3. p.from = a /\ p.number = n /\ n > 0 /\ n \in Nat
    BY <2>2, PacketFacts DEF Line
  <2>4. a # d
    BY <2>1, <2>3 DEF IInv, OwnInv, NoneOfItsOwn
  <2>5. InOrderDown(a, d)
    BY <2>4 DEF IInv, DownInv
  <2>6. n <= typed[a]
    BY <2>1, <2>3, <2>5 DEF InOrderDown, Passed, Older
  <2>7. \A k \in DOMAIN got[d] : got[d][k].from = a => got[d][k].number < n
    BY <2>1, <2>3, <2>5 DEF InOrderDown, IsLine
  <2>8. typed[a] \in Nat
    BY DEF IInv, TypeOK, RoomTypeOK
  <2>9. RoomRead(a, d, n)
    <3>1. n \in 1 .. typed[a]
      BY <2>3, <2>6, <2>8
    <3>2. got' = [got EXCEPT ![d] = Append(@, Line(a, n))]
      BY <2>1, <2>2
    <3>3. QED
      BY <1>1, <2>4, <2>7, <3>1, <3>2 DEF RoomRead
  <2>10. QED
    BY <2>9 DEF RoomNext
<1>4. QED
  BY <1>2, <1>3

(***************************************************************************)
(* The program implements the chat room, for any number of clients, of     *)
(* lines and of packets in the connections, and with any quits and short   *)
(* reads: every reader reads every author's lines in order, none twice.    *)
(***************************************************************************)
THEOREM Refinement == Spec => ImplementsRoom
<1>1. Init => RoomInit
  BY DEF Init
<1>2. IInv /\ [Next]_vars => [RoomNext]_roomVars
  <2> SUFFICES ASSUME IInv, [Next]_vars PROVE [RoomNext]_roomVars
    OBVIOUS
  <2>1. ASSUME NEW c \in Clients, Type(c)
        PROVE  [RoomNext]_roomVars
    BY <2>1 DEF Type, RoomNext
  <2>2. ASSUME NEW c \in Clients, ClientReceive(c)
        PROVE  [RoomNext]_roomVars
    BY <2>2, ReceiveReads
  <2>3. ASSUME NEW c \in Clients, ClientSwallow(c) \/ QueueReply(c) \/ TypeNothing(c)
                                  \/ ClientSend(c) \/ Quit(c)
        PROVE  UNCHANGED roomVars
    BY <2>3 DEF ClientSwallow, ClientTake, QueueReply, TypeNothing, ClientSend,
                ClientSendStart, ClientSendDone, Quit, roomVars
  <2>4. ASSUME NEW c \in Clients, ServerReceive(c) \/ ServerSwallow(c)
        PROVE  UNCHANGED roomVars
    BY <2>4 DEF ServerReceive, ServerSwallow, ServerTake
  <2>5. ASSUME NEW c \in Clients, ServerForward(c) \/ ServerSend(c)
        PROVE  UNCHANGED roomVars
    BY <2>5 DEF ServerForward, Forward, ServerPut, ForwardDone, ServerSend,
                ServerSendStart, ServerSendDone
  <2>6. CASE Accept
    BY <2>6 DEF Accept, ServerPut
  <2>7. CASE UNCHANGED vars
    BY <2>7 DEF vars
  <2>8. QED
    BY <2>1, <2>2, <2>3, <2>4, <2>5, <2>6, <2>7 DEF Next
<1>3. Init => IInv
  BY InitInv
<1>4. IInv /\ [Next]_vars => IInv'
  BY NextKeeps
<1>5. QED
  BY <1>1, <1>2, <1>3, <1>4, PTL DEF Spec, ImplementsRoom, RoomSpec

-----------------------------------------------------------------------------
(* The chat room                                                             *)

(***************************************************************************)
(* What the chat room promises, and with the refinement the program: every *)
(* reader's lines of an author are in order, distinct, typed, and not its  *)
(* own.                                                                    *)
(***************************************************************************)
THEOREM RoomOrder == RoomSpec => [](RoomTypeOK /\ InTypedOrder)
<1>1. RoomInit => RoomTypeOK /\ InTypedOrder
  <2> SUFFICES ASSUME RoomInit PROVE RoomTypeOK /\ InTypedOrder
    OBVIOUS
  <2>1. RoomTypeOK
    <3>1. 0 \in 0 .. MaxLines /\ <<>> \in Seq(Lines)
      BY PacketFacts
    <3>2. QED
      BY <3>1 DEF RoomInit, RoomTypeOK
  <2>2. \A d \in Clients : DOMAIN got[d] = {}
    BY DEF RoomInit
  <2>3. QED
    BY <2>1, <2>2 DEF InTypedOrder
<1>2. RoomTypeOK /\ InTypedOrder /\ [RoomNext]_roomVars => (RoomTypeOK /\ InTypedOrder)'
  <2> SUFFICES ASSUME RoomTypeOK, InTypedOrder, [RoomNext]_roomVars
               PROVE  (RoomTypeOK /\ InTypedOrder)'
    OBVIOUS
  <2>1. ASSUME NEW c \in Clients, RoomType(c)
        PROVE  (RoomTypeOK /\ InTypedOrder)'
    <3>1. /\ typed' \in [Clients -> 0 .. MaxLines]
          /\ \A a \in Clients : typed[a] <= typed'[a] /\ typed[a] \in Nat /\ typed'[a] \in Nat
      BY <2>1, PacketFacts DEF RoomType, RoomTypeOK
    <3>2. got' = got /\ RoomTypeOK'
      BY <2>1, <3>1 DEF RoomType, RoomTypeOK
    <3>3. \A d \in Clients : \A k \in DOMAIN got[d] :
            got[d][k].from \in Clients /\ got[d][k].number \in Nat
      <4>1. \A d \in Clients : \A k \in DOMAIN got[d] : got[d][k] \in Lines
        BY DEF RoomTypeOK
      <4>2. QED
        BY <4>1, PacketFacts DEF Lines
    <3>4. QED
      BY <3>1, <3>2, <3>3 DEF InTypedOrder
  <2>2. ASSUME NEW a \in Clients, NEW d \in Clients, NEW n \in 1 .. MaxLines,
               RoomRead(a, d, n)
        PROVE  (RoomTypeOK /\ InTypedOrder)'
    <3> DEFINE s == got[d]
               t == Append(s, Line(a, n))
    <3>1. /\ s \in Seq(Lines) /\ Line(a, n) \in Lines
          /\ Line(a, n).from = a /\ Line(a, n).number = n
      BY DEF RoomTypeOK, Line, Lines
    <3>2. /\ t \in Seq(Lines)
          /\ \A k \in DOMAIN t : \/ k \in DOMAIN s /\ t[k] = s[k]
                                 \/ k = Len(s) + 1 /\ t[k] = Line(a, n)
          /\ \A k, l \in DOMAIN t : k < l => k \in DOMAIN s /\ t[k] = s[k]
      BY <3>1, AppendFacts
    <3>3. /\ typed' = typed /\ got' \in [Clients -> Seq(Lines)] /\ got'[d] = t
          /\ \A e \in Clients : e # d => got'[e] = got[e]
      BY <2>2, <3>2 DEF RoomRead, RoomTypeOK
    <3>4. \A k \in DOMAIN t :
            /\ t[k].from # d /\ t[k].number <= typed[t[k].from]
            /\ \A l \in DOMAIN t : k < l /\ t[k].from = t[l].from
                 => t[k].number < t[l].number
      BY <2>2, <3>1, <3>2 DEF RoomRead, InTypedOrder
    <3>5. QED
      BY <3>3, <3>4 DEF InTypedOrder, RoomTypeOK
  <2>3. CASE UNCHANGED roomVars
    BY <2>3 DEF roomVars, RoomTypeOK, InTypedOrder
  <2>4. QED
    BY <2>1, <2>2, <2>3 DEF RoomNext
<1>3. QED
  BY <1>1, <1>2, PTL DEF RoomSpec

-----------------------------------------------------------------------------
(* Coming to rest                                                            *)

\* Whoever takes a step of its own is counted by CanStep: Stuck leaves out no
\* thread that could go on.
LEMMA OwnStepsCan ==
  ASSUME TypeOK, SendingInv, NEW c \in Clients,
         \/ ClientSend(c) \/ ReceiveAtClient(c) \/ QueueReply(c)
         \/ ReceiveAtServer(c) \/ ServerForward(c) \/ ServerSend(c)
  PROVE  CanStep(c)
<1>1. CASE ClientSend(c)
  BY <1>1 DEF ClientSend, ClientSendStart, ClientSendDone, CanStep
<1>2. CASE ReceiveAtClient(c)
  BY <1>2 DEF ReceiveAtClient, ClientReceive, ClientSwallow, ClientTake, CanStep
<1>3. CASE QueueReply(c)
  BY <1>3 DEF QueueReply, ClientPut, CanStep
<1>4. CASE ReceiveAtServer(c)
  BY <1>4 DEF ReceiveAtServer, ServerReceive, ServerSwallow, ServerTake, CanStep
<1>5. CASE ServerForward(c)
  <2>1. CASE Forward(c)
    BY <2>1 DEF Forward, CanStep
  <2>2. CASE ForwardDone(c)
    <3>1. accepted \in Nat /\ index[c] \in Nat
      BY PacketFacts DEF TypeOK, Clients
    <3>2. QED
      BY <2>2, <3>1 DEF ForwardDone, CanStep, CanForward
  <2>3. QED
    BY <1>5, <2>1, <2>2 DEF ServerForward
<1>6. CASE ServerSend(c)
  BY <1>6 DEF ServerSend, ServerSendStart, ServerSendDone, CanStep
<1>7. QED
  BY <1>1, <1>2, <1>3, <1>4, <1>5, <1>6

\* What stands still, one thread after the other along the circle.
LEMMA StuckChain ==
  ASSUME TypeOK, accepted = N, \A c \in Clients : ~CanStep(c), NEW c \in Clients
  PROVE  /\ handling[c] # NoPacket =>
              \E d \in Clients : d # c /\ ssending[d]
         /\ smail[c] # NoPacket => ssending[c]
         /\ ssending[c] \/ (c \in running /\ toClient[c] # <<>>)
              => c \in running /\ replying[c]
         /\ c \in running /\ (replying[c] \/ cmail[c] # NoPacket)
              => toServer[c] # <<>>
         /\ toServer[c] # <<>> => handling[c] # NoPacket
<1>1. /\ ~ClientCanSend(c) /\ ~ClientCanTake(c) /\ ~(replying[c] /\ ClientCanPut(c))
      /\ ~ServerCanSend(c) /\ ~ServerCanTake(c)
      /\ ~(handling[c] # NoPacket /\ CanForward(c))
  BY DEF CanStep
<1>2. /\ Len(<<>>) = 0 /\ SendRoom \in Nat /\ SendRoom # 0 /\ c \in 1 .. N /\ N \in Nat
      /\ Len(toClient[c]) \in Nat /\ Len(toServer[c]) \in Nat
      /\ toServer[c] \in Seq(Packet) /\ toClient[c] \in Seq(Packet)
      /\ csending[c] \in BOOLEAN /\ ssending[c] \in BOOLEAN
  BY PacketFacts DEF TypeOK, Clients
<1>3. handling[c] # NoPacket => \E d \in Clients : d # c /\ ssending[d]
  BY <1>1 DEF CanForward, Clients
<1>4. (smail[c] # NoPacket => ssending[c])
      /\ (ssending[c] => c \in running /\ toClient[c] # <<>>)
  BY <1>1, <1>2 DEF ServerCanSend
<1>5. c \in running /\ toClient[c] # <<>> => replying[c]
  BY <1>1 DEF ClientCanTake
<1>6. c \in running /\ (replying[c] \/ cmail[c] # NoPacket) => csending[c]
  BY <1>1 DEF ClientCanSend, ClientCanPut
<1>7. c \in running /\ csending[c] => toServer[c] # <<>>
  BY <1>1, <1>2 DEF ClientCanSend
<1>8. toServer[c] # <<>> => handling[c] # NoPacket
  BY <1>1, <1>2 DEF ServerCanTake
<1>9. QED
  BY <1>3, <1>4, <1>5, <1>6, <1>7, <1>8

(***************************************************************************)
(* The program comes to rest with work left only when two clients at least *)
(* wait to queue the answer to their greeting: for every number of clients *)
(* and every room of the connections.  (Every client here reads when its   *)
(* receive thread does not wait.)  A receive thread of the server that     *)
(* waits, waits for the slot of a client that cannot answer; the server    *)
(* does not read that client because the receive thread of that client's   *)
(* slot waits too, and never for the slot of its own client.               *)
(***************************************************************************)
THEOREM RestTakesTwo == Spec => []StuckNeedsTwo
<1>1. TypeOK => StuckNeedsTwo
  <2> SUFFICES ASSUME TypeOK, Stuck
               PROVE  Cardinality({c \in running : replying[c]}) >= 2
    BY DEF StuckNeedsTwo
  <2> DEFINE Waiting == {c \in running : replying[c]}
  <2>1. accepted = N /\ ~Drained /\ \A c \in Clients : ~CanStep(c)
    BY DEF Stuck
  <2>2. ASSUME NEW c \in Clients, handling[c] # NoPacket
        PROVE  \E d \in Waiting : d # c /\ d \in Clients /\ handling[d] # NoPacket
    <3>1. PICK d \in Clients : d # c /\ ssending[d]
      BY <2>1, <2>2, StuckChain
    <3>2. d \in running /\ replying[d]
      BY <2>1, <3>1, StuckChain
    <3>3. handling[d] # NoPacket
      BY <2>1, <3>2, StuckChain
    <3>4. QED
      BY <3>1, <3>2, <3>3
  <2>3. \E c \in Clients : handling[c] # NoPacket
    <3>1. PICK c \in Clients :
            ~ /\ c \in running => cmail[c] = NoPacket /\ toClient[c] = <<>> /\ ~replying[c]
              /\ toServer[c] = <<>>
              /\ handling[c] = NoPacket
              /\ smail[c] = NoPacket
      BY <2>1 DEF Drained
    <3>2. QED
      BY <2>1, <3>1, StuckChain
  <2>4. PICK c \in Clients : handling[c] # NoPacket
    BY <2>3
  <2>5. PICK d \in Waiting : d # c /\ d \in Clients /\ handling[d] # NoPacket
    BY <2>2, <2>4
  <2>6. PICK e \in Waiting : e # d /\ e \in Clients
    BY <2>2, <2>5
  <2>7. IsFiniteSet(Waiting)
    <3>1. IsFiniteSet(Clients)
      BY PacketFacts, FS_Interval DEF Clients
    <3>2. Waiting \subseteq Clients
      BY DEF TypeOK
    <3>3. QED
      BY <3>1, <3>2, FS_Subset
  <2>8. {d, e} \subseteq Waiting /\ Cardinality({d, e}) = 2
    <3>1. d \in Waiting /\ e \in Waiting /\ d # e
      BY <2>5, <2>6
    <3>2. Cardinality({d}) = 1 /\ IsFiniteSet({d})
      BY FS_Singleton
    <3>3. {d, e} = {d} \cup {e} /\ e \notin {d}
      BY <3>1
    <3>4. Cardinality({d} \cup {e}) = Cardinality({d}) + 1
      BY <3>2, <3>3, FS_AddElement, Zenon
    <3>5. QED
      BY <3>1, <3>2, <3>3, <3>4
  <2>9. Cardinality({d, e}) <= Cardinality(Waiting) /\ Cardinality(Waiting) \in Nat
    BY <2>7, <2>8, FS_Subset, FS_CardinalityType
  <2>10. QED
    BY <2>8, <2>9
<1>2. QED
  BY <1>1, TypeCorrect, PTL
=============================================================================
