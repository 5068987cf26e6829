-------------------------- MODULE RecvFrameProofs --------------------------
(***************************************************************************)
(* Proofs about RecvFrame for every set of packets, header size, payload   *)
(* sizes and number of packets: type correctness, that the handler is      *)
(* given exactly what was sent, and that a short read is final.            *)
(***************************************************************************)
EXTENDS RecvFrame, TLAPS

\* Packets lie behind each other on the stream.
StreamInv ==
  /\ \A n \in DOMAIN sent :
       ends[n] = StartOf(n) + HeaderSize + PayloadSize[sent[n]]
  /\ \A m, n \in DOMAIN sent : m < n => ends[m] < ends[n]

\* The packet the thread is at.
Current == Len(handled) + 1

PayloadOf(n) ==
  [i \in 1 .. PayloadSize[sent[n]] |-> StartOf(n) + HeaderSize + i]

\* Without a short read a buffer is empty or complete, and in its place.
HeaderInv ==
  ~short /\ part = "header" =>
    /\ size = HeaderSize
    /\ bytes_recieved \in {0, size}
    /\ bytes_recieved = 0 => consumed = StartOf(Current)
    /\ bytes_recieved = size =>
         /\ Current \in DOMAIN sent
         /\ buffer = HeaderOf(Current)
         /\ consumed = StartOf(Current) + HeaderSize

PayloadInv ==
  ~short /\ part = "payload" =>
    /\ Current \in DOMAIN sent
    /\ header = HeaderOf(Current)
    /\ size = PayloadSize[sent[Current]]
    /\ bytes_recieved \in {0, size}
    /\ bytes_recieved = 0 => consumed = StartOf(Current) + HeaderSize
    /\ bytes_recieved = size =>
         /\ buffer = PayloadOf(Current)
         /\ consumed = ends[Current]

\* After a short read no recv() can fill the buffer from its start.
ShortInv ==
  short => /\ bytes_recieved < size
           /\ bytes_recieved > 0 \/ (consumed = arrived /\ ~open)

IInv ==
  /\ TypeOK /\ StreamInv /\ Len(handled) <= Len(sent)
  /\ HeaderInv /\ PayloadInv /\ ShortInv /\ HandledExactly

-----------------------------------------------------------------------------
(* Type correctness.                                                         *)

LEMMA BlankType == \A n \in Nat : Blank(n) \in [1 .. n -> Nat]
BY DEF Blank, Junk

LEMMA InitType == Init => TypeOK
<1> SUFFICES ASSUME Init PROVE TypeOK
  OBVIOUS
<1>1. buffer \in [1 .. size -> Nat]
  BY BlankType, FrameAssumption DEF Init
<1>2. Streamed = 0
  BY DEF Init, Streamed
<1>3. /\ sent \in Seq(Packets) /\ ends \in Seq(Nat) /\ Len(ends) = Len(sent)
      /\ header \in Seq(Nat) /\ handled \in Seq(Seq(Nat))
  BY DEF Init
<1>4. /\ arrived = 0 /\ consumed = 0 /\ bytes_recieved = 0
      /\ size \in Nat /\ open \in BOOLEAN /\ short \in BOOLEAN
      /\ part \in {"header", "payload"} /\ socket \in {"connected", "null"}
  BY FrameAssumption DEF Init
<1>5. QED
  BY <1>1, <1>2, <1>3, <1>4 DEF TypeOK

\* What one recv() takes.
LEMMA ReceiveCount ==
  ASSUME TypeOK, Receive
  PROVE  \E n \in Nat \ {0} :
           /\ n <= size - bytes_recieved /\ n <= arrived - consumed
           /\ n = size - bytes_recieved \/ n = arrived - consumed
           /\ buffer' = Filled(n)
           /\ consumed' = consumed + n
           /\ bytes_recieved' = n
           /\ short' = (short \/ n < Ask)
<1> DEFINE n == Smaller(Ask, arrived - consumed)
<1>1. /\ Ask \in Nat \ {0} /\ arrived - consumed \in Nat \ {0}
      /\ Ask = size - bytes_recieved
  BY DEF TypeOK, Receive, Ask
<1>2. /\ n \in Nat \ {0}
      /\ n <= size - bytes_recieved /\ n <= arrived - consumed
      /\ n = size - bytes_recieved \/ n = arrived - consumed
  BY <1>1 DEF Smaller
<1>3. /\ buffer' = Filled(n)
      /\ consumed' = consumed + n
      /\ bytes_recieved' = n
      /\ short' = (short \/ n < Ask)
  BY DEF Receive
<1> HIDE DEF n
<1>4. QED
  BY <1>2, <1>3

LEMMA LengthsNat ==
  ASSUME TypeOK, NEW h, NEW l \in LengthsOf(h)
  PROVE  l \in Nat
<1>1. PICK k \in Packets : l = PayloadSize[k]
  BY DEF TypeOK, LengthsOf, Lengths
<1>2. QED
  BY <1>1, FrameAssumption

LEMMA StreamType ==
  ASSUME TypeOK
  PROVE  /\ Streamed \in Nat
         /\ Len(sent) \in Nat
         /\ DOMAIN sent = 1 .. Len(sent) /\ DOMAIN ends = 1 .. Len(sent)
         /\ \A n \in DOMAIN sent :
              /\ ends[n] \in Nat /\ StartOf(n) \in Nat
              /\ PayloadSize[sent[n]] \in Nat
              /\ StartOf(n + 1) = ends[n]
         /\ StartOf(1) = 0
         /\ StartOf(Len(sent) + 1) = Streamed
<1>1. /\ DOMAIN sent = 1 .. Len(sent) /\ DOMAIN ends = 1 .. Len(sent)
      /\ Len(sent) \in Nat
      /\ \A n \in DOMAIN sent : ends[n] \in Nat /\ sent[n] \in Packets
  BY DEF TypeOK
<1>2. \A n \in DOMAIN sent :
        StartOf(n) \in Nat /\ StartOf(n + 1) = ends[n]
  BY <1>1 DEF StartOf
<1>3. Streamed \in Nat /\ StartOf(Len(sent) + 1) = Streamed
  <2>1. CASE sent = <<>>
    BY <2>1 DEF StartOf, Streamed
  <2>2. CASE sent # <<>>
    <3>1. Len(sent) \in DOMAIN sent
      BY <1>1, <2>2 DEF TypeOK
    <3>2. QED
      BY <1>1, <1>2, <2>2, <3>1 DEF Streamed
  <2>3. QED
    BY <2>1, <2>2
<1>4. QED
  BY <1>1, <1>2, <1>3, FrameAssumption DEF StartOf

LEMMA AppendFacts ==
  ASSUME NEW S, NEW s \in Seq(S), NEW e \in S
  PROVE  /\ Append(s, e) \in Seq(S)
         /\ Len(s) \in Nat /\ Len(Append(s, e)) = Len(s) + 1
         /\ \A n \in 1 .. Len(s) : Append(s, e)[n] = s[n]
         /\ Append(s, e)[Len(s) + 1] = e
         /\ Append(s, e) # <<>>
OBVIOUS

(* The peer appends a packet; those before it keep their places.             *)
LEMMA SendFacts ==
  ASSUME TypeOK, NEW k \in Packets, Send(k)
  PROVE  /\ sent' = Append(sent, k) /\ Len(sent') = Len(sent) + 1
         /\ sent' \in Seq(Packets) /\ ends' \in Seq(Nat)
         /\ Len(ends') = Len(sent')
         /\ \A n \in DOMAIN sent : sent'[n] = sent[n] /\ ends'[n] = ends[n]
         /\ sent'[Len(sent) + 1] = k
         /\ ends'[Len(sent) + 1] = Streamed + HeaderSize + PayloadSize[k]
         /\ Streamed' = Streamed + HeaderSize + PayloadSize[k]
         /\ \A n \in 1 .. Len(sent) + 1 : StartOf(n)' = StartOf(n)
<1>1. /\ sent' = Append(sent, k)
      /\ ends' = Append(ends, Streamed + HeaderSize + PayloadSize[k])
  BY DEF Send
<1>2. Streamed + HeaderSize + PayloadSize[k] \in Nat
  BY StreamType, FrameAssumption
<1>3. /\ Len(sent') = Len(sent) + 1 /\ Len(ends') = Len(sent) + 1
      /\ sent' \in Seq(Packets) /\ ends' \in Seq(Nat) /\ Len(sent) \in Nat
      /\ \A n \in 1 .. Len(sent) : sent'[n] = sent[n] /\ ends'[n] = ends[n]
      /\ sent'[Len(sent) + 1] = k
      /\ ends'[Len(sent) + 1] = Streamed + HeaderSize + PayloadSize[k]
      /\ sent' # <<>>
  <2>1. sent \in Seq(Packets) /\ ends \in Seq(Nat) /\ Len(ends) = Len(sent)
    BY DEF TypeOK
  <2>2. PICK e \in Nat : e = Streamed + HeaderSize + PayloadSize[k]
    BY <1>2
  <2>3. /\ Append(sent, k) \in Seq(Packets)
        /\ Len(sent) \in Nat /\ Len(Append(sent, k)) = Len(sent) + 1
        /\ \A n \in 1 .. Len(sent) : Append(sent, k)[n] = sent[n]
        /\ Append(sent, k)[Len(sent) + 1] = k
        /\ Append(sent, k) # <<>>
    BY <2>1, AppendFacts
  <2>4. /\ Append(ends, e) \in Seq(Nat)
        /\ Len(Append(ends, e)) = Len(ends) + 1
        /\ \A n \in 1 .. Len(ends) : Append(ends, e)[n] = ends[n]
        /\ Append(ends, e)[Len(ends) + 1] = e
    BY <2>1, AppendFacts
  <2>5. QED
    BY <1>1, <2>1, <2>2, <2>3, <2>4
<1>4. Streamed' = Streamed + HeaderSize + PayloadSize[k]
  BY <1>3 DEF Streamed
<1>5. ASSUME NEW n \in 1 .. Len(sent) + 1 PROVE StartOf(n)' = StartOf(n)
  <2>1. n # 1 => n - 1 \in 1 .. Len(sent)
    BY <1>3
  <2>2. QED
    BY <1>3, <2>1 DEF StartOf
<1>6. QED
  BY <1>1, <1>3, <1>4, <1>5, StreamType

LEMMA NextType == TypeOK /\ [Next]_vars => TypeOK'
<1> SUFFICES ASSUME TypeOK, [Next]_vars PROVE TypeOK'
  OBVIOUS
<1> USE FrameAssumption DEF peerVars, threadVars
<1>1. ASSUME NEW k \in Packets, Send(k) PROVE TypeOK'
  <2>1. Streamed' >= Streamed /\ Streamed \in Nat /\ Streamed' \in Nat
    BY <1>1, SendFacts, StreamType
  <2>2. QED
    BY <1>1, <2>1, SendFacts DEF TypeOK, Send
<1>2. CASE Arrive
  BY <1>2, StreamType DEF TypeOK, Arrive, Streamed
<1>3. CASE PeerGone
  <2>1. arrived' \in Nat /\ consumed <= arrived' /\ arrived' <= Streamed
    BY <1>3, StreamType DEF TypeOK, PeerGone
  <2>2. QED
    BY <1>3, <2>1 DEF TypeOK, PeerGone, Streamed
<1>4. CASE Receive
  <2>1. PICK n \in Nat \ {0} :
          /\ n <= size - bytes_recieved /\ n <= arrived - consumed
          /\ buffer' = Filled(n)
          /\ consumed' = consumed + n
          /\ bytes_recieved' = n
          /\ short' = (short \/ n < Ask)
    BY <1>4, ReceiveCount
  <2>2. Filled(n) \in [1 .. size -> Nat]
    BY <2>1 DEF TypeOK, Filled
  <2>3. UNCHANGED <<sent, ends, arrived, open, socket, part, size, header,
                    handled>>
    BY <1>4 DEF Receive
  <2>4. QED
    BY <2>1, <2>2, <2>3 DEF TypeOK, Streamed
<1>5. CASE ReceiveNothing
  BY <1>5 DEF TypeOK, ReceiveNothing, Streamed
<1>6. CASE ReceiveRefused
  BY <1>6 DEF TypeOK, ReceiveRefused, vars, Streamed
<1>7. CASE HeaderDone
  <2>1. PICK length \in LengthsOf(buffer) :
          size' = length /\ buffer' = Blank(length)
    BY <1>7 DEF HeaderDone
  <2>2. length \in Nat /\ buffer' \in [1 .. length -> Nat]
    BY <2>1, LengthsNat, BlankType
  <2>3. buffer \in Seq(Nat)
    BY DEF TypeOK
  <2>4. QED
    BY <1>7, <2>1, <2>2, <2>3 DEF TypeOK, HeaderDone, Streamed
<1>8. CASE PayloadDone
  <2>1. header \o buffer \in Seq(Nat)
    BY DEF TypeOK
  <2>2. handled' \in Seq(Seq(Nat))
    BY <1>8, <2>1 DEF TypeOK, PayloadDone
  <2>3. size' \in Nat /\ buffer' \in [1 .. size' -> Nat]
    BY <1>8, BlankType DEF PayloadDone
  <2>4. QED
    BY <1>8, <2>2, <2>3 DEF TypeOK, PayloadDone, Streamed
<1>9. CASE UNCHANGED vars
  BY <1>9 DEF TypeOK, vars, Streamed
<1>10. QED
  BY <1>1, <1>2, <1>3, <1>4, <1>5, <1>6, <1>7, <1>8, <1>9
  DEF Next, RecvThread

(* Every behaviour keeps the progress within the buffer and the thread       *)
(* behind the network, and the network behind the peer.                      *)
THEOREM TypeCorrect == Spec => []TypeOK
<1>1. QED
  BY InitType, NextType, PTL DEF Spec

-----------------------------------------------------------------------------
(* The inductive invariant.                                                  *)

\* A header's bytes belong to one packet only.
LEMMA OneLength ==
  ASSUME TypeOK, StreamInv, NEW n \in DOMAIN sent
  PROVE  LengthsOf(HeaderOf(n)) = {PayloadSize[sent[n]]}
<1>0. PICK L \in Nat : L = Len(sent) /\ DOMAIN sent = 1 .. L
  BY StreamType
<1>1. \A m \in 1 .. L : StartOf(m) \in Nat /\ ends[m] \in Nat
  BY <1>0, StreamType
<1>2. \A m \in 1 .. L : StartOf(m) < ends[m]
  <2> SUFFICES ASSUME NEW m \in 1 .. L PROVE StartOf(m) < ends[m]
    OBVIOUS
  <2>1. PayloadSize[sent[m]] \in Nat
    BY <1>0, StreamType
  <2>2. ends[m] = StartOf(m) + HeaderSize + PayloadSize[sent[m]]
    BY <1>0 DEF StreamInv
  <2>3. QED
    BY <1>1, <2>1, <2>2, FrameAssumption
<1>3. ASSUME NEW m \in 1 .. L, NEW k \in 1 .. L, m < k
      PROVE  StartOf(m) < StartOf(k)
  <2>1. k - 1 \in 1 .. L /\ m <= k - 1 /\ k # 1
    BY <1>3
  <2>2. StartOf(k) = ends[k - 1]
    BY <2>1 DEF StartOf
  <2>3. m < k - 1 => ends[m] < ends[k - 1]
    BY <1>0, <2>1 DEF StreamInv
  <2>4. ends[m] <= ends[k - 1]
    BY <1>1, <2>1, <2>3
  <2>5. QED
    BY <1>1, <1>2, <2>1, <2>2, <2>4
<1>4. ASSUME NEW m \in 1 .. L, HeaderOf(m) = HeaderOf(n) PROVE m = n
  <2>1. HeaderOf(m)[1] = StartOf(m) + 1 /\ HeaderOf(n)[1] = StartOf(n) + 1
    BY FrameAssumption DEF HeaderOf
  <2>2. StartOf(m) = StartOf(n) /\ n \in 1 .. L
    BY <1>0, <1>1, <1>4, <2>1
  <2>3. ~(m < n) /\ ~(n < m)
    BY <1>1, <1>3, <2>2
  <2>4. QED
    BY <2>2, <2>3
<1>5. {m \in DOMAIN sent : HeaderOf(m) = HeaderOf(n)} = {n}
  BY <1>0, <1>4
<1>6. QED
  BY <1>5 DEF LengthsOf

LEMMA Concat ==
  ASSUME NEW h \in Seq(Nat), NEW t \in Seq(Nat)
  PROVE  /\ h \o t \in Seq(Nat)
         /\ Len(h) \in Nat /\ Len(t) \in Nat
         /\ Len(h \o t) = Len(h) + Len(t)
         /\ \A i \in 1 .. Len(h) + Len(t) :
              (h \o t)[i] = IF i <= Len(h) THEN h[i] ELSE t[i - Len(h)]
OBVIOUS

LEMMA SameSequence ==
  ASSUME NEW s \in Seq(Nat), NEW t \in Seq(Nat), Len(s) = Len(t),
         \A i \in 1 .. Len(s) : s[i] = t[i]
  PROVE  s = t
OBVIOUS

LEMMA FrameIsBoth ==
  ASSUME TypeOK, NEW n \in DOMAIN sent
  PROVE  HeaderOf(n) \o PayloadOf(n) = Frame(n)
<1>1. PICK H \in Nat : H = HeaderSize
  BY FrameAssumption
<1>2. PICK P \in Nat : P = PayloadSize[sent[n]]
  BY StreamType
<1>3. PICK s \in Nat : s = StartOf(n)
  BY StreamType
<1>4. /\ HeaderOf(n) \in Seq(Nat) /\ Len(HeaderOf(n)) = H
      /\ \A i \in 1 .. H : HeaderOf(n)[i] = s + i
  BY <1>1, <1>3 DEF HeaderOf
<1>5. /\ PayloadOf(n) \in Seq(Nat) /\ Len(PayloadOf(n)) = P
      /\ \A i \in 1 .. P : PayloadOf(n)[i] = s + H + i
  BY <1>1, <1>2, <1>3 DEF PayloadOf
<1>6. /\ Frame(n) \in Seq(Nat) /\ Len(Frame(n)) = H + P
      /\ \A i \in 1 .. H + P : Frame(n)[i] = s + i
  <2>1. Frame(n) = [i \in 1 .. H + P |-> s + i]
    BY <1>1, <1>2, <1>3 DEF Frame
  <2>2. H + P \in Nat
    OBVIOUS
  <2>3. QED
    BY <2>1, <2>2
<1>7. PICK c \in Seq(Nat) :
        /\ c = HeaderOf(n) \o PayloadOf(n)
        /\ Len(c) = H + P
        /\ \A i \in 1 .. H + P :
             c[i] = IF i <= H THEN HeaderOf(n)[i] ELSE PayloadOf(n)[i - H]
  BY <1>4, <1>5, Concat
<1>8. ASSUME NEW i \in 1 .. H + P PROVE c[i] = s + i
  <2>1. CASE i <= H
    BY <1>4, <1>7, <2>1
  <2>2. CASE i > H
    <3>1. i - H \in 1 .. P /\ s + H + (i - H) = s + i
      BY <2>2
    <3>2. QED
      BY <1>5, <1>7, <2>2, <3>1
  <2>3. QED
    BY <2>1, <2>2
<1>9. QED
  BY <1>6, <1>7, <1>8, SameSequence

LEMMA InitInd == Init => IInv
<1> SUFFICES ASSUME Init PROVE IInv
  OBVIOUS
<1>1. TypeOK
  BY InitType
<1>2. StreamInv /\ Len(handled) <= Len(sent) /\ HandledExactly /\ ShortInv
  BY DEF Init, StreamInv, HandledExactly, ShortInv
<1>3. HeaderInv /\ PayloadInv
  BY FrameAssumption DEF Init, HeaderInv, PayloadInv, StartOf, Current
<1>4. QED
  BY <1>1, <1>2, <1>3 DEF IInv

(* A packet more on the stream changes nothing for those before it.          *)
LEMMA SendInd ==
  ASSUME IInv, NEW k \in Packets, Send(k)
  PROVE  IInv'
<1>1. TypeOK /\ TypeOK'
  BY NextType DEF IInv, Next
<1>2. /\ Len(sent) \in Nat /\ Len(sent') = Len(sent) + 1
      /\ DOMAIN sent' = 1 .. Len(sent) + 1 /\ DOMAIN sent = 1 .. Len(sent)
      /\ PayloadSize[k] \in Nat /\ HeaderSize \in Nat \ {0}
  <2>1. Len(sent) \in Nat /\ DOMAIN sent = 1 .. Len(sent)
    BY <1>1, StreamType
  <2>2. Len(sent') = Len(sent) + 1 /\ sent' \in Seq(Packets)
    BY <1>1, SendFacts
  <2>3. QED
    BY <2>1, <2>2, FrameAssumption
<1>3. \A n \in DOMAIN sent :
        /\ sent'[n] = sent[n] /\ ends'[n] = ends[n] /\ StartOf(n)' = StartOf(n)
        /\ HeaderOf(n)' = HeaderOf(n)
        /\ PayloadOf(n)' = PayloadOf(n)
        /\ Frame(n)' = Frame(n)
  BY <1>1, <1>2, SendFacts DEF HeaderOf, PayloadOf, Frame
<1>4. UNCHANGED threadVars /\ UNCHANGED <<arrived, open>>
  BY DEF Send
<1>5. StreamInv'
  <2>1. \A n \in DOMAIN sent :
          ends'[n] = StartOf(n)' + HeaderSize + PayloadSize[sent'[n]]
    BY <1>3 DEF IInv, StreamInv
  <2>2. \A n \in DOMAIN sent : ends[n] <= Streamed
    <3> SUFFICES ASSUME NEW n \in DOMAIN sent PROVE ends[n] <= Streamed
      OBVIOUS
    <3>1. n < Len(sent) => ends[n] < ends[Len(sent)]
      BY <1>2 DEF IInv, StreamInv
    <3>2. sent # <<>>
      BY <1>1 DEF TypeOK
    <3>3. QED
      BY <1>1, <1>2, <3>1, <3>2, StreamType DEF Streamed
  <2>3. /\ sent'[Len(sent) + 1] = k
        /\ StartOf(Len(sent) + 1) = Streamed /\ Streamed \in Nat
        /\ \A n \in 1 .. Len(sent) + 1 : StartOf(n)' = StartOf(n)
        /\ ends'[Len(sent) + 1] = Streamed + HeaderSize + PayloadSize[k]
    BY <1>1, SendFacts, StreamType
  <2>4. \A n \in DOMAIN sent :
          ends[n] \in Nat /\ ends'[n] < ends'[Len(sent) + 1]
    BY <1>1, <1>2, <1>3, <2>2, <2>3, StreamType
  <2>5. \A n \in DOMAIN sent' :
          ends'[n] = StartOf(n)' + HeaderSize + PayloadSize[sent'[n]]
    BY <1>2, <2>1, <2>3
  <2>6. \A m, n \in DOMAIN sent' : m < n => ends'[m] < ends'[n]
    BY <1>2, <1>3, <2>4 DEF IInv, StreamInv
  <2>7. QED
    BY <2>5, <2>6 DEF StreamInv
<1>6. (Len(handled) <= Len(sent))' /\ HandledExactly'
  BY <1>1, <1>2, <1>3, <1>4 DEF IInv, HandledExactly, threadVars, TypeOK
<1>7. Len(handled) \in Nat /\ Len(handled) <= Len(sent)
  BY <1>1 DEF IInv, TypeOK
<1>8. StartOf(Current)' = StartOf(Current) /\ Current' = Current
  BY <1>1, <1>2, <1>4, <1>7, SendFacts DEF Current, threadVars, StartOf
<1>9. ShortInv'
  BY <1>4 DEF IInv, ShortInv, threadVars
<1>10. HeaderInv'
  BY <1>2, <1>3, <1>4, <1>8 DEF IInv, HeaderInv, HeaderOf, threadVars
<1>11. PayloadInv'
  BY <1>2, <1>3, <1>4, <1>8
  DEF IInv, PayloadInv, HeaderOf, PayloadOf, threadVars
<1>12. QED
  BY <1>1, <1>5, <1>6, <1>9, <1>10, <1>11 DEF IInv

LEMMA CurrentFacts ==
  ASSUME TypeOK, Len(handled) <= Len(sent)
  PROVE  /\ Current \in 1 .. Len(sent) + 1
         /\ StartOf(Current) \in Nat
         /\ Current \notin DOMAIN sent => StartOf(Current) = Streamed
<1>1. /\ Len(handled) \in Nat /\ Len(sent) \in Nat
      /\ DOMAIN sent = 1 .. Len(sent)
  BY DEF TypeOK
<1>2. Current \in 1 .. Len(sent) + 1
  BY <1>1 DEF Current
<1>3. QED
  BY <1>1, <1>2, StreamType

(* One recv(): either it fills an untouched buffer or it is short.           *)
LEMMA ReceiveInd ==
  ASSUME IInv, Receive
  PROVE  IInv'
<1>0. TypeOK /\ TypeOK' /\ size \in Nat /\ bytes_recieved \in Nat
      /\ consumed \in Nat /\ arrived \in Nat /\ arrived <= Streamed
  BY NextType DEF IInv, Next, RecvThread, TypeOK
<1>1. PICK n \in Nat \ {0} :
        /\ n <= size - bytes_recieved /\ n <= arrived - consumed
        /\ n = size - bytes_recieved \/ n = arrived - consumed
        /\ buffer' = Filled(n)
        /\ consumed' = consumed + n
        /\ bytes_recieved' = n
        /\ short' = (short \/ n < Ask)
  BY <1>0, ReceiveCount
<1>1a. short' <=> short \/ n < Ask
  BY <1>1, Zenon
<1>2. /\ bytes_recieved < size /\ consumed < arrived
      /\ UNCHANGED <<sent, ends, arrived, open, socket, part, size, header,
                     handled>>
  BY DEF Receive, peerVars
<1>3. StreamInv' /\ (Len(handled) <= Len(sent))' /\ HandledExactly'
  BY <1>2 DEF IInv, StreamInv, HandledExactly, StartOf, Frame
<1>4. ShortInv'
  <2>1. CASE short
    <3>1. bytes_recieved > 0
      BY <1>0, <1>2, <2>1 DEF IInv, ShortInv
    <3>2. n < size
      BY <1>0, <1>1, <3>1
    <3>3. QED
      BY <1>1, <1>2, <3>2 DEF ShortInv
  <2>2. CASE ~short
    BY <1>0, <1>1, <1>1a, <1>2, <2>2 DEF ShortInv, Ask
  <2>3. QED
    BY <2>1, <2>2
<1>5. CASE short'
  BY <1>0, <1>3, <1>4, <1>5 DEF IInv, HeaderInv, PayloadInv
<1>6. CASE ~short'
  <2>1. ~short /\ n = size - bytes_recieved
    BY <1>0, <1>1, <1>1a, <1>6 DEF Ask
  <2>2. bytes_recieved = 0 /\ n = size /\ size > 0
    BY <1>0, <1>1, <1>2, <2>1 DEF IInv, HeaderInv, PayloadInv, TypeOK
  <2>3. buffer' = [i \in 1 .. size |-> consumed + i]
    BY <1>0, <1>1, <2>2 DEF Filled
  <2>4. /\ Current' = Current /\ StartOf(Current)' = StartOf(Current)
        /\ HeaderOf(Current)' = HeaderOf(Current)
        /\ PayloadOf(Current)' = PayloadOf(Current)
    BY <1>2 DEF Current, StartOf, HeaderOf, PayloadOf
  <2>5. CASE part = "header"
    <3>1. size = HeaderSize /\ consumed = StartOf(Current)
      BY <2>1, <2>2, <2>5 DEF IInv, HeaderInv
    <3>2. Current \in DOMAIN sent
      BY <1>0, <1>2, <3>1, CurrentFacts, StreamType DEF IInv
    <3>3. buffer' = HeaderOf(Current)
      BY <2>3, <3>1 DEF HeaderOf
    <3>4. HeaderInv'
      BY <1>1, <1>2, <2>2, <2>4, <3>1, <3>2, <3>3 DEF HeaderInv
    <3>5. PayloadInv'
      BY <1>2, <2>5 DEF PayloadInv
    <3>6. QED
      BY <1>0, <1>3, <1>4, <3>4, <3>5 DEF IInv
  <2>6. CASE part = "payload"
    <3>1. /\ Current \in DOMAIN sent /\ header = HeaderOf(Current)
          /\ size = PayloadSize[sent[Current]]
          /\ consumed = StartOf(Current) + HeaderSize
      BY <2>1, <2>2, <2>6 DEF IInv, PayloadInv
    <3>2. buffer' = PayloadOf(Current)
      BY <2>3, <3>1 DEF PayloadOf
    <3>3. consumed' = ends[Current]
      BY <1>1, <2>2, <3>1 DEF IInv, StreamInv
    <3>4. PayloadInv'
      BY <1>1, <1>2, <2>2, <2>4, <3>1, <3>2, <3>3 DEF PayloadInv
    <3>5. HeaderInv'
      BY <1>2, <2>6 DEF HeaderInv
    <3>6. QED
      BY <1>0, <1>3, <1>4, <3>4, <3>5 DEF IInv
  <2>7. QED
    BY <1>0, <2>5, <2>6 DEF TypeOK
<1>7. QED
  BY <1>5, <1>6

(* A complete header names the length of its own packet.                     *)
LEMMA HeaderInd ==
  ASSUME IInv, HeaderDone
  PROVE  IInv'
<1>0. TypeOK /\ TypeOK' /\ size \in Nat /\ bytes_recieved \in Nat
      /\ bytes_recieved <= size
  BY NextType DEF IInv, Next, RecvThread, TypeOK
<1>1. PICK length \in LengthsOf(buffer) :
        size' = length /\ buffer' = Blank(length)
  BY DEF HeaderDone
<1>2. /\ part = "header" /\ bytes_recieved >= size /\ header' = buffer
      /\ bytes_recieved' = 0 /\ part' = "payload"
      /\ UNCHANGED <<sent, ends, arrived, open, consumed, handled, short>>
  BY DEF HeaderDone, peerVars
<1>3. ~short /\ bytes_recieved = size
  BY <1>0, <1>2 DEF IInv, ShortInv
<1>4. /\ Current \in DOMAIN sent /\ buffer = HeaderOf(Current)
      /\ consumed = StartOf(Current) + HeaderSize
  BY <1>2, <1>3 DEF IInv, HeaderInv
<1>5. length = PayloadSize[sent[Current]] /\ length \in Nat
  BY <1>0, <1>1, <1>4, OneLength, LengthsNat DEF IInv
<1>6. /\ Current' = Current /\ StartOf(Current)' = StartOf(Current)
      /\ HeaderOf(Current)' = HeaderOf(Current)
      /\ PayloadOf(Current)' = PayloadOf(Current)
  BY <1>2 DEF Current, StartOf, HeaderOf, PayloadOf
<1>7. StreamInv' /\ (Len(handled) <= Len(sent))' /\ HandledExactly'
  BY <1>2 DEF IInv, StreamInv, HandledExactly, StartOf, Frame
<1>8. HeaderInv' /\ ShortInv'
  BY <1>2, <1>3 DEF HeaderInv, ShortInv
<1>9. length = 0 => buffer' = PayloadOf(Current) /\ consumed = ends[Current]
  <2> SUFFICES ASSUME length = 0
               PROVE  buffer' = PayloadOf(Current) /\ consumed = ends[Current]
    OBVIOUS
  <2>1. buffer' = PayloadOf(Current)
    BY <1>1, <1>5 DEF Blank, PayloadOf
  <2>2. consumed = ends[Current]
    <3>1. ends[Current] = StartOf(Current) + HeaderSize + 0
      BY <1>4, <1>5 DEF IInv, StreamInv
    <3>2. StartOf(Current) \in Nat
      BY <1>0, <1>4, StreamType
    <3>3. QED
      BY <1>4, <3>1, <3>2, FrameAssumption
  <2>3. QED
    BY <2>1, <2>2
<1>10. PayloadInv'
  BY <1>1, <1>2, <1>4, <1>5, <1>6, <1>9 DEF PayloadInv
<1>11. QED
  BY <1>0, <1>7, <1>8, <1>10 DEF IInv

(* A complete payload makes the packet whole; the next one starts behind it. *)
LEMMA PayloadInd ==
  ASSUME IInv, PayloadDone
  PROVE  IInv'
<1>0. TypeOK /\ TypeOK' /\ size \in Nat /\ bytes_recieved \in Nat
      /\ bytes_recieved <= size /\ handled \in Seq(Seq(Nat))
      /\ header \o buffer \in Seq(Nat)
  <2>1. TypeOK /\ TypeOK'
    BY NextType DEF IInv, Next, RecvThread
  <2>2. header \o buffer \in Seq(Nat)
    BY <2>1 DEF TypeOK
  <2>3. QED
    BY <2>1, <2>2 DEF TypeOK
<1>1. /\ part = "payload" /\ bytes_recieved >= size
      /\ handled' = Append(handled, header \o buffer)
      /\ size' = HeaderSize /\ bytes_recieved' = 0 /\ part' = "header"
      /\ UNCHANGED <<sent, ends, arrived, open, consumed, short>>
  BY DEF PayloadDone, peerVars
<1>2. ~short /\ bytes_recieved = size
  BY <1>0, <1>1 DEF IInv, ShortInv
<1>3. /\ Current \in DOMAIN sent /\ header = HeaderOf(Current)
      /\ buffer = PayloadOf(Current) /\ consumed = ends[Current]
  BY <1>1, <1>2 DEF IInv, PayloadInv
<1>4. header \o buffer = Frame(Current)
  BY <1>0, <1>3, FrameIsBoth
<1>5. PICK k \in Nat : k = Len(handled)
  BY <1>0
<1>6. /\ Current = k + 1 /\ Current' = k + 2 /\ Len(handled') = k + 1
      /\ DOMAIN handled' = 1 .. k + 1
      /\ \A n \in 1 .. k : handled'[n] = handled[n]
      /\ handled'[k + 1] = Frame(k + 1)
  <2>1. PICK e \in Seq(Nat) : e = header \o buffer
    BY <1>0
  <2>2. handled' = Append(handled, e) /\ handled' \in Seq(Seq(Nat))
    BY <1>0, <1>1, <2>1 DEF TypeOK
  <2>3. Len(handled') = k + 1
    BY <1>0, <1>5, <2>2
  <2>4. \A n \in 1 .. k : handled'[n] = handled[n]
    BY <1>0, <1>5, <2>2
  <2>5. handled'[k + 1] = e
    BY <1>0, <1>5, <2>2
  <2>6. QED
    BY <1>4, <1>5, <2>1, <2>2, <2>3, <2>4, <2>5 DEF Current
<1>7. StreamInv' /\ (Len(handled) <= Len(sent))'
  BY <1>0, <1>1, <1>3, <1>6, StreamType DEF IInv, StreamInv, StartOf
<1>8. HandledExactly'
  <2> SUFFICES ASSUME NEW n \in 1 .. k + 1
               PROVE  n \in DOMAIN sent /\ handled'[n] = Frame(n)
    <3>1. \A n \in DOMAIN sent : Frame(n)' = Frame(n)
      BY <1>1 DEF Frame, StartOf
    <3>2. DOMAIN sent' = DOMAIN sent
      BY <1>1
    <3>3. QED
      BY <1>6, <3>1, <3>2 DEF HandledExactly
  <2>1. CASE n \in 1 .. k
    <3>1. n \in DOMAIN handled
      BY <1>0, <1>5, <2>1
    <3>2. QED
      BY <1>6, <2>1, <3>1 DEF IInv, HandledExactly
  <2>2. CASE n = k + 1
    BY <1>3, <1>6, <2>2
  <2>3. QED
    BY <2>1, <2>2
<1>9. StartOf(Current)' = ends[k + 1]
  BY <1>1, <1>5, <1>6 DEF StartOf
<1>10. HeaderInv'
  BY <1>1, <1>3, <1>6, <1>9, FrameAssumption DEF HeaderInv
<1>11. PayloadInv' /\ ShortInv'
  BY <1>1, <1>2 DEF PayloadInv, ShortInv
<1>12. QED
  BY <1>0, <1>7, <1>8, <1>10, <1>11 DEF IInv

LEMMA NextInd == IInv /\ [Next]_vars => IInv'
<1> SUFFICES ASSUME IInv, [Next]_vars PROVE IInv'
  OBVIOUS
<1> USE DEF peerVars, threadVars
<1>0. TypeOK /\ TypeOK'
  BY NextType DEF IInv
<1>1. ASSUME NEW k \in Packets, Send(k) PROVE IInv'
  BY <1>1, SendInd
<1>2. CASE Arrive \/ PeerGone
  <2>1. UNCHANGED <<sent, ends, part, size, buffer, bytes_recieved, consumed,
                    header, handled, short>>
    BY <1>2 DEF Arrive, PeerGone
  <2>2. /\ StreamInv' /\ (Len(handled) <= Len(sent))' /\ HandledExactly'
        /\ HeaderInv' /\ PayloadInv'
    BY <2>1
    DEF IInv, StreamInv, HandledExactly, HeaderInv, PayloadInv, Current,
        StartOf, Frame, HeaderOf, PayloadOf
  <2>3. ShortInv'
    BY <1>2 DEF Arrive, PeerGone, IInv, ShortInv
  <2>4. QED
    BY <1>0, <2>2, <2>3 DEF IInv
<1>3. CASE Receive
  BY <1>3, ReceiveInd
<1>4. CASE ReceiveNothing
  <2>1. /\ bytes_recieved < size /\ consumed = arrived /\ ~open
        /\ bytes_recieved' = 0
        /\ UNCHANGED <<sent, ends, arrived, open, part, size, buffer, consumed,
                       header, handled, short>>
    BY <1>4 DEF ReceiveNothing
  <2>2. StreamInv' /\ (Len(handled) <= Len(sent))' /\ HandledExactly'
    BY <2>1 DEF IInv, StreamInv, HandledExactly, StartOf, Frame
  <2>3. size > 0 /\ ShortInv'
    BY <1>0, <2>1 DEF ShortInv, TypeOK
  <2>4. ~short => bytes_recieved = 0
    BY <1>0, <2>1 DEF IInv, HeaderInv, PayloadInv, TypeOK
  <2>5. HeaderInv' /\ PayloadInv'
    BY <2>1, <2>3, <2>4
    DEF IInv, HeaderInv, PayloadInv, Current, StartOf, HeaderOf, PayloadOf
  <2>6. QED
    BY <1>0, <2>2, <2>3, <2>5 DEF IInv
<1>5. CASE HeaderDone
  BY <1>5, HeaderInd
<1>6. CASE PayloadDone
  BY <1>6, PayloadInd
<1>7. CASE ReceiveRefused \/ UNCHANGED vars
  BY <1>0, <1>7
  DEF ReceiveRefused, vars, IInv, StreamInv, HandledExactly, HeaderInv,
      PayloadInv, ShortInv, Current, StartOf, Frame, HeaderOf, PayloadOf
<1>8. QED
  BY <1>1, <1>2, <1>3, <1>4, <1>5, <1>6, <1>7 DEF Next, RecvThread

(* IInv holds in every state the receive thread reaches.                     *)
THEOREM Invariance == Spec => []IInv
<1>1. QED
  BY InitInd, NextInd, PTL DEF Spec

-----------------------------------------------------------------------------
(* The safety properties.                                                    *)

(* The handler is given the packets that were sent, whole and in order.      *)
THEOREM Exactly == Spec => []HandledExactly
<1>1. IInv => HandledExactly
  BY DEF IInv
<1>2. QED
  BY <1>1, Invariance, PTL

(* After a short read no packet is handled any more.                         *)
THEOREM ShortReadFinal == Spec => ShortReadIsFinal
<1>1. ASSUME IInv, [Next]_vars, short PROVE handled' = handled
  <2>1. bytes_recieved < size /\ size \in Nat /\ bytes_recieved \in Nat
    BY <1>1 DEF IInv, ShortInv, TypeOK
  <2>2. ~PayloadDone
    BY <2>1 DEF PayloadDone
  <2>3. QED
    BY <1>1, <2>2
    DEF Next, RecvThread, Send, Arrive, PeerGone, Receive, ReceiveNothing,
        ReceiveRefused, HeaderDone, vars, threadVars
<1>2. IInv /\ [Next]_vars => [short => handled' = handled]_vars
  BY <1>1
<1>3. QED
  BY <1>2, Invariance, PTL DEF Spec, ShortReadIsFinal
=============================================================================
