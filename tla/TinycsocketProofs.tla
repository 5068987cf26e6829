-------------------------- MODULE TinycsocketProofs --------------------------
(***************************************************************************)
(* Proofs about the parts of tinycsocket.h, each for any values of its     *)
(* constants: the sockets and their handles, the line reader, netstrings,  *)
(* the options of a socket, datagrams, addresses as text, the lookups of   *)
(* addresses and adapters, and the socket pool with its map.               *)
(***************************************************************************)
EXTENDS Sockets, LineReader, Netstring, SocketOptions, Lookup, Datagrams, Addresses,
        Pool, Integers, FiniteSetTheorems, SequenceTheorems, WellFoundedInduction, TLAPS

-----------------------------------------------------------------------------
(* Least elements, and sequences                                             *)

Less == {p \in Nat \X Nat : p[1] < p[2]}
LEMMA LessIsWellFounded == IsWellFoundedOn(Less, Nat)
<1>1. OpToRel(<, Nat) = Less
  BY DEF OpToRel, Less
<1>2. QED
  BY <1>1, NatLessThanWellFounded, Zenon

LEMMA LeastElement ==
  ASSUME NEW T \in SUBSET Nat, T # {}
  PROVE  \E m \in T : \A n \in T : m <= n
<1>2. \E x \in T : \A y \in T : ~(<<y, x>> \in Less)
  BY LessIsWellFounded, WFMin
<1>3. PICK m \in T : \A n \in T : <<n, m>> \notin Less
  BY <1>2
<1>4. ASSUME NEW n \in T PROVE m <= n
  <2>1. n \in Nat /\ m \in Nat /\ <<n, m>> \notin Less
    BY <1>3
  <2>2. ~(n < m)
    BY <2>1 DEF Less
  <2>3. QED
    BY <2>1, <2>2
<1>5. QED
  BY <1>4

\* Induction: what holds of 0 and of the next of each number holds of all.
LEMMA SetInduction ==
  ASSUME NEW T \in SUBSET Nat, 0 \in T, \A n \in T : n + 1 \in T
  PROVE  T = Nat
<1> SUFFICES ASSUME Nat \ T # {} PROVE FALSE
  OBVIOUS
<1>1. PICK m \in Nat \ T : \A n \in Nat \ T : m <= n
  BY LeastElement
<1>2. m # 0 /\ m - 1 \in Nat
  BY <1>1
<1>3. m - 1 \in T
  BY <1>1, <1>2
<1>4. QED
  BY <1>1, <1>3

LEMMA ConcatFacts ==
  ASSUME NEW S, NEW s \in Seq(S), NEW r \in Seq(S)
  PROVE  /\ s \o r \in Seq(S)
         /\ Len(s) \in Nat /\ Len(r) \in Nat /\ Len(s \o r) = Len(s) + Len(r)
         /\ \A i \in 1 .. Len(s) : (s \o r)[i] = s[i]
         /\ \A i \in 1 .. Len(r) : (s \o r)[Len(s) + i] = r[i]
<1>1. Len(s) \in Nat /\ Len(r) \in Nat
  OBVIOUS
<1>2. /\ s \o r \in Seq(S) /\ Len(s \o r) = Len(s) + Len(r)
      /\ \A i \in 1 .. Len(s) + Len(r) :
           (s \o r)[i] = IF i <= Len(s) THEN s[i] ELSE r[i - Len(s)]
  BY ConcatProperties
<1> DEFINE c == s \o r
<1> HIDE DEF c
<1>3. \A i \in 1 .. Len(s) + Len(r) : c[i] = IF i <= Len(s) THEN s[i] ELSE r[i - Len(s)]
  BY <1>2 DEF c
<1>4. \A i \in 1 .. Len(s) : c[i] = s[i]
  BY <1>1, <1>3
<1>5. ASSUME NEW i \in 1 .. Len(r) PROVE c[Len(s) + i] = r[i]
  <2>1. Len(s) + i \in 1 .. Len(s) + Len(r) /\ ~(Len(s) + i <= Len(s)) /\ (Len(s) + i) - Len(s) = i
    BY <1>1
  <2>2. QED
    BY <1>3, <2>1
<1>6. QED
  BY <1>1, <1>2, <1>4, <1>5 DEF c

LEMMA SubSeqFacts ==
  ASSUME NEW S, NEW s \in Seq(S), NEW k \in Nat, NEW n \in Nat, k + n <= Len(s)
  PROVE  /\ SubSeq(s, k + 1, k + n) \in Seq(S)
         /\ Len(SubSeq(s, k + 1, k + n)) = n
         /\ \A i \in 1 .. n : SubSeq(s, k + 1, k + n)[i] = s[k + i]
<1>1. \A i \in k + 1 .. k + n : s[i] \in S
  OBVIOUS
<1> DEFINE t == SubSeq(s, k + 1, k + n)
<1>2. /\ t \in Seq(S) /\ Len(t) = IF k + 1 <= k + n THEN k + n - (k + 1) + 1 ELSE 0
      /\ \A i \in 1 .. k + n - (k + 1) + 1 : t[i] = s[k + 1 + i - 1]
  BY <1>1, SubSeqProperties
<1> HIDE DEF t
<1>3. t \in Seq(S) /\ Len(t) = n
  BY <1>2
<1>4. ASSUME NEW i \in 1 .. n PROVE t[i] = s[k + i]
  <2>1. i \in 1 .. k + n - (k + 1) + 1 /\ k + 1 + i - 1 = k + i
    OBVIOUS
  <2>2. QED
    BY <1>2, <2>1
<1>5. QED
  BY <1>3, <1>4 DEF t

LEMMA PrefixFacts ==
  ASSUME NEW S, NEW s \in Seq(S), NEW n \in Nat, n <= Len(s)
  PROVE  /\ SubSeq(s, 1, n) \in Seq(S)
         /\ Len(SubSeq(s, 1, n)) = n
         /\ \A i \in 1 .. n : SubSeq(s, 1, n)[i] = s[i]
<1>1. /\ SubSeq(s, 0 + 1, 0 + n) \in Seq(S)
      /\ Len(SubSeq(s, 0 + 1, 0 + n)) = n
      /\ \A i \in 1 .. n : SubSeq(s, 0 + 1, 0 + n)[i] = s[0 + i]
  BY SubSeqFacts
<1>2. SubSeq(s, 0 + 1, 0 + n) = SubSeq(s, 1, n) /\ \A i \in 1 .. n : 0 + i = i
  OBVIOUS
<1>3. QED
  BY <1>1, <1>2

\* s stands in t, behind its first k elements.
Part(s, t, k) == k + Len(s) <= Len(t) /\ \A i \in 1 .. Len(s) : s[i] = t[k + i]

LEMMA PartSubSeq ==
  ASSUME NEW S, NEW t \in Seq(S), NEW k \in Nat, NEW n \in Nat, k + n <= Len(t)
  PROVE  Part(SubSeq(t, k + 1, k + n), t, k)
BY SubSeqFacts DEF Part

LEMMA PartPrefix ==
  ASSUME NEW S, NEW s \in Seq(S), NEW t \in Seq(S), NEW k \in Nat, NEW n \in Nat,
         n <= Len(s), Part(s, t, k)
  PROVE  Part(SubSeq(s, 1, n), t, k)
<1>1. Len(s) \in Nat /\ Len(t) \in Nat
  OBVIOUS
<1> DEFINE p == SubSeq(s, 1, n)
<1>2. Len(p) = n /\ \A i \in 1 .. n : p[i] = s[i]
  BY PrefixFacts
<1> HIDE DEF p
<1>3. Part(p, t, k)
  <2>1. k + n <= Len(t)
    BY <1>1 DEF Part
  <2>2. \A i \in 1 .. n : p[i] = t[k + i]
    BY <1>1, <1>2 DEF Part
  <2>3. QED
    BY <1>2, <2>1, <2>2 DEF Part
<1>4. QED
  BY <1>3 DEF p

LEMMA PartConcat ==
  ASSUME NEW S, NEW s \in Seq(S), NEW r \in Seq(S), NEW t \in Seq(S), NEW k \in Nat,
         Part(s, t, k), Part(r, t, k + Len(s))
  PROVE  Part(s \o r, t, k)
<1> DEFINE c == s \o r
<1>1. /\ Len(s) \in Nat /\ Len(r) \in Nat /\ Len(c) = Len(s) + Len(r)
      /\ \A i \in 1 .. Len(s) : c[i] = s[i]
      /\ \A i \in 1 .. Len(r) : c[Len(s) + i] = r[i]
  BY ConcatFacts
<1> HIDE DEF c
<1>2. k + Len(c) <= Len(t)
  <2>1. Len(t) \in Nat /\ (k + Len(s)) + Len(r) <= Len(t)
    BY DEF Part
  <2>2. QED
    BY <1>1, <2>1
<1>3. ASSUME NEW i \in 1 .. Len(c) PROVE c[i] = t[k + i]
  <2>1. CASE i <= Len(s)
    <3>1. i \in 1 .. Len(s)
      BY <1>1, <2>1
    <3>2. QED
      BY <1>1, <3>1 DEF Part
  <2>2. CASE i > Len(s)
    <3>1. i - Len(s) \in 1 .. Len(r) /\ Len(s) + (i - Len(s)) = i
          /\ (k + Len(s)) + (i - Len(s)) = k + i
      BY <1>1, <2>2
    <3>2. r[i - Len(s)] = t[(k + Len(s)) + (i - Len(s))]
      BY <3>1 DEF Part
    <3>3. c[Len(s) + (i - Len(s))] = r[i - Len(s)]
      BY <1>1, <3>1
    <3>4. QED
      BY <3>1, <3>2, <3>3
  <2>3. QED
    BY <1>1, <2>1, <2>2
<1>4. QED
  BY <1>2, <1>3 DEF Part, c

LEMMA PartGrows ==
  ASSUME NEW S, NEW s \in Seq(S), NEW t \in Seq(S), NEW u \in Seq(S), NEW k \in Nat,
         Part(s, t, k)
  PROVE  Part(s, t \o u, k)
<1> DEFINE c == t \o u
<1>1. /\ Len(t) \in Nat /\ Len(u) \in Nat /\ Len(s) \in Nat /\ Len(c) = Len(t) + Len(u)
      /\ \A i \in 1 .. Len(t) : c[i] = t[i]
  BY ConcatFacts
<1> HIDE DEF c
<1>2. Part(s, c, k)
  <2>1. k + Len(s) <= Len(c)
    BY <1>1 DEF Part
  <2>2. \A i \in 1 .. Len(s) : k + i \in 1 .. Len(t)
    BY <1>1 DEF Part
  <2>3. QED
    BY <1>1, <2>1, <2>2 DEF Part
<1>3. QED
  BY <1>2 DEF c

LEMMA PartEqual ==
  ASSUME NEW S, NEW s \in Seq(S), NEW t \in Seq(S), NEW k \in Nat, Part(s, t, k)
  PROVE  s = SubSeq(t, k + 1, k + Len(s))
<1> DEFINE p == SubSeq(t, k + 1, k + Len(s))
<1>1. Len(s) \in Nat /\ k + Len(s) <= Len(t)
  BY DEF Part
<1>2. p \in Seq(S) /\ Len(p) = Len(s) /\ \A i \in 1 .. Len(s) : p[i] = t[k + i]
  BY <1>1, SubSeqFacts
<1> HIDE DEF p
<1>3. \A i \in 1 .. Len(s) : s[i] = p[i]
  BY <1>2 DEF Part
<1>4. s = p
  BY <1>2, <1>3, SeqEqual
<1>5. QED
  BY <1>4 DEF p
-----------------------------------------------------------------------------
(* Numbers                                                                   *)

LEMMA ProductsGrow ==
  ASSUME NEW a \in Int, NEW b \in Int, NEW c \in Nat, a <= b
  PROVE  a * c <= b * c
OBVIOUS

\* Whole milliseconds of m microseconds, of which at least r are asked for.
LEMMA WholeMilliseconds ==
  ASSUME NEW s \in Int, NEW v \in Int, NEW m \in Int, NEW w \in 0 .. 999,
         NEW r \in Int, NEW t \in Int, NEW value, value = s * 1000 + v,
         m = 1000 * v + w, 1000 * r <= m, m < 1000 * r + t
  PROVE  value >= 1000 * s + r /\ 1000 * (value - (1000 * s + r)) < t
OBVIOUS

\* Quotient and remainder are what they should be.
LEMMA DivMod ==
  ASSUME NEW n \in Int, NEW d \in Nat \ {0}
  PROVE  /\ n \div d \in Int /\ n % d \in 0 .. d - 1
         /\ n = d * (n \div d) + (n % d)
OBVIOUS

\* n is d taken q times, and r.
Splits(n, d, q, r) ==
  d \in Nat \ {0} /\ q \in Int /\ r \in 0 .. d - 1 /\ n \in Int /\ n = d * q + r

LEMMA DivModUnique ==
  ASSUME NEW n, NEW d, NEW q, NEW r, Splits(n, d, q, r)
  PROVE  n \div d = q /\ n % d = r
<1> SUFFICES ASSUME d \in Nat \ {0}, q \in Int, r \in 0 .. d - 1, n \in Int, n = d * q + r
             PROVE  n \div d = q /\ n % d = r
  BY DEF Splits
<1> DEFINE p == n \div d
           t == n % d
<1>2. p \in Int /\ t \in 0 .. d - 1 /\ n = d * p + t
  BY DivMod
<1> HIDE DEF p, t
<1>3. d * q + r = d * p + t
  BY <1>2
<1>4. CASE p <= q - 1
  <2>1. p * d <= (q - 1) * d
    BY <1>2, <1>4, ProductsGrow
  <2>2. (q - 1) * d = d * q - d /\ p * d = d * p
    BY <1>2
  <2>3. QED
    BY <1>2, <1>3, <2>1, <2>2
<1>5. CASE q <= p - 1
  <2>1. q * d <= (p - 1) * d
    BY <1>2, <1>5, ProductsGrow
  <2>2. (p - 1) * d = d * p - d /\ q * d = d * q
    BY <1>2
  <2>3. QED
    BY <1>2, <1>3, <2>1, <2>2
<1>6. p = q
  BY <1>2, <1>4, <1>5
<1>7. QED
  BY <1>2, <1>3, <1>6 DEF p, t

\* Division that rounds up.
Ceil(u, t) == (u + t - 1) \div t

LEMMA RoundedUp ==
  ASSUME NEW u \in Nat, NEW t \in Nat \ {0}
  PROVE  Ceil(u, t) \in Nat /\ u <= Ceil(u, t) * t /\ Ceil(u, t) * t < u + t
<1> DEFINE n == u + t - 1
           q == n \div t
<1>1. n \in Nat
  OBVIOUS
<1> HIDE DEF n
<1>2. q \in Int /\ n % t \in 0 .. t - 1 /\ n = t * q + (n % t)
  BY <1>1, DivMod
<1> HIDE DEF q
<1>3. t * q = q * t /\ n - (t - 1) <= q * t /\ q * t <= n
  BY <1>1, <1>2
<1>4. q \in Nat
  <2>1. CASE q <= -1
    <3>1. q * t <= (-1) * t
      BY <1>2, <2>1, ProductsGrow
    <3>2. (-1) * t = -t
      OBVIOUS
    <3>3. q * t \in Int
      BY <1>2
    <3>4. QED
      BY <1>1, <1>3, <3>1, <3>2, <3>3
  <2>2. QED
    BY <1>2, <2>1
<1>5. QED
  BY <1>3, <1>4 DEF n, q, Ceil
-----------------------------------------------------------------------------
(* Lines                                                                     *)

Chars == Letters \cup {Delimiter}
Call == [at : {"idle", "peek", "read"}, size : Nat, buffer : Seq(Chars),
         read : Nat, peeked : Nat, searched : Nat, found : BOOLEAN]

\* What a call has in its buffer stands in the stream, behind the bytes that
\* were handed over before.
Fits(now) ==
  /\ now \in Call
  /\ now.read <= now.searched /\ now.searched <= now.peeked
  /\ now.peeked <= now.size
  /\ Len(now.buffer) = now.peeked
  /\ Part(now.buffer, stream, Len(handed))

\* The first n bytes of s have no delimiter.
Plain(s, n) == \A i \in 1 .. n : s[i] # Delimiter

\* The search has missed no delimiter.
Searched(now) ==
  IF now.found
    THEN /\ now.searched > 0 /\ now.buffer[now.searched] = Delimiter
         /\ Plain(now.buffer, now.searched - 1)
    ELSE now.searched = now.peeked /\ Plain(now.buffer, now.searched)

\* Between two calls, or before a peek, all that was peeked has been read.
CaughtUp(now) ==
  /\ now.at \in {"idle", "peek"} => now.read = now.peeked /\ ~now.found
  /\ now.at = "idle" => now = NoCall

LineInv ==
  /\ stream \in Seq(Chars) /\ handed \in Seq(Chars)
  /\ Part(handed, stream, 0)
  /\ taken = Len(handed) + line.read
  /\ Fits(line) /\ Searched(line) /\ CaughtUp(line)
  /\ ResultHonest

LEMMA NoCallFacts ==
  /\ NoCall \in Call /\ NoCall.at = "idle" /\ NoCall.size = 0 /\ NoCall.buffer = <<>>
  /\ NoCall.read = 0 /\ NoCall.peeked = 0 /\ NoCall.searched = 0 /\ NoCall.found = FALSE
BY DEF NoCall, Call

LEMMA EmptyPart ==
  ASSUME NEW k \in Nat, NEW t, k <= Len(t)
  PROVE  Part(<<>>, t, k)
BY DEF Part

LEMMA NoCallFits ==
  ASSUME stream \in Seq(Chars), handed \in Seq(Chars), Part(handed, stream, 0)
  PROVE  Fits(NoCall) /\ Searched(NoCall) /\ CaughtUp(NoCall)
<1>1. Len(handed) \in Nat /\ Len(handed) <= Len(stream)
  BY DEF Part
<1>2. Part(<<>>, stream, Len(handed)) /\ Len(<<>>) = 0
  BY <1>1, EmptyPart
<1>3. QED
  BY <1>2, NoCallFacts DEF Fits, Searched, Plain, CaughtUp

\* The call returns the bytes it has read, and is gone.
LEMMA ReturnsKeep ==
  ASSUME LineInv, NEW now \in Call, NEW sts, LineReturns(sts, now), stream' = stream,
         taken' = Len(handed) + now.read, now.read <= Len(now.buffer),
         Part(now.buffer, stream, Len(handed)),
         sts = "success" => /\ now.read > 0 /\ now.buffer[now.read] = Delimiter
                            /\ Plain(now.buffer, now.read - 1),
         sts # "success" => Plain(now.buffer, now.read),
         sts = "again" => now.read = now.size
  PROVE  LineInv'
<1> DEFINE data == SubSeq(now.buffer, 1, now.read)
<1>1. now.buffer \in Seq(Chars) /\ now.read \in Nat /\ now.size \in Nat
  BY DEF Call
<1>2. stream \in Seq(Chars) /\ handed \in Seq(Chars) /\ Len(handed) \in Nat
      /\ Part(handed, stream, 0)
  BY DEF LineInv
<1>3. /\ data \in Seq(Chars) /\ Len(data) = now.read
      /\ \A i \in 1 .. now.read : data[i] = now.buffer[i]
      /\ Part(data, stream, Len(handed))
  BY <1>1, <1>2, PrefixFacts, PartPrefix
<1>4. line' = NoCall /\ handed' = handed \o data
      /\ result' = [sts |-> sts, data |-> data, size |-> now.size]
  BY DEF LineReturns
<1> HIDE DEF data
<1>5. Len(handed \o data) = Len(handed) + now.read /\ handed \o data \in Seq(Chars)
  <2>1. data \in Seq(Chars) /\ handed \in Seq(Chars) /\ Len(data) = now.read
    BY <1>2, <1>3
  <2>2. handed \o data \in Seq(Chars) /\ Len(handed \o data) = Len(handed) + Len(data)
    BY <2>1, ConcatFacts, Zenon
  <2>3. QED
    BY <2>1, <2>2
<1>6. Part(handed \o data, stream, 0)
  <2>1. Part(data, stream, 0 + Len(handed))
    BY <1>2, <1>3
  <2>2. QED
    BY <1>2, <1>3, <2>1, PartConcat
<1>7. ResultHonest'
  <2>1. result'.sts = sts /\ result'.data = data /\ result'.size = now.size
    BY <1>4
  <2>2. CASE sts = "success"
    <3> DEFINE p == SubSeq(data, 1, Len(data) - 1)
    <3>1. Len(data) > 0 /\ data[Len(data)] = Delimiter /\ Plain(data, Len(data) - 1)
      <4>1. /\ now.read > 0 /\ now.buffer[now.read] = Delimiter
            /\ \A i \in 1 .. now.read - 1 : now.buffer[i] # Delimiter
        BY <2>2 DEF Plain
      <4>2. now.read \in 1 .. now.read /\ \A i \in 1 .. now.read - 1 : i \in 1 .. now.read
        BY <1>1, <4>1
      <4>3. \A i \in 1 .. Len(data) - 1 : data[i] # Delimiter
        BY <1>3, <4>1, <4>2
      <4>4. QED
        BY <1>3, <4>1, <4>2, <4>3 DEF Plain
    <3>2. Len(data) - 1 \in Nat /\ Len(data) - 1 <= Len(data)
      BY <1>1, <1>3, <3>1
    <3>3. Len(p) = Len(data) - 1 /\ \A i \in 1 .. Len(data) - 1 : p[i] = data[i]
      BY <1>3, <3>2, PrefixFacts
    <3> HIDE DEF p
    <3>4. ~HasDelimiter(p)
      BY <3>1, <3>3 DEF HasDelimiter, Plain
    <3>5. QED
      BY <2>1, <2>2, <3>1, <3>4 DEF ResultHonest, p
  <2>3. CASE sts # "success"
    <3>1. ~HasDelimiter(data)
      BY <1>3, <2>3 DEF HasDelimiter, Plain
    <3>2. QED
      BY <1>3, <2>1, <2>3, <3>1 DEF ResultHonest
  <2>4. QED
    BY <2>2, <2>3
<1>8. (Fits(line) /\ Searched(line) /\ CaughtUp(line))'
  <2>1. Len(handed') \in Nat /\ Len(handed') <= Len(stream')
    BY <1>1, <1>2, <1>4, <1>5, <1>6 DEF Part
  <2>2. Part(<<>>, stream', Len(handed')) /\ Len(<<>>) = 0
    BY <2>1, EmptyPart
  <2>3. QED
    BY <1>4, <2>2, NoCallFacts DEF Fits, Searched, Plain, CaughtUp
<1>9. taken' = Len(handed') + line'.read
  BY <1>1, <1>2, <1>4, <1>5, NoCallFacts
<1>10. QED
  BY <1>2, <1>4, <1>5, <1>6, <1>7, <1>8, <1>9 DEF LineInv

LEMMA ArrivesKeeps ==
  ASSUME LineInv, ByteArrives
  PROVE  LineInv'
<1>1. PICK b \in Chars : stream' = Append(stream, b)
  BY DEF ByteArrives, Chars
<1>2. UNCHANGED <<taken, line, handed, result>>
  BY DEF ByteArrives
<1>3. stream \in Seq(Chars) /\ handed \in Seq(Chars) /\ line.buffer \in Seq(Chars)
      /\ Len(handed) \in Nat /\ <<b>> \in Seq(Chars)
  BY DEF LineInv, Fits, Call
<1>4. stream' = stream \o <<b>> /\ stream' \in Seq(Chars)
  BY <1>1, <1>3, AppendIsConcat, ConcatFacts
<1>5. Part(handed, stream', 0) /\ Part(line.buffer, stream', Len(handed))
  BY <1>3, <1>4, PartGrows DEF LineInv, Fits
<1>6. Fits(line)'
  BY <1>2, <1>5 DEF LineInv, Fits
<1>7. ResultHonest' /\ Searched(line)' /\ CaughtUp(line)'
  BY <1>2 DEF LineInv, ResultHonest, Searched, Plain, CaughtUp
<1>8. QED
  BY <1>2, <1>4, <1>5, <1>6, <1>7 DEF LineInv

LEMMA CallKeeps ==
  ASSUME LineInv, LineCall
  PROVE  LineInv'
<1>1. line = NoCall /\ UNCHANGED <<stream, taken>>
  BY DEF LineCall, LineInv, CaughtUp
<1>2. PICK size \in BufferSizes :
        IF size = 0 THEN LineReturns("invalid_argument", NoCall)
        ELSE line' = [NoCall EXCEPT !.at = "peek", !.size = size] /\ UNCHANGED <<handed, result>>
  BY DEF LineCall
<1>3. size \in Nat /\ Len(<<>>) = 0 /\ Part(<<>>, stream, Len(handed)) /\ taken = Len(handed) + 0
  BY <1>1, LineAssumption, NoCallFacts DEF LineInv, Fits
<1>4. CASE size = 0
  <2>1. LineReturns("invalid_argument", NoCall)
    BY <1>2, <1>4
  <2>2. Plain(NoCall.buffer, NoCall.read)
    BY NoCallFacts DEF Plain
  <2>3. QED
    BY <1>1, <1>3, <2>1, <2>2, NoCallFacts, ReturnsKeep
<1>5. CASE size # 0
  <2>1. /\ line' \in Call /\ line'.at = "peek" /\ line'.size = size /\ line'.buffer = <<>>
        /\ line'.read = 0 /\ line'.peeked = 0 /\ line'.searched = 0 /\ line'.found = FALSE
    <3>1. line' = [NoCall EXCEPT !.at = "peek", !.size = size]
      BY <1>2, <1>5
    <3>2. size \in Nat /\ <<>> \in Seq(Chars)
      BY <1>3
    <3>3. QED
      BY <3>1, <3>2 DEF NoCall, Call
  <2>2. UNCHANGED <<handed, result>>
    BY <1>2, <1>5
  <2>3. Fits(line)' /\ Searched(line)' /\ CaughtUp(line)'
    BY <1>1, <1>3, <2>1, <2>2 DEF Fits, Searched, Plain, CaughtUp
  <2>4. ResultHonest'
    BY <2>2 DEF LineInv, ResultHonest
  <2>5. QED
    BY <1>1, <1>3, <2>1, <2>2, <2>3, <2>4 DEF LineInv
<1>6. QED
  BY <1>4, <1>5

\* The bytes behind those that have been read.
LEMMA CopiedFacts ==
  ASSUME LineInv, NEW n \in Nat, taken + n <= Len(stream)
  PROVE  /\ Copied(line, n).buffer \in Seq(Chars)
         /\ Len(Copied(line, n).buffer) = line.read + n
         /\ \A i \in 1 .. line.read : Copied(line, n).buffer[i] = line.buffer[i]
         /\ Part(Copied(line, n).buffer, stream, Len(handed))
         /\ Copied(line, n) = [line EXCEPT !.buffer = Copied(line, n).buffer]
<1> DEFINE left == SubSeq(line.buffer, 1, line.read)
           right == SubSeq(stream, taken + 1, taken + n)
<1>1. /\ line \in Call /\ line.buffer \in Seq(Chars) /\ line.read \in Nat /\ stream \in Seq(Chars)
      /\ Len(handed) \in Nat /\ taken = Len(handed) + line.read /\ taken \in Nat
      /\ line.read <= Len(line.buffer) /\ Part(line.buffer, stream, Len(handed))
  BY DEF LineInv, Fits, Call
<1>2. Copied(line, n).buffer = left \o right
      /\ Copied(line, n) = [line EXCEPT !.buffer = Copied(line, n).buffer]
  BY <1>1 DEF Copied, Call
<1>3. /\ left \in Seq(Chars) /\ Len(left) = line.read /\ Part(left, stream, Len(handed))
      /\ \A i \in 1 .. line.read : left[i] = line.buffer[i]
  BY <1>1, PrefixFacts, PartPrefix
<1>4. right \in Seq(Chars) /\ Len(right) = n /\ Part(right, stream, taken)
  <2>1. stream \in Seq(Chars) /\ taken \in Nat /\ n \in Nat /\ taken + n <= Len(stream)
    BY <1>1
  <2>2. QED
    BY <2>1, SubSeqFacts, PartSubSeq, Zenon
<1> HIDE DEF left, right
<1>5. /\ left \o right \in Seq(Chars) /\ Len(left \o right) = line.read + n
      /\ \A i \in 1 .. line.read : (left \o right)[i] = left[i]
  <2>1. /\ left \o right \in Seq(Chars) /\ Len(left \o right) = Len(left) + Len(right)
        /\ \A i \in 1 .. Len(left) : (left \o right)[i] = left[i]
    BY <1>3, <1>4, ConcatFacts, Zenon
  <2>2. Len(left) = line.read /\ Len(right) = n
    BY <1>3, <1>4
  <2>3. QED
    BY <2>1, <2>2
<1>6. Part(right, stream, Len(handed) + Len(left))
  BY <1>1, <1>3, <1>4
<1>7. Part(left \o right, stream, Len(handed))
  BY <1>1, <1>3, <1>4, <1>6, PartConcat
<1>8. QED
  BY <1>2, <1>3, <1>5, <1>7

LEMMA SearchFacts ==
  ASSUME NEW now \in Call, now.searched <= now.peeked, Plain(now.buffer, now.searched)
  PROVE  /\ Search(now) \in Call /\ Search(now).at = "read"
         /\ Search(now).size = now.size /\ Search(now).buffer = now.buffer
         /\ Search(now).read = now.read /\ Search(now).peeked = now.peeked
         /\ Search(now).searched >= now.searched
         /\ Search(now).searched <= now.peeked
         /\ Searched(Search(now))
<1> DEFINE hits == {i \in now.searched + 1 .. now.peeked : now.buffer[i] = Delimiter}
           least == CHOOSE i \in hits : \A j \in hits : i <= j
           s == IF hits = {} THEN now.peeked ELSE least
           f == hits # {}
<1>1. now.searched \in Nat /\ now.peeked \in Nat
  BY DEF Call
<1>2. hits # {} => least \in hits /\ \A j \in hits : least <= j
  <2>1. hits \in SUBSET Nat
    BY <1>1
  <2> HIDE DEF hits
  <2>2. hits # {} => \E i \in hits : \A j \in hits : i <= j
    BY <2>1, LeastElement
  <2>3. QED
    BY <2>2
<1> HIDE DEF least
<1>3. CASE hits = {}
  <2>1. Search(now) = [now EXCEPT !.at = "read", !.found = FALSE, !.searched = now.peeked]
    BY <1>3 DEF Search
  <2>2. /\ Search(now) \in Call /\ Search(now).at = "read"
        /\ Search(now).size = now.size /\ Search(now).buffer = now.buffer
        /\ Search(now).read = now.read /\ Search(now).peeked = now.peeked
        /\ Search(now).searched = now.peeked /\ Search(now).found = FALSE
    BY <1>1, <2>1 DEF Call
  <2>3. ASSUME NEW i \in 1 .. now.peeked PROVE now.buffer[i] # Delimiter
    <3>1. CASE i <= now.searched
      BY <1>1, <3>1 DEF Plain
    <3>2. CASE i > now.searched
      <4>1. i \in now.searched + 1 .. now.peeked
        BY <1>1, <3>2
      <4>2. QED
        BY <1>3, <4>1
    <3>3. QED
      BY <1>1, <3>1, <3>2
  <2>4. Searched(Search(now))
    BY <2>2, <2>3 DEF Searched, Plain
  <2>5. QED
    BY <1>1, <2>2, <2>4
<1>4. CASE hits # {}
  <2>0. least \in now.searched + 1 .. now.peeked /\ now.buffer[least] = Delimiter
        /\ least \in Nat
    BY <1>1, <1>2, <1>4
  <2>1. Search(now) = [now EXCEPT !.at = "read", !.found = TRUE, !.searched = least]
    BY <1>4 DEF Search, least
  <2>2. /\ Search(now) \in Call /\ Search(now).at = "read"
        /\ Search(now).size = now.size /\ Search(now).buffer = now.buffer
        /\ Search(now).read = now.read /\ Search(now).peeked = now.peeked
        /\ Search(now).searched = least /\ Search(now).found = TRUE
    BY <2>0, <2>1 DEF Call
  <2>3. ASSUME NEW i \in 1 .. least - 1 PROVE now.buffer[i] # Delimiter
    <3>1. CASE i <= now.searched
      BY <1>1, <3>1 DEF Plain
    <3>2. CASE i > now.searched
      <4>1. i \in now.searched + 1 .. now.peeked /\ ~(least <= i)
        BY <1>1, <2>0, <3>2
      <4>2. i \notin hits
        BY <1>2, <1>4, <4>1
      <4>3. QED
        BY <4>1, <4>2
    <3>3. QED
      BY <1>1, <2>0, <3>1, <3>2
  <2>4. least > 0 /\ Plain(now.buffer, least - 1)
    BY <1>1, <2>0, <2>3 DEF Plain
  <2>5. Searched(Search(now))
    BY <2>0, <2>2, <2>4 DEF Searched
  <2>6. QED
    BY <1>1, <2>0, <2>2, <2>5
<1>5. QED
  BY <1>3, <1>4

LEMMA PeekKeeps ==
  ASSUME LineInv, Peek
  PROVE  LineInv'
<1>1. /\ line.at = "peek" /\ UNCHANGED <<stream, taken>>
      /\ \/ \E n \in Nat \ {0} :
              /\ n <= Len(stream) - taken /\ n <= line.size - line.read
              /\ line' = Search([Copied(line, n) EXCEPT !.peeked = @ + n])
              /\ UNCHANGED <<handed, result>>
         \/ \E sts \in {"not_connected", "unknown", "timed_out"} : LineReturns(sts, line)
  <2>1. Len(stream) \in Nat /\ taken \in Nat /\ line.size \in Nat /\ line.read \in Nat
    BY DEF LineInv, Fits, Call
  <2> DEFINE room == line.size - line.read
             there == Len(stream) - taken
             bound == IF there < room THEN there ELSE room
  <2>2. room \in Int /\ there \in Int
    BY <2>1
  <2> HIDE DEF room, there
  <2>3. \A n \in 1 .. bound : n \in Nat \ {0} /\ n <= there /\ n <= room
    BY <2>2
  <2>4. QED
    BY <2>3 DEF Peek, room, there
<1>2. /\ line \in Call /\ line.read = line.peeked /\ line.searched = line.peeked
      /\ line.size \in Nat /\ line.peeked \in Nat /\ taken = Len(handed) + line.peeked
      /\ Len(handed) \in Nat /\ Len(stream) \in Nat /\ taken \in Nat
      /\ line.peeked <= line.size /\ Len(line.buffer) = line.peeked
      /\ Part(line.buffer, stream, Len(handed)) /\ Plain(line.buffer, line.peeked)
  BY <1>1 DEF LineInv, Fits, Searched, CaughtUp, Call
<1>3. CASE \E sts \in {"not_connected", "unknown", "timed_out"} : LineReturns(sts, line)
  <2>1. PICK sts \in {"not_connected", "unknown", "timed_out"} : LineReturns(sts, line)
    BY <1>3
  <2>2. line.read <= Len(line.buffer) /\ taken' = Len(handed) + line.read
        /\ Plain(line.buffer, line.read)
    BY <1>1, <1>2
  <2>3. QED
    BY <1>1, <1>2, <2>1, <2>2, ReturnsKeep
<1>4. ASSUME NEW n \in Nat \ {0}, n <= Len(stream) - taken, n <= line.size - line.read,
             line' = Search([Copied(line, n) EXCEPT !.peeked = @ + n]),
             UNCHANGED <<handed, result>>
      PROVE  LineInv'
  <2> DEFINE b == Copied(line, n).buffer
             now == [Copied(line, n) EXCEPT !.peeked = @ + n]
  <2>1. n \in Nat /\ taken + n <= Len(stream) /\ line.peeked + n <= line.size
    BY <1>2, <1>4
  <2>2. /\ b \in Seq(Chars) /\ Len(b) = line.read + n
        /\ \A i \in 1 .. line.read : b[i] = line.buffer[i]
        /\ Part(b, stream, Len(handed))
        /\ Copied(line, n) = [line EXCEPT !.buffer = b]
    BY <2>1, CopiedFacts
  <2> HIDE DEF b
  <2>3. /\ now \in Call /\ now.at = line.at /\ now.size = line.size /\ now.buffer = b
        /\ now.read = line.peeked /\ now.peeked = line.peeked + n
        /\ now.searched = line.peeked
    <3> DEFINE old == Copied(line, n)
    <3>1. old \in Call /\ old = [line EXCEPT !.buffer = b]
      BY <1>2, <2>2 DEF Call
    <3>2. /\ old.at = line.at /\ old.size = line.size /\ old.buffer = b
          /\ old.read = line.read /\ old.peeked = line.peeked
          /\ old.searched = line.searched /\ old.found = line.found
      BY <1>2, <3>1 DEF Call
    <3> HIDE DEF old
    <3>3. now = [old EXCEPT !.peeked = line.peeked + n] /\ line.peeked + n \in Nat
      BY <1>2, <2>1, <3>2 DEF old
    <3> HIDE DEF now
    <3>4. QED
      BY <1>2, <3>1, <3>2, <3>3 DEF Call
  <2> HIDE DEF now
  <2>4. Plain(now.buffer, now.searched) /\ now.searched <= now.peeked
    <3>1. \A i \in 1 .. line.peeked : b[i] # Delimiter
      BY <1>2, <2>2 DEF Plain
    <3>2. QED
      BY <1>2, <2>1, <2>3, <3>1 DEF Plain
  <2>5. line' = Search(now)
    BY <1>4 DEF now
  <2>6. /\ line' \in Call /\ line'.at = "read" /\ line'.size = now.size
        /\ line'.buffer = now.buffer /\ line'.read = now.read /\ line'.peeked = now.peeked
        /\ line'.searched >= now.searched /\ line'.searched <= now.peeked
        /\ Searched(line')
    BY <2>3, <2>4, <2>5, SearchFacts
  <2>7. Fits(line)'
    BY <1>1, <1>2, <1>4, <2>1, <2>2, <2>3, <2>6 DEF Fits
  <2>8. Searched(line)'
    BY <2>6 DEF Searched, Plain
  <2>9. ResultHonest' /\ CaughtUp(line)'
    BY <1>4, <2>6 DEF LineInv, ResultHonest, CaughtUp
  <2>10. QED
    BY <1>1, <1>2, <1>4, <2>3, <2>6, <2>7, <2>8, <2>9 DEF LineInv
<1>5. QED
  BY <1>1, <1>3, <1>4

LEMMA CatchUpKeeps ==
  ASSUME LineInv, CatchUp
  PROVE  LineInv'
<1> DEFINE n == line.searched - line.read
           b == Copied(line, n).buffer
           now == [Copied(line, n) EXCEPT !.read = line.searched]
<1>1. /\ line.at = "read" /\ taken' = taken + n /\ stream' = stream
      /\ IF now.found THEN LineReturns("success", now)
         ELSE IF now.read = now.size THEN LineReturns("again", now)
         ELSE line' = [now EXCEPT !.at = "peek"] /\ UNCHANGED <<handed, result>>
  BY DEF CatchUp
<1>2. /\ line \in Call /\ line.read \in Nat /\ line.searched \in Nat /\ line.peeked \in Nat
      /\ line.size \in Nat /\ line.found \in BOOLEAN
      /\ taken = Len(handed) + line.read /\ Len(handed) \in Nat /\ Len(stream) \in Nat
      /\ line.read <= line.searched /\ line.searched <= line.peeked
      /\ line.peeked <= line.size /\ Len(line.buffer) = line.peeked
      /\ Len(handed) + line.peeked <= Len(stream)
      /\ Part(line.buffer, stream, Len(handed))
      /\ Searched(line)
  BY DEF LineInv, Fits, Call, Part
<1>3. n \in Nat /\ taken + n <= Len(stream) /\ line.read + n = line.searched
      /\ taken + n = Len(handed) + line.searched
  <2> DEFINE a == line.read
             z == line.searched
             p == line.peeked
             h == Len(handed)
             m == Len(stream)
  <2>1. a \in Nat /\ z \in Nat /\ p \in Nat /\ h \in Nat /\ m \in Nat
        /\ taken = h + a /\ a <= z /\ z <= p /\ h + p <= m /\ n = z - a
    BY <1>2
  <2> HIDE DEF a, z, p, h, m, n
  <2>2. n \in Nat /\ taken + n <= m /\ a + n = z /\ taken + n = h + z
    BY <2>1
  <2>3. QED
    BY <2>2 DEF a, z, p, h, m
<1> HIDE DEF n
<1>4. /\ b \in Seq(Chars) /\ Len(b) = line.searched
      /\ Part(b, stream, Len(handed))
      /\ Copied(line, n) = [line EXCEPT !.buffer = b]
  BY <1>3, CopiedFacts
<1> HIDE DEF b
<1>5. \A i \in 1 .. line.searched : b[i] = line.buffer[i]
  BY <1>2, <1>4 DEF Part
<1>6. /\ now \in Call /\ now.size = line.size /\ now.buffer = b
      /\ now.read = line.searched /\ now.peeked = line.peeked
      /\ now.searched = line.searched /\ now.found = line.found
  BY <1>2, <1>4 DEF Call
<1> HIDE DEF now
<1>7. taken' = Len(handed) + now.read /\ now.read <= Len(now.buffer)
      /\ Part(now.buffer, stream, Len(handed))
  BY <1>1, <1>2, <1>3, <1>4, <1>6
<1>8. CASE line.found
  <2>1. /\ now.read > 0 /\ now.buffer[now.read] = Delimiter
        /\ Plain(now.buffer, now.read - 1)
    <3>1. /\ line.searched > 0 /\ line.buffer[line.searched] = Delimiter
          /\ \A i \in 1 .. line.searched - 1 : line.buffer[i] # Delimiter
      BY <1>2, <1>8 DEF Searched, Plain
    <3>2. /\ line.searched \in 1 .. line.searched
          /\ \A i \in 1 .. line.searched - 1 : i \in 1 .. line.searched
      BY <1>2, <3>1
    <3>3. /\ b[line.searched] = Delimiter
          /\ \A i \in 1 .. line.searched - 1 : b[i] # Delimiter
      BY <1>5, <3>1, <3>2
    <3>4. QED
      BY <1>6, <3>1, <3>3 DEF Plain
  <2>2. LineReturns("success", now)
    BY <1>1, <1>6, <1>8
  <2>3. QED
    BY <1>1, <1>6, <1>7, <2>1, <2>2, ReturnsKeep
<1>9. CASE ~line.found
  <2>1. Plain(now.buffer, now.read) /\ line.searched = line.peeked
    BY <1>2, <1>5, <1>6, <1>9 DEF Searched, Plain
  <2>2. CASE now.read = now.size
    <3>1. LineReturns("again", now)
      BY <1>1, <1>6, <1>9, <2>2
    <3>2. QED
      BY <1>1, <1>6, <1>7, <2>1, <2>2, <3>1, ReturnsKeep
  <2>3. CASE now.read # now.size
    <3>1. line' = [now EXCEPT !.at = "peek"] /\ UNCHANGED <<handed, result>>
      BY <1>1, <1>6, <1>9, <2>3
    <3>2. /\ line' \in Call /\ line'.at = "peek" /\ line'.size = line.size
          /\ line'.buffer = now.buffer
          /\ line'.read = line.searched /\ line'.peeked = line.peeked
          /\ line'.searched = line.searched /\ line'.found = FALSE
      BY <1>6, <1>9, <3>1 DEF Call
    <3>3. Fits(line)'
      BY <1>1, <1>2, <1>4, <1>6, <2>1, <3>1, <3>2 DEF Fits
    <3>4. Searched(line)'
      BY <1>6, <2>1, <3>2 DEF Searched, Plain
    <3>5. ResultHonest' /\ CaughtUp(line)'
      BY <2>1, <3>1, <3>2 DEF LineInv, ResultHonest, CaughtUp
    <3>6. taken' = Len(handed') + line'.read
      BY <1>6, <1>7, <3>1, <3>2
    <3>7. QED
      BY <1>1, <3>1, <3>3, <3>4, <3>5, <3>6 DEF LineInv
  <2>4. QED
    BY <2>2, <2>3
<1>10. QED
  BY <1>2, <1>8, <1>9

LEMMA LineInitInv == LineInit => LineInv
<1> SUFFICES ASSUME LineInit PROVE LineInv
  OBVIOUS
<1>1. Len(<<>>) = 0 /\ <<>> \in Seq(Chars) /\ Part(<<>>, <<>>, 0)
  BY DEF Part
<1>2. ResultHonest
  BY <1>1 DEF LineInit, ResultHonest, HasDelimiter
<1>3. QED
  BY <1>1, <1>2, NoCallFits, NoCallFacts DEF LineInit, LineInv

LEMMA LineNextInv == LineInv /\ [LineNext]_lineVars => LineInv'
<1>1. LineInv /\ UNCHANGED <<stream, taken, line, handed, result>> => LineInv'
  BY DEF LineInv, Fits, Searched, Plain, CaughtUp, ResultHonest
<1>2. QED
  BY <1>1, ArrivesKeeps, CallKeeps, PeekKeeps, CatchUpKeeps
     DEF LineNext, StreamEnds, lineVars

LEMMA InvLinesExact == LineInv => LinesExact
<1> SUFFICES ASSUME LineInv PROVE LinesExact
  OBVIOUS
<1> DEFINE data == SubSeq(line.buffer, 1, line.read)
<1>1. /\ line.buffer \in Seq(Chars) /\ line.read \in Nat /\ stream \in Seq(Chars)
      /\ handed \in Seq(Chars) /\ Len(handed) \in Nat /\ line.read <= Len(line.buffer)
      /\ taken = Len(handed) + line.read
      /\ Part(handed, stream, 0) /\ Part(line.buffer, stream, 0 + Len(handed))
  BY DEF LineInv, Fits, Call
<1>2. data \in Seq(Chars) /\ Len(data) = line.read /\ Part(data, stream, 0 + Len(handed))
  BY <1>1, PrefixFacts, PartPrefix
<1> HIDE DEF data
<1>3. Part(handed \o data, stream, 0)
  BY <1>1, <1>2, PartConcat
<1>4. handed \o data \in Seq(Chars) /\ Len(handed \o data) = taken
  <2>1. handed \o data \in Seq(Chars) /\ Len(handed \o data) = Len(handed) + Len(data)
    BY <1>1, <1>2, ConcatFacts, Zenon
  <2>2. Len(data) = line.read /\ taken = Len(handed) + line.read
    BY <1>1, <1>2
  <2>3. QED
    BY <2>1, <2>2
<1>5. handed \o data = SubSeq(stream, 0 + 1, 0 + Len(handed \o data))
  BY <1>1, <1>3, <1>4, PartEqual
<1>6. handed \o data = SubSeq(stream, 1, taken)
  BY <1>1, <1>4, <1>5
<1>7. QED
  BY <1>6 DEF LinesExact, LineInv, data

(***************************************************************************)
(* However the bytes arrive between the peeks and the reads, and whichever *)
(* calls fail: what the caller gets is what was sent, none lost and none   *)
(* twice, a line ends at the first delimiter, and a full buffer is         *)
(* reported only if it has none; for any bytes, buffers and streams.       *)
(***************************************************************************)
THEOREM LinesWhole == LineSpec => []LinesExact
<1>1. QED
  BY LineInitInv, LineNextInv, InvLinesExact, PTL DEF LineSpec
-----------------------------------------------------------------------------
(* Datagrams                                                                 *)

Packet == [data : Chunks \cup {Together(buffers) : buffers \in Seq(Chunks)}, source : Sources]

\* What is under way was sent by one call.
DatagramInv ==
  /\ calls \in Seq(Packet)
  /\ \A d \in net : \E i \in 1 .. Len(calls) : calls[i] = d
  /\ DatagramsWhole

\* A call that gives the caller no datagram.
LEMMA NothingKeeps ==
  ASSUME DatagramInv, UNCHANGED calls, net' \subseteq net,
         ended'.call = "send" \/ (/\ ended'.sts \notin {"success", "socket_closed"}
                                  /\ ended'.data = <<>>)
  PROVE  DatagramInv'
BY DEF DatagramInv, DatagramsWhole

LEMMA NotSentKeeps ==
  ASSUME DatagramInv, NEW sts, NotSent(sts)
  PROVE  DatagramInv'
BY NothingKeeps DEF NotSent, Ended

LEMMA GoesKeeps ==
  ASSUME DatagramInv, NEW data, NEW source, Goes(data, source),
         [data |-> data, source |-> source] \in Packet
  PROVE  DatagramInv'
<1> DEFINE d == [data |-> data, source |-> source]
<1>1. CASE \E sts : NotSent(sts)
  BY <1>1, NotSentKeeps
<1>2. CASE calls' = Append(calls, d) /\ net' = net \cup {d} /\ ended' = Ended("success")
  <2>1. d \in Packet /\ calls \in Seq(Packet)
    BY DEF DatagramInv
  <2> HIDE DEF d
  <2>2. /\ calls' \in Seq(Packet) /\ Len(calls') = Len(calls) + 1 /\ Len(calls) \in Nat
        /\ calls'[Len(calls) + 1] = d
        /\ \A i \in 1 .. Len(calls) : calls'[i] = calls[i]
    BY <1>2, <2>1, AppendProperties
  <2>3. \A e \in net' : \E i \in 1 .. Len(calls') : calls'[i] = e
    BY <1>2, <2>2 DEF DatagramInv
  <2>4. DatagramsWhole'
    BY <1>2 DEF Ended, DatagramsWhole
  <2>5. QED
    BY <2>2, <2>3, <2>4 DEF DatagramInv
<1>3. QED
  BY <1>1, <1>2 DEF Goes

LEMMA SendKeeps == DatagramInv /\ Send => DatagramInv'
<1> SUFFICES ASSUME DatagramInv, Send PROVE DatagramInv'
  OBVIOUS
<1>1. PICK null \in BOOLEAN, sendall \in BOOLEAN, source \in Sources :
        \/ \E data \in Chunks, to \in Destinations : tcs_send_to(null, sendall, data, to, source)
        \/ \E buffers \in {<<>>} \cup {<<a, b>> : a, b \in Chunks} \cup {<<a, a, a>> : a \in Chunks} :
             tcs_sendv(null, sendall, buffers, source)
  BY DEF Send
<1>2. ASSUME NEW data \in Chunks, NEW to \in Destinations, tcs_send_to(null, sendall, data, to, source)
      PROVE  DatagramInv'
  BY <1>2, NotSentKeeps, GoesKeeps DEF tcs_send_to, Packet
<1>3. ASSUME NEW buffers \in Seq(Chunks), tcs_sendv(null, sendall, buffers, source)
      PROVE  DatagramInv'
  BY <1>3, NotSentKeeps, GoesKeeps DEF tcs_sendv, Packet
<1>4. \A buffers \in {<<>>} \cup {<<a, b>> : a, b \in Chunks} \cup {<<a, a, a>> : a \in Chunks} :
        buffers \in Seq(Chunks)
  <2> DEFINE none == {<<>>}
             two == {<<a, b>> : a, b \in Chunks}
             three == {<<a, a, a>> : a \in Chunks}
  <2>1. ASSUME NEW buffers \in two PROVE buffers \in Seq(Chunks)
    <3>1. PICK a \in Chunks, b \in Chunks : buffers = <<a, b>>
      BY <2>1
    <3>2. QED
      BY <3>1
  <2>2. ASSUME NEW buffers \in three PROVE buffers \in Seq(Chunks)
    <3>1. PICK a \in Chunks : buffers = <<a, a, a>>
      BY <2>2
    <3>2. QED
      BY <3>1
  <2>3. \A buffers \in none : buffers \in Seq(Chunks)
    OBVIOUS
  <2> HIDE DEF none, two, three
  <2>4. \A buffers \in none \cup two \cup three : buffers \in Seq(Chunks)
    BY <2>1, <2>2, <2>3
  <2>5. QED
    BY <2>4 DEF none, two, three
<1>5. QED
  BY <1>1, <1>2, <1>3, <1>4

LEMMA ReceiveFromKeeps ==
  ASSUME DatagramInv, NEW null \in BOOLEAN, NEW wantSource \in BOOLEAN, NEW room \in Rooms,
         tcs_receive_from(null, room, wantSource)
  PROVE  DatagramInv'
<1>1. CASE \E sts \in {"invalid_argument", "connection_refused", "timed_out"} : NotReceived(sts, room)
  BY <1>1, NothingKeeps DEF NotReceived, Ended
<1>2. ASSUME NEW d \in net, NEW data, NEW sts, data = Cut(d.data, room),
             sts = CASE data = <<>> -> "socket_closed"
                     [] data # <<>> /\ wantSource -> native2sockaddr([family |-> d.source])
                     [] OTHER -> "success",
             net' \in {net, net \ {d}},
             ended' = [call |-> "receive", sts |-> sts, data |-> data,
                       room |-> room, source |-> d.source],
             UNCHANGED calls
      PROVE  DatagramInv'
  <2>1. PICK i \in 1 .. Len(calls) : calls[i] = d
    BY DEF DatagramInv
  <2>2. sts = "socket_closed" => data = <<>>
    BY <1>2 DEF native2sockaddr
  <2>3. sts \notin {"success", "socket_closed"} => d.source # "AF_INET"
    BY <1>2 DEF native2sockaddr
  <2>4. DatagramsWhole'
    <3>1. calls' = calls
      BY <1>2
    <3>2. /\ ended'.sts = sts /\ ended'.data = data /\ ended'.room = room
          /\ ended'.source = d.source
      BY <1>2
    <3>3. /\ calls'[i].source = ended'.source
          /\ ended'.data = Cut(calls'[i].data, ended'.room)
      BY <1>2, <2>1, <3>1, <3>2
    <3>4. i \in 1 .. Len(calls')
      BY <3>1
    <3>5. QED
      BY <2>2, <2>3, <3>2, <3>3, <3>4 DEF DatagramsWhole
  <2>5. QED
    BY <1>2, <2>4 DEF DatagramInv
<1>3. QED
  BY <1>1, <1>2 DEF tcs_receive_from, errno2retcode

(***************************************************************************)
(* Over datagrams lost, doubled and reordered, and buffers too small for   *)
(* them: what a call receives is what one call sent, cut to its buffer,    *)
(* and the errors say what they mean; for any bytes, limits and sources.   *)
(***************************************************************************)
THEOREM DatagramsStayWhole == DatagramsSpec => []DatagramsWhole
<1>1. DatagramsInit => DatagramInv
  BY DEF DatagramsInit, DatagramInv, DatagramsWhole, Ended
<1>2. DatagramInv /\ [DatagramsNext]_datagramVars => DatagramInv'
  <2> SUFFICES ASSUME DatagramInv, [DatagramsNext]_datagramVars PROVE DatagramInv'
    OBVIOUS
  <2>1. CASE Lose
    BY <2>1 DEF Lose, DatagramInv, DatagramsWhole
  <2>2. CASE UNCHANGED datagramVars
    BY <2>2 DEF datagramVars, DatagramInv, DatagramsWhole
  <2>3. QED
    BY <2>1, <2>2, SendKeeps, ReceiveFromKeeps DEF DatagramsNext
<1>3. DatagramInv => DatagramsWhole
  BY DEF DatagramInv
<1>4. QED
  BY <1>1, <1>2, <1>3, PTL DEF DatagramsSpec
-----------------------------------------------------------------------------
(* Options of a socket                                                       *)

Options == Flags \cup Buffers \cup {"timeout", "linger"}

Kernel == [flag : [Flags -> BOOLEAN], buffer : [Buffers -> Nat], ticks : Nat \cup {NoWait},
           linger : [on : BOOLEAN, time : Nat], member : SUBSET [group : Groups, local : Locals]]

Milliseconds == 0 .. 999

\* A timeout of s seconds and r milliseconds, kept as k ticks and whole seconds.
Ticked(ms, ticks, s, r, k) ==
  /\ ms = 1000 * s + r /\ ticks = Hz * s + k
  /\ 1000 * r <= k * TickMicros /\ k * TickMicros < 1000 * r + TickMicros

KeepsTimeout(ms, ticks) ==
  IF ms < 0 THEN ticks = NoWait
            ELSE \E s \in Nat, r \in Milliseconds, k \in Nat : Ticked(ms, ticks, s, r, k)

\* What the kernel keeps of option o once a was asked for.
Keeps(o, a, k) ==
  /\ o \in Flags \ {"no_delay"} => k.flag[o] = a
  /\ o \in Buffers => a \in Nat /\ k.buffer[o] = Kept(a % UIntRange)
  /\ o = "timeout" => a \in Int /\ KeepsTimeout(a, k.ticks)
  /\ o = "linger" => k.linger.on = a.on /\ (a.on => k.linger.time = a.time % UShortRange)

OptionInv ==
  /\ kernel \in Kernel
  /\ DOMAIN wanted \subseteq Options
  /\ \A o \in DOMAIN wanted : Keeps(o, wanted[o], kernel)
  /\ OptionsReadBack

LEMMA OptionNames ==
  /\ \A o \in Flags : o \notin Buffers /\ o # "timeout" /\ o # "linger"
  /\ \A o \in Buffers : o \notin Flags /\ o # "timeout" /\ o # "linger"
  /\ "timeout" \notin Flags \cup Buffers /\ "linger" \notin Flags \cup Buffers
  /\ \A c \in {"none", "set", "get", "multicast", "join", "leave"} : c \notin Options
BY DEF Flags, Buffers, Options

LEMMA OptionConstants ==
  /\ MinKept \in Nat \ {0} /\ MaxKept \in Nat /\ MinKept <= MaxKept /\ MaxKept < UIntRange
  /\ UIntRange \in Nat \ {0} /\ UShortRange \in Nat \ {0} /\ Hz \in Nat \ {0}
  /\ BufferSizesAsked \subseteq Nat /\ LingerTimes \subseteq Nat /\ Timeouts \subseteq Int
BY OptionsAssumption, SMT

LEMMA TickFacts == TickMicros \in Nat \ {0} /\ Hz * TickMicros = 1000 * 1000
<1> DEFINE n == 1000 * 1000
<1>1. n \in Nat \ {0} /\ n = 1000000
  BY SMT
<1>2. n % Hz = 0 /\ TickMicros = n \div Hz
  BY <1>1, OptionsAssumption, SMT DEF TickMicros
<1> HIDE DEF n
<1>3. n \div Hz \in Int /\ n = Hz * (n \div Hz) + (n % Hz)
  BY <1>1, OptionConstants, DivMod, SMT
<1>4. TickMicros \in Int /\ Hz * TickMicros = n
  BY <1>2, <1>3, OptionConstants, SMT
<1>5. TickMicros > 0
  BY <1>1, <1>4, OptionConstants, SMT
<1>6. QED
  BY <1>4, <1>5, SMT DEF n
LEMMA TimeoutKept ==
  ASSUME NEW ms \in Int, NEW sec, sec = Quotient(ms, 1000),
         NEW usec, usec = Remainder(ms, 1000) * 1000, ~(usec < 0),
         NEW ticks, ticks = IF sec < 0 THEN NoWait
                            ELSE sec * Hz + (usec + TickMicros - 1) \div TickMicros
  PROVE  KeepsTimeout(ms, ticks) /\ ticks \in Nat \cup {NoWait}
<1>1. CASE ms >= 0
  <2> DEFINE s == ms \div 1000
             r == ms % 1000
             k == Ceil(usec, TickMicros)
  <2>1. s \in Nat /\ r \in Milliseconds /\ ms = 1000 * s + r
    BY <1>1 DEF Milliseconds
  <2>2. sec = s
    BY <1>1 DEF Quotient
  <2> HIDE DEF s, r
  <2>3. usec = 1000 * r /\ usec \in Nat
    BY <2>1, <2>2 DEF Remainder, Milliseconds
  <2>4. k \in Nat /\ usec <= k * TickMicros /\ k * TickMicros < usec + TickMicros
    BY <2>3, TickFacts, RoundedUp
  <2>5. ticks = s * Hz + k
    BY <2>1, <2>2 DEF Ceil
  <2> HIDE DEF k
  <2>6. ticks = Hz * s + k /\ ticks \in Nat
    BY <2>1, <2>4, <2>5, OptionConstants
  <2>7. 1000 * r <= k * TickMicros /\ k * TickMicros < 1000 * r + TickMicros
    BY <2>3, <2>4
  <2>8. ~(ms < 0)
    BY <1>1
  <2>9. QED
    <3>1. Ticked(ms, ticks, s, r, k)
      BY <2>1, <2>6, <2>7 DEF Ticked
    <3>2. QED
      <4>1. s \in Nat /\ r \in Milliseconds /\ k \in Nat
        BY <2>1, <2>4
      <4>2. \E x \in Nat, y \in Milliseconds, z \in Nat : Ticked(ms, ticks, x, y, z)
        BY <3>1, <4>1
      <4>3. QED
        BY <2>6, <2>8, <4>2 DEF KeepsTimeout
<1>2. CASE ms < 0
  <2> DEFINE m == -ms
             q == m \div 1000
  <2>1. m \in Nat \ {0} /\ ms = -m
    BY <1>2
  <2>2. ~(ms >= 0) /\ sec = -q
    BY <1>2 DEF Quotient
  <2> HIDE DEF m
  <2>3. q \in Int /\ m % 1000 \in 0 .. 999 /\ m = 1000 * q + (m % 1000)
    BY <2>1
  <2> HIDE DEF q
  <2>4. Remainder(ms, 1000) = ms - 1000 * sec
    BY DEF Remainder
  <2>5. usec = (1000 * q - m) * 1000
    BY <2>1, <2>2, <2>3, <2>4
  <2>6. m % 1000 = 0 /\ q > 0
    BY <2>1, <2>3, <2>5
  <2>7. ticks = NoWait
    BY <2>2, <2>3, <2>6
  <2>8. QED
    BY <1>2, <2>7 DEF KeepsTimeout
<1>3. QED
  BY <1>1, <1>2

\* What a get of a timeout gives.
LEMMA TimeoutReadsBack ==
  ASSUME NEW ms \in Int, NEW kept \in Nat \cup {NoWait}, KeepsTimeout(ms, kept),
         NEW ticks, ticks = IF kept = NoWait THEN 0 ELSE kept,
         NEW value, value = (ticks \div Hz) * 1000 + ((ticks % Hz) * TickMicros) \div 1000
  PROVE  IF ms < 0 THEN value = 0
         ELSE value >= ms /\ 1000 * (value - ms) < TickMicros
<1>1. CASE ms < 0
  <2>1. ticks = 0
    BY <1>1 DEF KeepsTimeout
  <2> DEFINE a == ticks \div Hz
             b == ticks % Hz
  <2>2. a = 0 /\ b = 0
    BY <2>1, OptionConstants
  <2>3. value = a * 1000 + (b * TickMicros) \div 1000
    OBVIOUS
  <2> HIDE DEF a, b
  <2>4. b * TickMicros = 0
    BY <2>2, TickFacts
  <2>5. value = 0 * 1000 + 0 \div 1000
    BY <2>2, <2>3, <2>4
  <2>6. QED
    BY <1>1, <2>5
<1>2. CASE ~(ms < 0)
  <2>0. PICK s \in Nat, r \in Milliseconds, k \in Nat : Ticked(ms, kept, s, r, k)
    BY <1>2 DEF KeepsTimeout
  <2>1. /\ ms = 1000 * s + r /\ kept = Hz * s + k
        /\ 1000 * r <= k * TickMicros /\ k * TickMicros < 1000 * r + TickMicros
    BY <2>0 DEF Ticked
  <2>2. kept # NoWait
    <3>1. Hz * s \in Nat
      BY OptionConstants
    <3>2. QED
      BY <2>1, <3>1 DEF NoWait
  <2>3. ticks = Hz * s + k
    BY <2>1, <2>2
  <2> DEFINE t == TickMicros
             h == Hz
  <2>4. /\ h \in Nat \ {0} /\ t \in Nat \ {0} /\ h * t = 1000 * 1000
        /\ ticks = h * s + k /\ 1000 * r <= k * t /\ k * t < 1000 * r + t
        /\ value = (ticks \div h) * 1000 + ((ticks % h) * t) \div 1000
    BY <2>1, <2>3, TickFacts, OptionConstants
  <2> HIDE DEF t, h
  <2>5. value >= 1000 * s + r /\ 1000 * (value - (1000 * s + r)) < t
    <3>0. r \in 0 .. 999
      BY DEF Milliseconds
    <3> SUFFICES ASSUME r \in 0 .. 999, h \in Nat \ {0}, t \in Nat \ {0}, h * t = 1000 * 1000,
                        ticks = h * s + k, 1000 * r <= k * t, k * t < 1000 * r + t,
                        value = (ticks \div h) * 1000 + ((ticks % h) * t) \div 1000
                 PROVE  value >= 1000 * s + r /\ 1000 * (value - (1000 * s + r)) < t
      BY <2>4, <3>0
    <3>1. k <= h
      <4>1. CASE h + 1 <= k
        <5>1. (h + 1) * t <= k * t
          BY <4>1, ProductsGrow
        <5>2. (h + 1) * t = h * t + t
          OBVIOUS
        <5>3. QED
          BY <5>1, <5>2
      <4>2. QED
        BY <4>1
    <3>2. CASE k = h
      <4>1. ticks = h * (s + 1) + 0
        BY <3>2
      <4>2. ticks \div h = s + 1 /\ ticks % h = 0
        <5> DEFINE q == s + 1
                   z == 0
        <5>1. Splits(ticks, h, q, z)
          BY <4>1 DEF Splits
        <5> HIDE DEF q, z
        <5>2. ticks \div h = q /\ ticks % h = z
          BY <5>1, DivModUnique
        <5>3. QED
          BY <5>2 DEF q, z
      <4>3. value = (s + 1) * 1000
        <5>1. (0 * t) \div 1000 = 0
          <6>1. 0 * t = 0
            OBVIOUS
          <6>2. QED
            BY <6>1
        <5>2. QED
          BY <4>2, <5>1
      <4>4. 1000 * 1000 < 1000 * r + t
        BY <3>2
      <4>5. QED
        BY <4>3, <4>4
    <3>3. CASE k < h
      <4>1. ticks \div h = s /\ ticks % h = k
        <5> DEFINE q == s
                   z == k
        <5>1. Splits(ticks, h, q, z)
          BY <3>3 DEF Splits
        <5> HIDE DEF q, z
        <5>2. ticks \div h = q /\ ticks % h = z
          BY <5>1, DivModUnique
        <5>3. QED
          BY <5>2 DEF q, z
      <4> DEFINE m == k * t
                 v == m \div 1000
      <4>2. m \in Nat
        OBVIOUS
      <4>3. value = s * 1000 + v
        <5> DEFINE a == ticks \div h
                   b == ticks % h
        <5>1. a = s /\ b = k
          BY <4>1
        <5>2. value = a * 1000 + (b * t) \div 1000
          OBVIOUS
        <5> HIDE DEF a, b
        <5>3. b * t = m
          BY <5>1
        <5> HIDE DEF m
        <5>4. value = s * 1000 + (m \div 1000)
          BY <5>1, <5>2, <5>3
        <5>5. QED
          BY <5>4
      <4>4. 1000 * r <= m /\ m < 1000 * r + t
        OBVIOUS
      <4> HIDE DEF m
      <4>5. v \in Int /\ m % 1000 \in 0 .. 999 /\ m = 1000 * v + (m % 1000)
        BY <4>2
      <4> HIDE DEF v
      <4>6. QED
        BY <4>2, <4>3, <4>4, <4>5, WholeMilliseconds
    <3>4. QED
      BY <3>1, <3>2, <3>3
  <2>6. QED
    BY <1>2, <2>1, <2>5 DEF t
<1>3. QED
  BY <1>1, <1>2

LEMMA BufferReadsBack ==
  ASSUME NEW a \in Nat, 2 * a >= MinKept, 2 * a <= MaxKept
  PROVE  Kept(a % UIntRange) \div 2 = a
<1>1. a < UIntRange
  BY OptionConstants
<1>2. a % UIntRange = a
  BY <1>1, OptionConstants
<1>3. Kept(a) = 2 * a
  BY OptionConstants DEF Kept
<1>4. QED
  BY <1>2, <1>3

LEMMA KeptIsNat == \A b \in Nat : Kept(b) \in Nat
BY OptionConstants DEF Kept

-----------------------------------------------------------------------------
\* A call that sets nothing.
LEMMA RefusedKeeps ==
  ASSUME OptionInv, NEW op, NEW sts, Answers(op, sts), UNCHANGED wanted,
         op \in {"set", "get", "multicast", "join", "leave"},
         kernel' \in Kernel,
         \A o \in Options : \A a : Keeps(o, a, kernel) => Keeps(o, a, kernel')
  PROVE  OptionInv'
<1>1. answer'.call \notin Options
  BY OptionNames DEF Answers
<1>2. QED
  BY <1>1 DEF OptionInv, OptionsReadBack

LEMMA SameKeeps ==
  ASSUME OptionInv, NEW op, NEW sts, Answers(op, sts), UNCHANGED <<kernel, wanted>>,
         op \in {"set", "get", "multicast", "join", "leave"}
  PROVE  OptionInv'
BY RefusedKeeps DEF OptionInv

LEMMA SetKeeps ==
  ASSUME OptionInv, NEW ctx, NEW o \in Options, NEW value, NEW new \in Kernel,
         SetOption(ctx, o, value, new), Keeps(o, value, new),
         \A x \in Options \ {o} : \A a : Keeps(x, a, kernel) => Keeps(x, a, new)
  PROVE  OptionInv'
<1>1. CASE ctx = NullCtx
  BY <1>1, SameKeeps DEF SetOption
<1>2. CASE ctx # NullCtx
  <2>1. kernel' = new /\ Answers("set", "success")
        /\ wanted' = [x \in DOMAIN wanted \cup {o} |-> IF x = o THEN value ELSE wanted[x]]
    BY <1>2 DEF SetOption
  <2>2. answer'.call \notin Options
    BY <2>1, OptionNames DEF Answers
  <2>3. DOMAIN wanted' = DOMAIN wanted \cup {o} /\ DOMAIN wanted' \subseteq Options
    BY <2>1 DEF OptionInv
  <2>4. ASSUME NEW x \in DOMAIN wanted' PROVE Keeps(x, wanted'[x], kernel')
    <3>1. CASE x = o
      BY <2>1, <2>3, <3>1
    <3>2. CASE x # o
      <4>1. x \in DOMAIN wanted /\ x \in Options \ {o} /\ wanted'[x] = wanted[x]
        BY <2>1, <2>3, <2>4, <3>2
      <4>2. Keeps(x, wanted[x], kernel)
        BY <4>1 DEF OptionInv
      <4>3. QED
        BY <2>1, <4>1, <4>2
    <3>3. QED
      BY <3>1, <3>2
  <2>5. QED
    BY <2>1, <2>2, <2>3, <2>4 DEF OptionInv, OptionsReadBack
<1>3. QED
  BY <1>1, <1>2

LEMMA GetKeeps ==
  ASSUME OptionInv, NEW ctx, NEW o \in Options, NEW value, GetOption(ctx, o, value),
         o \in DOMAIN wanted => ReadsBack(o, wanted[o], value)
  PROVE  OptionInv'
<1>1. UNCHANGED <<kernel, wanted>>
  BY DEF GetOption
<1>2. CASE ctx = NullCtx
  BY <1>1, <1>2, SameKeeps DEF GetOption
<1>3. CASE ctx # NullCtx
  <2>1. answer'.call = o /\ answer'.value = value
    BY <1>3 DEF GetOption
  <2>2. OptionsReadBack'
    BY <1>1, <2>1 DEF OptionsReadBack
  <2>3. QED
    BY <1>1, <2>2 DEF OptionInv
<1>4. QED
  BY <1>2, <1>3

LEMMA FlagKeeps ==
  ASSUME OptionInv, NEW ctx, NEW o \in Flags, NEW b \in BOOLEAN,
         SetFlag(ctx, o, b) \/ GetFlag(ctx, o)
  PROVE  OptionInv'
<1>1. o \in Options /\ kernel \in Kernel
  BY DEF Options, OptionInv
<1>2. CASE SetFlag(ctx, o, b)
  <2> DEFINE new == IF o = "no_delay" THEN kernel ELSE [kernel EXCEPT !.flag[o] = b]
  <2>1. SetOption(ctx, o, b, new)
    BY <1>2 DEF SetFlag
  <2>2. /\ new \in Kernel
        /\ o # "no_delay" => new.flag[o] = b
        /\ \A x \in Flags \ {o} : new.flag[x] = kernel.flag[x]
        /\ new.buffer = kernel.buffer /\ new.ticks = kernel.ticks /\ new.linger = kernel.linger
    BY <1>1 DEF Kernel
  <2> HIDE DEF new
  <2>3. Keeps(o, b, new)
    BY <2>2, OptionNames DEF Keeps
  <2>4. \A x \in Options \ {o} : \A a : Keeps(x, a, kernel) => Keeps(x, a, new)
    BY <2>2 DEF Keeps
  <2>5. QED
    BY <1>1, <2>1, <2>2, <2>3, <2>4, SetKeeps
<1>3. CASE GetFlag(ctx, o)
  <2>1. o \in DOMAIN wanted => ReadsBack(o, wanted[o], kernel.flag[o])
    <3>1. o \in DOMAIN wanted => Keeps(o, wanted[o], kernel)
      BY DEF OptionInv
    <3>2. QED
      BY <3>1, OptionNames DEF Keeps, ReadsBack
  <2>2. QED
    BY <1>1, <1>3, <2>1, GetKeeps DEF GetFlag
<1>4. QED
  BY <1>2, <1>3

LEMMA BufferKeeps ==
  ASSUME OptionInv, NEW ctx, NEW o \in Buffers, NEW size \in Nat,
         SetBuffer(ctx, o, size) \/ GetBuffer(ctx, o)
  PROVE  OptionInv'
<1>1. o \in Options /\ kernel \in Kernel
  BY DEF Options, OptionInv
<1>2. CASE SetBuffer(ctx, o, size)
  <2> DEFINE kept == Kept(size % UIntRange)
             new == [kernel EXCEPT !.buffer[o] = kept]
  <2>1. SetOption(ctx, o, size, new)
    BY <1>2 DEF SetBuffer
  <2>2. kept \in Nat
    <3>1. size % UIntRange \in Nat
      BY OptionConstants
    <3>2. QED
      BY <3>1, KeptIsNat
  <2> HIDE DEF kept
  <2>3. /\ new \in Kernel /\ new.buffer[o] = kept
        /\ \A x \in Buffers \ {o} : new.buffer[x] = kernel.buffer[x]
        /\ new.flag = kernel.flag /\ new.ticks = kernel.ticks /\ new.linger = kernel.linger
    BY <1>1, <2>2 DEF Kernel
  <2> HIDE DEF new
  <2>4. Keeps(o, size, new)
    BY <2>3, OptionNames DEF Keeps, kept
  <2>5. \A x \in Options \ {o} : \A a : Keeps(x, a, kernel) => Keeps(x, a, new)
    BY <2>3 DEF Keeps
  <2>6. QED
    BY <1>1, <2>1, <2>3, <2>4, <2>5, SetKeeps
<1>3. CASE GetBuffer(ctx, o)
  <2> DEFINE value == kernel.buffer[o] \div 2
  <2>1. ASSUME o \in DOMAIN wanted PROVE ReadsBack(o, wanted[o], value)
    <3>1. wanted[o] \in Nat /\ kernel.buffer[o] = Kept(wanted[o] % UIntRange)
      BY <2>1 DEF OptionInv, Keeps
    <3>2. (2 * wanted[o] >= MinKept /\ 2 * wanted[o] <= MaxKept) => value = wanted[o]
      BY <3>1, BufferReadsBack
    <3> HIDE DEF value
    <3>3. QED
      BY <3>2, OptionNames DEF ReadsBack
  <2>2. GetOption(ctx, o, value)
    BY <1>3 DEF GetBuffer
  <2> HIDE DEF value
  <2>3. QED
    BY <1>1, <2>1, <2>2, GetKeeps
<1>4. QED
  BY <1>2, <1>3

LEMMA TimeoutKeeps ==
  ASSUME OptionInv, NEW ctx, NEW ms \in Int,
         tcs_set_receive_timeout(ctx, ms) \/ tcs_get_receive_timeout(ctx)
  PROVE  OptionInv'
<1>1. "timeout" \in Options /\ kernel \in Kernel /\ kernel.ticks \in Nat \cup {NoWait}
  BY DEF Options, OptionInv, Kernel
<1>2. CASE tcs_set_receive_timeout(ctx, ms)
  <2> DEFINE sec == Quotient(ms, 1000)
             usec == Remainder(ms, 1000) * 1000
             ticks == IF sec < 0 THEN NoWait
                      ELSE sec * Hz + (usec + TickMicros - 1) \div TickMicros
             new == [kernel EXCEPT !.ticks = ticks]
  <2>1. IF usec < 0 THEN SetRefused(ctx, "EDOM") ELSE SetOption(ctx, "timeout", ms, new)
    BY <1>2 DEF tcs_set_receive_timeout
  <2> HIDE DEF sec, usec
  <2>2. CASE usec < 0
    BY <2>1, <2>2, SameKeeps DEF SetRefused
  <2>3. CASE ~(usec < 0)
    <3>1. KeepsTimeout(ms, ticks) /\ ticks \in Nat \cup {NoWait}
      BY <2>3, TimeoutKept DEF sec, usec
    <3>2. SetOption(ctx, "timeout", ms, new)
      BY <2>1, <2>3
    <3> HIDE DEF ticks
    <3>3. /\ new \in Kernel /\ new.ticks = ticks
          /\ new.flag = kernel.flag /\ new.buffer = kernel.buffer /\ new.linger = kernel.linger
      BY <1>1, <3>1 DEF Kernel
    <3> HIDE DEF new
    <3>4. Keeps("timeout", ms, new)
      BY <3>1, <3>3, OptionNames DEF Keeps
    <3>5. \A x \in Options \ {"timeout"} : \A a : Keeps(x, a, kernel) => Keeps(x, a, new)
      BY <3>3 DEF Keeps
    <3>6. QED
      BY <1>1, <3>2, <3>3, <3>4, <3>5, SetKeeps
  <2>4. QED
    BY <2>2, <2>3
<1>3. CASE tcs_get_receive_timeout(ctx)
  <2> DEFINE ticks == IF kernel.ticks = NoWait THEN 0 ELSE kernel.ticks
             value == (ticks \div Hz) * 1000 + ((ticks % Hz) * TickMicros) \div 1000
  <2>1. GetOption(ctx, "timeout", value)
    BY <1>3 DEF tcs_get_receive_timeout
  <2>2. ASSUME "timeout" \in DOMAIN wanted PROVE ReadsBack("timeout", wanted["timeout"], value)
    <3>1. wanted["timeout"] \in Int /\ KeepsTimeout(wanted["timeout"], kernel.ticks)
      BY <2>2 DEF OptionInv, Keeps
    <3> DEFINE a == wanted["timeout"]
               kept == kernel.ticks
    <3>2. /\ ticks = IF kept = NoWait THEN 0 ELSE kept
          /\ value = (ticks \div Hz) * 1000 + ((ticks % Hz) * TickMicros) \div 1000
          /\ a \in Int /\ kept \in Nat \cup {NoWait} /\ KeepsTimeout(a, kept)
      BY <1>1, <3>1
    <3> HIDE DEF value, ticks, kept, a
    <3>3. IF a < 0 THEN value = 0 ELSE value >= a /\ 1000 * (value - a) < TickMicros
      BY <3>2, TimeoutReadsBack
    <3>4. QED
      BY <3>3, OptionNames DEF ReadsBack, a
  <2> HIDE DEF value
  <2>3. QED
    BY <1>1, <2>1, <2>2, GetKeeps
<1>4. QED
  BY <1>2, <1>3

LEMMA LingerKeeps ==
  ASSUME OptionInv, NEW ctx, NEW on \in BOOLEAN, NEW time \in Nat,
         tcs_set_linger(ctx, on, time) \/ tcs_get_linger(ctx)
  PROVE  OptionInv'
<1>1. "linger" \in Options /\ kernel \in Kernel
  BY DEF Options, OptionInv
<1>2. CASE tcs_set_linger(ctx, on, time)
  <2> DEFINE short == time % UShortRange
             linger == IF on THEN [on |-> TRUE, time |-> short] ELSE [kernel.linger EXCEPT !.on = FALSE]
             new == [kernel EXCEPT !.linger = linger]
             a == [on |-> on, time |-> time]
  <2>1. SetOption(ctx, "linger", a, new)
    BY <1>2 DEF tcs_set_linger
  <2>2. short \in Nat
    BY OptionConstants
  <2> HIDE DEF short
  <2>3. /\ linger \in [on : BOOLEAN, time : Nat] /\ linger.on = on
        /\ on => linger.time = short
    BY <1>1, <2>2 DEF Kernel
  <2> HIDE DEF linger
  <2>4. /\ new \in Kernel /\ new.linger = linger
        /\ new.flag = kernel.flag /\ new.buffer = kernel.buffer /\ new.ticks = kernel.ticks
    BY <1>1, <2>3 DEF Kernel
  <2> HIDE DEF new
  <2>5. Keeps("linger", a, new)
    <3>1. a.on = on /\ a.time = time
      OBVIOUS
    <3> HIDE DEF a
    <3>2. QED
      BY <2>3, <2>4, <3>1, OptionNames DEF Keeps, short
  <2>6. \A x \in Options \ {"linger"} : \A b : Keeps(x, b, kernel) => Keeps(x, b, new)
    BY <2>4 DEF Keeps
  <2> HIDE DEF a
  <2>7. QED
    BY <1>1, <2>1, <2>4, <2>5, <2>6, SetKeeps
<1>3. CASE tcs_get_linger(ctx)
  <2>1. "linger" \in DOMAIN wanted => ReadsBack("linger", wanted["linger"], kernel.linger)
    <3>1. "linger" \in DOMAIN wanted => Keeps("linger", wanted["linger"], kernel)
      BY DEF OptionInv
    <3>2. QED
      BY <3>1, OptionNames DEF Keeps, ReadsBack
  <2>2. QED
    BY <1>1, <1>3, <2>1, GetKeeps DEF tcs_get_linger
<1>4. QED
  BY <1>2, <1>3

LEMMA MulticastKeeps ==
  ASSUME OptionInv, NEW ctx, NEW group \in Groups, NEW local \in Locals,
         \/ tcs_set_ip_multicast_add(ctx, group, local)
         \/ tcs_set_ip_multicast_drop(ctx, group, local)
  PROVE  OptionInv'
<1>1. kernel \in Kernel /\ kernel.member \in SUBSET [group : Groups, local : Locals]
  BY DEF OptionInv, Kernel
<1>2. ASSUME NEW member \in SUBSET [group : Groups, local : Locals],
             kernel' = [kernel EXCEPT !.member = member], UNCHANGED wanted,
             NEW op \in {"join", "leave"}, NEW sts, Answers(op, sts)
      PROVE  OptionInv'
  <2>1. /\ kernel' \in Kernel /\ kernel'.flag = kernel.flag /\ kernel'.buffer = kernel.buffer
        /\ kernel'.ticks = kernel.ticks /\ kernel'.linger = kernel.linger
    BY <1>1, <1>2 DEF Kernel
  <2>2. \A o \in Options : \A a : Keeps(o, a, kernel) => Keeps(o, a, kernel')
    BY <2>1 DEF Keeps
  <2>3. QED
    BY <1>2, <2>1, <2>2, RefusedKeeps
<1>3. ASSUME NEW sts, MulticastRefused(sts) PROVE OptionInv'
  BY <1>3, SameKeeps DEF MulticastRefused
<1>4. CASE tcs_set_ip_multicast_add(ctx, group, local)
  <2> DEFINE sts == MulticastCheck(ctx, group, local)
             new == kernel.member \cup {[group |-> group, local |-> local]}
  <2>1. new \in SUBSET [group : Groups, local : Locals]
    BY <1>1
  <2>2. \/ MulticastRefused(sts)
        \/ MulticastRefused(errno2retcode("EADDRINUSE"))
        \/ /\ kernel' = [kernel EXCEPT !.member = new] /\ Answers("join", "success")
           /\ UNCHANGED wanted
    BY <1>4 DEF tcs_set_ip_multicast_add
  <2> HIDE DEF new
  <2>3. QED
    BY <1>2, <1>3, <2>1, <2>2
<1>5. CASE tcs_set_ip_multicast_drop(ctx, group, local)
  <2> DEFINE sts == MulticastCheck(ctx, group, local)
             gone == {m \in kernel.member : m.group = group /\ local \in {NullAddress, m.local}}
             new == kernel.member \ gone
  <2>1. new \in SUBSET [group : Groups, local : Locals]
    BY <1>1
  <2>2. \/ MulticastRefused(sts)
        \/ MulticastRefused(errno2retcode("EADDRNOTAVAIL"))
        \/ /\ kernel' = [kernel EXCEPT !.member = new] /\ Answers("leave", "success")
           /\ UNCHANGED wanted
    BY <1>5 DEF tcs_set_ip_multicast_drop
  <2> HIDE DEF new
  <2>3. QED
    BY <1>2, <1>3, <2>1, <2>2
<1>6. QED
  BY <1>4, <1>5

LEMMA OptionsInitInv == OptionsInit => OptionInv
<1> SUFFICES ASSUME OptionsInit PROVE OptionInv
  OBVIOUS
<1>1. kernel \in Kernel
  BY OptionConstants DEF OptionsInit, Kernel, Forever
<1>2. DOMAIN wanted = {} /\ answer.call = "none"
  BY DEF OptionsInit
<1>3. QED
  BY <1>1, <1>2 DEF OptionInv, OptionsReadBack

(***************************************************************************)
(* Whatever calls were made in between, and whichever failed: what a get   *)
(* gives is what the last successful set asked for, as the system rounds   *)
(* and bounds it; for any sizes, timeouts, ticks and addresses.            *)
(***************************************************************************)
THEOREM OptionsKept == OptionsSpec => []OptionsReadBack
<1>1. OptionInv /\ [OptionsNext]_optionVars => OptionInv'
  <2> SUFFICES ASSUME OptionInv, [OptionsNext]_optionVars PROVE OptionInv'
    OBVIOUS
  <2>1. CASE UNCHANGED optionVars
    BY <2>1 DEF optionVars, OptionInv, OptionsReadBack
  <2>2. ASSUME NEW ctx,
               \/ \E b \in BOOLEAN :
                    \/ tcs_set_broadcast(ctx, b) \/ tcs_set_keep_alive(ctx, b)
                    \/ tcs_set_reuse_address(ctx, b) \/ tcs_set_ip_no_delay(ctx, b)
                    \/ tcs_set_out_of_band_inline(ctx, b)
               \/ tcs_get_broadcast(ctx) \/ tcs_get_keep_alive(ctx)
               \/ tcs_get_reuse_address(ctx) \/ tcs_get_ip_no_delay(ctx)
               \/ tcs_get_out_of_band_inline(ctx)
        PROVE  OptionInv'
    <3>1. \E o \in Flags, b \in BOOLEAN : SetFlag(ctx, o, b) \/ GetFlag(ctx, o)
      BY <2>2 DEF tcs_set_broadcast, tcs_set_keep_alive, tcs_set_reuse_address,
         tcs_set_ip_no_delay, tcs_set_out_of_band_inline, tcs_get_broadcast, tcs_get_keep_alive,
         tcs_get_reuse_address, tcs_get_ip_no_delay, tcs_get_out_of_band_inline, Flags
    <3>2. QED
      BY <3>1, FlagKeeps
  <2>3. ASSUME NEW ctx,
               \/ \E size \in BufferSizesAsked :
                    tcs_set_send_buffer_size(ctx, size) \/ tcs_set_receive_buffer_size(ctx, size)
               \/ tcs_get_send_buffer_size(ctx) \/ tcs_get_receive_buffer_size(ctx)
        PROVE  OptionInv'
    <3>1. \E o \in Buffers, size \in Nat : SetBuffer(ctx, o, size) \/ GetBuffer(ctx, o)
      BY <2>3, OptionConstants DEF tcs_set_send_buffer_size, tcs_set_receive_buffer_size,
         tcs_get_send_buffer_size, tcs_get_receive_buffer_size, Buffers
    <3>2. QED
      BY <3>1, BufferKeeps
  <2>4. ASSUME NEW ctx,
               \/ \E ms \in Timeouts : tcs_set_receive_timeout(ctx, ms)
               \/ tcs_get_receive_timeout(ctx)
        PROVE  OptionInv'
    <3>1. \E ms \in Int : tcs_set_receive_timeout(ctx, ms) \/ tcs_get_receive_timeout(ctx)
      BY <2>4, OptionConstants
    <3>2. QED
      BY <3>1, TimeoutKeeps
  <2>5. ASSUME NEW ctx,
               \/ \E b \in BOOLEAN, time \in LingerTimes : tcs_set_linger(ctx, b, time)
               \/ tcs_get_linger(ctx)
        PROVE  OptionInv'
    <3>1. \E on \in BOOLEAN, time \in Nat : tcs_set_linger(ctx, on, time) \/ tcs_get_linger(ctx)
      BY <2>5, OptionConstants
    <3>2. QED
      BY <3>1, LingerKeeps
  <2>6. QED
    BY <2>1, <2>2, <2>3, <2>4, <2>5, MulticastKeeps DEF OptionsNext
<1>2. OptionInv => OptionsReadBack
  BY DEF OptionInv
<1>3. QED
  BY <1>1, <1>2, OptionsInitInv, PTL DEF OptionsSpec
-----------------------------------------------------------------------------
(* Addresses                                                                 *)

\* The bytes of an address of four numbers.
Packs(n, r, a, b, c, d) ==
  /\ r \in Nat \ {0} /\ {a, b, c, d} \subseteq 0 .. r - 1
  /\ n = ((a * r + b) * r + c) * r + d

LEMMA BytesBack ==
  ASSUME NEW n, NEW r, NEW a, NEW b, NEW c, NEW d, Packs(n, r, a, b, c, d)
  PROVE  /\ (n \div (r * r * r)) % r = a /\ (n \div (r * r)) % r = b
         /\ (n \div r) % r = c /\ (n \div 1) % r = d
<1> SUFFICES ASSUME r \in Nat \ {0}, a \in 0 .. r - 1, b \in 0 .. r - 1,
                    c \in 0 .. r - 1, d \in 0 .. r - 1,
                    n = ((a * r + b) * r + c) * r + d
             PROVE  /\ (n \div (r * r * r)) % r = a /\ (n \div (r * r)) % r = b
                    /\ (n \div r) % r = c /\ (n \div 1) % r = d
  BY DEF Packs
<1> DEFINE m == a * r + b
           l == m * r + c
           r2 == r * r
           r3 == r2 * r
<1>1. m \in Nat /\ m = r * a + b
  OBVIOUS
<1>2. m \div r = a /\ m % r = b
  BY <1>1, DivModUnique DEF Splits
<1> HIDE DEF m
<1>3. l \in Nat /\ l = r * m + c
  BY <1>1
<1>4. l \div r = m /\ l % r = c
  BY <1>1, <1>3, DivModUnique DEF Splits
<1>5. n = l * r + d
  BY DEF m
<1> HIDE DEF l
<1>6. n \in Nat /\ n = r * l + d
  BY <1>3, <1>5
<1>7. n \div r = l /\ n % r = d
  BY <1>3, <1>6, DivModUnique DEF Splits
<1>8. r2 \in Nat \ {0} /\ r2 = r * r
  OBVIOUS
<1> DEFINE e == r * c + d
<1>9. e \in 0 .. r2 - 1
  <2>1. c * r <= (r - 1) * r
    BY ProductsGrow
  <2>2. (r - 1) * r = r * r - r /\ c * r = r * c /\ r * c \in Nat
    OBVIOUS
  <2>3. QED
    BY <2>1, <2>2
<1>10. n = r2 * m + e
  <2>1. r * l = r * (r * m) + r * c
    BY <1>1, <1>3
  <2>2. r * (r * m) = (r * r) * m
    BY <1>1
  <2> DEFINE x == r * l
             y == r * c
             z == r2 * m
  <2>3. x \in Int /\ y \in Int /\ z \in Int
    BY <1>1, <1>3
  <2>4. n = x + d /\ x = z + y /\ e = y + d
    BY <1>6, <2>1, <2>2
  <2> HIDE DEF x, y, z, e
  <2>5. n = z + e
    BY <2>3, <2>4
  <2>6. QED
    BY <2>5 DEF z
<1> HIDE DEF r2, e
<1>11. n \div r2 = m /\ n % r2 = e
  BY <1>1, <1>6, <1>8, <1>9, <1>10, DivModUnique DEF Splits
<1> DEFINE f == r2 * b + e
<1>12. r3 \in Nat \ {0}
  BY <1>8
<1>13. f \in 0 .. r3 - 1
  <2>1. b * r2 <= (r - 1) * r2
    BY <1>8, ProductsGrow
  <2>2. (r - 1) * r2 = r2 * r - r2 /\ b * r2 = r2 * b /\ r2 * b \in Nat
    BY <1>8
  <2>3. QED
    BY <1>8, <1>9, <2>1, <2>2
<1>14. n = r3 * a + f
  <2>1. r2 * m = r2 * (r * a) + r2 * b
    BY <1>1, <1>8
  <2>2. r2 * (r * a) = (r2 * r) * a
    BY <1>8
  <2>3. r2 * b \in Nat /\ (r2 * r) * a \in Nat
    BY <1>8
  <2>4. QED
    BY <1>8, <1>9, <1>10, <2>1, <2>2, <2>3
<1> HIDE DEF r3, f
<1>15. n \div r3 = a
  BY <1>6, <1>12, <1>13, <1>14, DivModUnique DEF Splits
<1>16. a % r = a /\ n \div 1 = n
  BY <1>6
<1>17. r * r * r = r3 /\ r * r = r2
  BY <1>8 DEF r3
<1>18. QED
  BY <1>2, <1>4, <1>7, <1>11, <1>15, <1>16, <1>17

Bytes == 0 .. ByteRange - 1

\* What was parsed, and the text it was parsed from or formatted to.
AddressInv ==
  /\ text.numbers \in Seq(Int)
  /\ parsed.sts = "success" =>
       /\ Len(text.numbers) >= 4
       /\ \A i \in 1 .. 4 : text.numbers[i] \in Bytes
       /\ \E p \in 0 .. PortRange - 1 :
            parsed = Parsed("success",
              tcs_util_ipv4_args(text.numbers[1], text.numbers[2],
                                 text.numbers[3], text.numbers[4]), p)

\* An address that was parsed as a text, and as an address again.
LEMMA Formatted ==
  ASSUME NEW a \in Bytes, NEW b \in Bytes, NEW c \in Bytes, NEW d \in Bytes,
         NEW p \in 0 .. PortRange - 1
  PROVE  LET address == tcs_util_ipv4_args(a, b, c, d)
             t == tcs_util_address_to_string(address, p)
         IN  /\ t.numbers = <<a, b, c, d>>
             /\ tcs_util_string_to_address(t) = Parsed("success", address, p)
<1> DEFINE address == tcs_util_ipv4_args(a, b, c, d)
           t == tcs_util_address_to_string(address, p)
<1>1. ByteRange \in Nat \ {0} /\ PortRange \in Nat \ {0}
  BY AddressesAssumption
<1>2. address = ((a * ByteRange + b) * ByteRange + c) * ByteRange + d
  BY DEF tcs_util_ipv4_args
<1> HIDE DEF address
<1>3. /\ (address \div (ByteRange * ByteRange * ByteRange)) % ByteRange = a
      /\ (address \div (ByteRange * ByteRange)) % ByteRange = b
      /\ (address \div ByteRange) % ByteRange = c /\ (address \div 1) % ByteRange = d
  <2>1. Packs(address, ByteRange, a, b, c, d)
    BY <1>1, <1>2 DEF Packs, Bytes
  <2>2. QED
    BY <2>1, BytesBack
<1>4. t = Text(<<a, b, c, d>>, IF p = 0 THEN NoPort ELSE <<p>>)
  BY <1>3 DEF tcs_util_address_to_string
<1> HIDE DEF t
<1>5. t.numbers = <<a, b, c, d>> /\ t.port = IF p = 0 THEN <<>> ELSE <<p>>
  BY <1>4 DEF Text, NoPort
<1>6. Len(t.numbers) = 4 /\ \A i \in 1 .. 4 : t.numbers[i] \in 0 .. ByteRange - 1
  BY <1>5 DEF Bytes
<1>7. (IF t.port = NoPort \/ Len(t.numbers) # 4 THEN 0 ELSE t.port[1]) = p
  <2>1. <<p>> # <<>> /\ <<p>>[1] = p
    OBVIOUS
  <2>2. QED
    BY <1>5, <1>6, <2>1 DEF NoPort
<1>8. tcs_util_string_to_address(t) =
        Parsed("success", tcs_util_ipv4_args(t.numbers[1], t.numbers[2], t.numbers[3], t.numbers[4]), p)
  BY <1>6, <1>7 DEF tcs_util_string_to_address
<1>9. t.numbers[1] = a /\ t.numbers[2] = b /\ t.numbers[3] = c /\ t.numbers[4] = d
  BY <1>5
<1>10. QED
  BY <1>5, <1>8, <1>9 DEF address, t

LEMMA ParseKeeps ==
  ASSUME AddressInv, Parse
  PROVE  AddressInv'
<1> DEFINE b == text.numbers
           p == IF text.port = NoPort \/ Len(b) # 4 THEN 0 ELSE text.port[1]
<1>1. text' = text /\ b \in Seq(Int) /\ Len(b) \in Nat
  BY DEF Parse, AddressInv
<1>2. CASE /\ Len(b) >= 4 /\ \A i \in 1 .. 4 : b[i] \in 0 .. ByteRange - 1
           /\ p \in 0 .. PortRange - 1
           /\ parsed' = Parsed("success", tcs_util_ipv4_args(b[1], b[2], b[3], b[4]), p)
  BY <1>1, <1>2 DEF AddressInv, Bytes
<1>3. CASE parsed'.sts # "success"
  BY <1>1, <1>3 DEF AddressInv
<1>4. \/ parsed' = Parsed("not_implemented", 0, 0) \/ parsed' = Parsed("invalid_argument", 0, 0)
      \/ /\ Len(b) >= 4 /\ \A i \in 1 .. 4 : b[i] \in 0 .. ByteRange - 1
         /\ p \in 0 .. PortRange - 1
         /\ parsed' = Parsed("success", tcs_util_ipv4_args(b[1], b[2], b[3], b[4]), p)
  <2> DEFINE ok == Parsed("success", tcs_util_ipv4_args(b[1], b[2], b[3], b[4]), p)
  <2>1. parsed' = tcs_util_string_to_address(text)
    BY DEF Parse
  <2>2. tcs_util_string_to_address(text) =
          CASE Len(b) < 2 -> Parsed("not_implemented", 0, 0)
            [] Len(b) \in 2 .. 3 -> Parsed("invalid_argument", 0, 0)
            [] OTHER -> IF (\E i \in 1 .. 4 : b[i] \notin 0 .. ByteRange - 1)
                             \/ p \notin 0 .. PortRange - 1
                          THEN Parsed("invalid_argument", 0, 0) ELSE ok
    BY DEF tcs_util_string_to_address
  <2> HIDE DEF b, p, ok
  <2>3. \/ parsed' = Parsed("not_implemented", 0, 0) \/ parsed' = Parsed("invalid_argument", 0, 0)
        \/ /\ ~(Len(b) < 2) /\ Len(b) \notin 2 .. 3
           /\ ~(\E i \in 1 .. 4 : b[i] \notin 0 .. ByteRange - 1) /\ p \in 0 .. PortRange - 1
           /\ parsed' = ok
    BY <2>1, <2>2, Zenon
  <2>4. ~(Len(b) < 2) /\ Len(b) \notin 2 .. 3 => Len(b) >= 4
    <3> DEFINE n == Len(b)
    <3>1. n \in Nat
      BY <1>1
    <3> HIDE DEF n
    <3>2. ~(n < 2) /\ n \notin 2 .. 3 => n >= 4
      BY <3>1
    <3>3. QED
      BY <3>2 DEF n
  <2>5. ~(\E i \in 1 .. 4 : b[i] \notin 0 .. ByteRange - 1)
          => \A i \in 1 .. 4 : b[i] \in 0 .. ByteRange - 1
    OBVIOUS
  <2>6. QED
    BY <2>3, <2>4, <2>5, Zenon DEF ok
<1>5. QED
  BY <1>2, <1>3, <1>4 DEF Parsed

LEMMA FormatKeeps ==
  ASSUME AddressInv, Format
  PROVE  AddressInv'
<1> DEFINE a == text.numbers[1]
           b == text.numbers[2]
           c == text.numbers[3]
           d == text.numbers[4]
           address == tcs_util_ipv4_args(a, b, c, d)
<1>1. parsed' = parsed /\ parsed.sts = "success"
      /\ text' = tcs_util_address_to_string(parsed.address, parsed.port)
  BY DEF Format
<1>2. a \in Bytes /\ b \in Bytes /\ c \in Bytes /\ d \in Bytes
  BY <1>1 DEF AddressInv
<1>3. PICK p \in 0 .. PortRange - 1 : parsed = Parsed("success", address, p)
  BY <1>1 DEF AddressInv
<1>4. text' = tcs_util_address_to_string(address, p)
  BY <1>1, <1>3 DEF Parsed
<1>5. text'.numbers = <<a, b, c, d>>
  <2> HIDE DEF a, b, c, d
  <2>1. QED
    BY <1>2, <1>4, Formatted
<1>6. text'.numbers \in Seq(Int) /\ Len(text'.numbers) = 4
      /\ text'.numbers[1] = a /\ text'.numbers[2] = b /\ text'.numbers[3] = c /\ text'.numbers[4] = d
  <2>1. a \in Int /\ b \in Int /\ c \in Int /\ d \in Int
    BY <1>2, AddressesAssumption DEF Bytes
  <2> HIDE DEF a, b, c, d
  <2>2. QED
    BY <1>5, <2>1
<1> HIDE DEF a, b, c, d
<1>7. \A i \in 1 .. 4 : text'.numbers[i] \in Bytes
  BY <1>2, <1>6
<1>8. parsed' = Parsed("success", tcs_util_ipv4_args(text'.numbers[1], text'.numbers[2],
                                                     text'.numbers[3], text'.numbers[4]), p)
  BY <1>1, <1>3, <1>6
<1>9. QED
  BY <1>6, <1>7, <1>8 DEF AddressInv

LEMMA InvRoundTrip == AddressInv => AddressesRoundTrip
<1> SUFFICES ASSUME AddressInv, parsed.sts = "success"
             PROVE  /\ tcs_util_string_to_address(
                         tcs_util_address_to_string(parsed.address, parsed.port)) = parsed
                    /\ tcs_util_address_to_string(parsed.address, parsed.port).numbers
                         = SubSeq(text.numbers, 1, 4)
  BY DEF AddressesRoundTrip
<1> DEFINE n == text.numbers
           address == tcs_util_ipv4_args(n[1], n[2], n[3], n[4])
           again == tcs_util_address_to_string(address, parsed.port)
<1>1. n \in Seq(Int) /\ Len(n) >= 4 /\ \A i \in 1 .. 4 : n[i] \in Bytes
  BY DEF AddressInv
<1>2. PICK p \in 0 .. PortRange - 1 : parsed = Parsed("success", address, p)
  BY DEF AddressInv
<1>3. parsed.address = address /\ parsed.port = p
  BY <1>2 DEF Parsed
<1>4. n[1] \in Bytes /\ n[2] \in Bytes /\ n[3] \in Bytes /\ n[4] \in Bytes
  BY <1>1
<1>5. again.numbers = <<n[1], n[2], n[3], n[4]>>
      /\ tcs_util_string_to_address(again) = Parsed("success", address, p)
  <2> DEFINE a == n[1]
             b == n[2]
             c == n[3]
             d == n[4]
  <2>1. a \in Bytes /\ b \in Bytes /\ c \in Bytes /\ d \in Bytes
    BY <1>4
  <2> HIDE DEF a, b, c, d
  <2>2. LET x == tcs_util_ipv4_args(a, b, c, d)
            t == tcs_util_address_to_string(x, p)
        IN  t.numbers = <<a, b, c, d>> /\ tcs_util_string_to_address(t) = Parsed("success", x, p)
    BY <2>1, Formatted
  <2>3. QED
    BY <1>3, <2>2 DEF a, b, c, d
<1>6. SubSeq(n, 1, 4) = <<n[1], n[2], n[3], n[4]>>
  <2> DEFINE q == SubSeq(n, 1, 4)
             f == <<n[1], n[2], n[3], n[4]>>
  <2>1. q \in Seq(Int) /\ Len(q) = 4 /\ \A i \in 1 .. 4 : q[i] = n[i]
    BY <1>1, PrefixFacts
  <2>2. f \in Seq(Int) /\ Len(f) = 4 /\ f[1] = n[1] /\ f[2] = n[2] /\ f[3] = n[3] /\ f[4] = n[4]
    <3>1. n[1] \in Int /\ n[2] \in Int /\ n[3] \in Int /\ n[4] \in Int
      BY <1>1
    <3> HIDE DEF n
    <3>2. QED
      BY <3>1
  <2> HIDE DEF q, f, n
  <2>3. \A i \in 1 .. Len(f) : f[i] = q[i]
    BY <2>1, <2>2
  <2>4. f = q
    BY <2>1, <2>2, <2>3, SeqEqual
  <2>5. QED
    BY <2>4 DEF q, f
<1>7. QED
  BY <1>2, <1>3, <1>5, <1>6

(***************************************************************************)
(* An address that was parsed can be formatted and parsed again, with the  *)
(* same bytes and the same port, and its text has the numbers it was read  *)
(* from; for any number of bits in a byte and in a port, and any text.     *)
(***************************************************************************)
THEOREM AddressesComeBack == AddressesSpec => []AddressesRoundTrip
<1>1. AddressesInit => AddressInv
  <2> SUFFICES ASSUME AddressesInit PROVE AddressInv
    OBVIOUS
  <2>1. PICK n \in 1 .. MaxNumbers : text.numbers \in [1 .. n -> Numbers]
    BY DEF AddressesInit, Texts, Text
  <2>2. n \in Nat /\ text.numbers \in [1 .. n -> Int]
    <3>1. n \in Nat /\ Numbers \subseteq Int
      BY AddressesAssumption
    <3>2. QED
      BY <2>1, <3>1
  <2>3. text.numbers \in Seq(Int)
    BY <2>2
  <2>4. QED
    BY <2>3 DEF AddressesInit, AddressInv, Parsed
<1>2. AddressInv /\ [AddressesNext]_addressVars => AddressInv'
  <2>1. AddressInv /\ UNCHANGED addressVars => AddressInv'
    BY DEF addressVars, AddressInv
  <2>2. QED
    BY <2>1, ParseKeeps, FormatKeeps DEF AddressesNext
<1>3. QED
  BY <1>1, <1>2, InvRoundTrip, PTL DEF AddressesSpec
-----------------------------------------------------------------------------
(* Lookups                                                                   *)

\* What was counted is still a possible count, as long as nothing has changed.
LookupInv ==
  /\ records \in HostRecords /\ adapters \in AdapterLists /\ moved \in BOOLEAN
  /\ lookup.room \in Nat
  /\ lookup.at = "counted" =>
       /\ lookup \in [at : {"counted"}, of : {"resolve", "interfaces"}, family : {"any", "ip4"},
                      room : Nat, wrote : Nat, sts : {"success"}]
       /\ ~moved => Success(lookup.room) \in Outcomes(lookup.of, lookup.family, FALSE, 0)
  /\ TwoCallsFill

LEMMA Counts ==
  ASSUME NEW n \in Nat, NEW T \in SUBSET (1 .. n)
  PROVE  Cardinality(T) \in Nat /\ (Cardinality(T) = 0 <=> T = {})
<1>1. IsFiniteSet(1 .. n)
  BY FS_Interval
<1>2. IsFiniteSet(T)
  BY <1>1, FS_Subset
<1>3. QED
  BY <1>2, FS_CardinalityType, FS_EmptySet

LEMMA SmallerFacts ==
  ASSUME NEW a \in Nat, NEW b \in Nat
  PROVE  /\ Smaller(a, b) \in Nat /\ Smaller(a, b) <= a /\ Smaller(a, b) <= b
         /\ Smaller(a, a) = a
BY DEF Smaller

\* A result is one or the other, and never both.
LEMMA OutcomeFacts ==
  ASSUME NEW n
  PROVE  /\ Success(n).sts = "success" /\ Success(n).n = n
         /\ \A sts : Failed(sts).sts = sts /\ Failed(sts).n = 0
BY DEF Success, Failed

LEMMA ResolveFailsFacts ==
  ASSUME NEW r \in ResolveFails
  PROVE  r.sts # "success" /\ r.n = 0
<1>1. PICK sts \in {"memory", "unknown"} : r = Failed(sts)
  BY DEF ResolveFails, errno2retcode
<1>2. QED
  BY <1>1, OutcomeFacts

LEMMA ResolveFacts ==
  ASSUME records \in HostRecords, NEW family \in {"any", "ip4"}, NEW length \in Nat
  PROVE  /\ \A r \in tcs_resolve_hostname(family, FALSE, 0) :
              r.n \in Nat /\ (r.sts = "success" => r = Success(r.n))
         /\ \A r \in tcs_resolve_hostname(family, TRUE, length) :
              /\ r.sts = "success" => r.n \in 1 .. length
              /\ r.sts # "success" => r.n = 0
              /\ /\ r.sts = "success" /\ family = "ip4"
                 /\ Success(length) \in tcs_resolve_hostname(family, FALSE, 0)
                 => r.n = length
<1> DEFINE found == Found(family)
           able == {i \in found : native2sockaddr([family |-> records[i]]) = "success"}
           f == Cardinality(found)
           a == Cardinality(able)
           s == Filled(able, length)
<1>1. Len(records) \in Nat
  BY LookupAssumption
<1>2. found \in SUBSET (1 .. Len(records)) /\ able \in SUBSET (1 .. Len(records))
  BY DEF Found
<1>3. f \in Nat /\ a \in Nat /\ (f = 0 <=> found = {})
  BY <1>1, <1>2, Counts
<1>4. family = "ip4" => able = found
  BY DEF Found, family2native, native2sockaddr
<1>5. /\ tcs_resolve_hostname(family, FALSE, 0) =
           ResolveFails \cup IF found = {} THEN {}
                             ELSE {IF f = 0 THEN Failed("lookup_failed") ELSE Success(f)}
      /\ tcs_resolve_hostname(family, TRUE, length) =
           ResolveFails \cup IF found = {} THEN {}
                             ELSE {IF s = 0 THEN Failed("lookup_failed") ELSE Success(s)}
  BY DEF tcs_resolve_hostname
<1>6. s \in Nat /\ s <= length /\ (a = length => s = length)
  BY <1>3, SmallerFacts DEF Filled
<1>7. family = "ip4" => a = f
  BY <1>4
<1> HIDE DEF found, able, f, a, s
<1>8. ASSUME NEW r \in tcs_resolve_hostname(family, FALSE, 0)
      PROVE  r \in ResolveFails \/ (r = Success(f) /\ found # {})
  BY <1>3, <1>5
<1>9. ASSUME NEW r \in tcs_resolve_hostname(family, TRUE, length)
      PROVE  r \in ResolveFails \/ r = Failed("lookup_failed") \/ (r = Success(s) /\ s # 0)
  BY <1>5
<1>10. /\ Success(f).n = f /\ Success(f).sts = "success"
       /\ Success(s).n = s /\ Success(s).sts = "success"
       /\ Success(length).n = length /\ Success(length).sts = "success"
       /\ Failed("lookup_failed").n = 0 /\ Failed("lookup_failed").sts # "success"
  BY OutcomeFacts
<1>11. ASSUME NEW r \in tcs_resolve_hostname(family, FALSE, 0)
       PROVE  r.n \in Nat /\ (r.sts = "success" => r = Success(r.n) /\ r.n = f)
  <2>1. CASE r \in ResolveFails
    <3>1. r.sts # "success" /\ r.n = 0
      BY <2>1, ResolveFailsFacts
    <3>2. QED
      BY <3>1
  <2>2. CASE r = Success(f)
    BY <1>3, <1>10, <2>2
  <2>3. QED
    BY <1>8, <2>1, <2>2
<1>12. ASSUME NEW r \in tcs_resolve_hostname(family, TRUE, length)
       PROVE  IF r.sts = "success" THEN r.n = s /\ s # 0 ELSE r.n = 0
  <2>1. CASE r \in ResolveFails
    BY <2>1, ResolveFailsFacts
  <2>2. CASE r = Failed("lookup_failed") \/ (r = Success(s) /\ s # 0)
    BY <1>10, <2>2
  <2>3. QED
    BY <1>9, <2>1, <2>2
<1>13. Success(length) \in tcs_resolve_hostname(family, FALSE, 0) => f = length
  BY <1>10, <1>11
<1>14. ASSUME NEW r \in tcs_resolve_hostname(family, TRUE, length)
       PROVE  /\ r.sts = "success" => r.n \in 1 .. length
              /\ r.sts # "success" => r.n = 0
              /\ r.sts = "success" /\ family = "ip4" /\ f = length => r.n = length
  <2>1. CASE r.sts = "success"
    <3>1. r.n = s /\ s # 0
      BY <1>12, <2>1
    <3>2. s \in 1 .. length
      BY <1>6, <3>1
    <3>3. family = "ip4" /\ f = length => s = length
      BY <1>6, <1>7
    <3>4. QED
      BY <2>1, <3>1, <3>2, <3>3
  <2>2. CASE r.sts # "success"
    BY <1>12, <2>2
  <2>3. QED
    BY <2>1, <2>2
<1>15. QED
  BY <1>11, <1>13, <1>14

LEMMA InterfaceFacts ==
  ASSUME adapters \in AdapterLists, NEW length \in Nat
  PROVE  /\ \A r \in tcs_local_interfaces(FALSE, 0) :
              r.n \in Nat /\ (r.sts = "success" => r = Success(r.n))
         /\ \A r \in tcs_local_interfaces(TRUE, length) :
              /\ r.sts = "success" /\ Success(length) \in tcs_local_interfaces(FALSE, 0)
                   => r.n = length
              /\ r.sts # "success" => r.n = 0
<1> DEFINE able == {i \in 1 .. Len(adapters) : adapters[i] = "AF_INET"}
           m == Smaller(Cardinality(able), IfconfRoom)
<1>1. Len(adapters) \in Nat /\ IfconfRoom \in Nat
  BY LookupAssumption
<1>2. m \in Nat
  <2>1. able \in SUBSET (1 .. Len(adapters))
    OBVIOUS
  <2> HIDE DEF able
  <2>2. QED
    BY <1>1, <2>1, Counts, SmallerFacts
<1>3. /\ tcs_local_interfaces(FALSE, 0) = {Failed("unknown"), Success(m)}
      /\ tcs_local_interfaces(TRUE, length) = {Failed("unknown"), Success(m)}
  BY DEF tcs_local_interfaces
<1> HIDE DEF m
<1>4. /\ Success(m).n = m /\ Success(m).sts = "success"
      /\ Failed("unknown").n = 0 /\ Failed("unknown").sts # "success"
      /\ Success(length).n = length /\ Success(length).sts = "success"
  BY OutcomeFacts
<1>5. ASSUME NEW r \in tcs_local_interfaces(FALSE, 0)
      PROVE  r.n \in Nat /\ (r.sts = "success" => r = Success(r.n))
  <2>1. r = Failed("unknown") \/ r = Success(m)
    BY <1>3
  <2>2. CASE r = Success(m)
    BY <1>2, <1>4, <2>2
  <2>3. CASE r = Failed("unknown")
    BY <1>4, <2>3
  <2>4. QED
    BY <2>1, <2>2, <2>3
<1>6. ASSUME NEW r \in tcs_local_interfaces(TRUE, length)
      PROVE  /\ r.sts = "success" => r.n = m
             /\ r.sts # "success" => r.n = 0
  BY <1>3, <1>4
<1>7. Success(length) \in tcs_local_interfaces(FALSE, 0) => m = length
  BY <1>3, <1>4
<1>8. QED
  BY <1>5, <1>6, <1>7

LEMMA CountKeeps ==
  ASSUME LookupInv, CountCall
  PROVE  LookupInv'
<1>1. PICK of \in {"resolve", "interfaces"}, family \in {"any", "ip4"} :
        \E r \in Outcomes(of, family, FALSE, 0) :
          lookup' = [at |-> IF r.sts = "success" THEN "counted" ELSE "idle", of |-> of,
                     family |-> family, room |-> r.n, wrote |-> 0, sts |-> r.sts]
  BY DEF CountCall
<1>2. PICK r \in Outcomes(of, family, FALSE, 0) :
        lookup' = [at |-> IF r.sts = "success" THEN "counted" ELSE "idle", of |-> of,
                   family |-> family, room |-> r.n, wrote |-> 0, sts |-> r.sts]
  BY <1>1
<1>3. moved' = FALSE /\ UNCHANGED <<records, adapters>>
      /\ records \in HostRecords /\ adapters \in AdapterLists
  BY DEF CountCall, LookupInv
<1>4. r.n \in Nat /\ (r.sts = "success" => r = Success(r.n))
  BY <1>3, ResolveFacts, InterfaceFacts DEF Outcomes
<1>5. Outcomes(of, family, FALSE, 0)' = Outcomes(of, family, FALSE, 0)
  BY <1>3 DEF Outcomes, tcs_resolve_hostname, Found, tcs_local_interfaces
<1>6. /\ lookup'.of = of /\ lookup'.family = family /\ lookup'.room = r.n /\ lookup'.wrote = 0
      /\ lookup'.sts = r.sts /\ lookup'.at = IF r.sts = "success" THEN "counted" ELSE "idle"
  BY <1>2
<1>7. lookup'.at = "counted" =>
        /\ lookup' \in [at : {"counted"}, of : {"resolve", "interfaces"}, family : {"any", "ip4"},
                        room : Nat, wrote : Nat, sts : {"success"}]
        /\ Success(r.n) \in Outcomes(of, family, FALSE, 0)
  BY <1>2, <1>4
<1>8. (Outcomes(lookup.of, lookup.family, FALSE, 0))' = Outcomes(of, family, FALSE, 0)
  BY <1>5, <1>6
<1>9. Success(lookup.room)' = Success(r.n)
  BY <1>6
<1>10. QED
  BY <1>3, <1>4, <1>6, <1>7, <1>8, <1>9 DEF LookupInv, TwoCallsFill

LEMMA FillKeeps ==
  ASSUME LookupInv, FillCall
  PROVE  LookupInv'
<1> DEFINE of == lookup.of
           family == lookup.family
           room == lookup.room
<1>1. /\ lookup \in [at : {"counted"}, of : {"resolve", "interfaces"}, family : {"any", "ip4"},
                     room : Nat, wrote : Nat, sts : {"success"}]
      /\ moved \in BOOLEAN /\ records \in HostRecords /\ adapters \in AdapterLists
      /\ ~moved => Success(room) \in Outcomes(of, family, FALSE, 0)
  BY DEF LookupInv, FillCall
<1>2. PICK r \in Outcomes(of, family, TRUE, room) :
        lookup' = [lookup EXCEPT !.at = "filled", !.wrote = r.n, !.sts = r.sts]
  BY DEF FillCall
<1>3. /\ lookup'.at = "filled" /\ lookup'.of = of /\ lookup'.family = family
      /\ lookup'.room = room /\ lookup'.wrote = r.n /\ lookup'.sts = r.sts
  BY <1>1, <1>2
<1>4. UNCHANGED <<records, adapters, moved>>
  BY DEF FillCall
<1>5. of \in {"resolve", "interfaces"} /\ family \in {"any", "ip4"} /\ room \in Nat
  BY <1>1
<1> HIDE DEF of, family, room
<1>6. /\ r.sts = "success" =>
           /\ ~moved /\ (of = "interfaces" \/ family = "ip4") => r.n = room
           /\ of = "resolve" => r.n \in 1 .. room
      /\ r.sts # "success" => r.n = 0
  <2>1. CASE of = "resolve"
    <3>1. /\ r \in tcs_resolve_hostname(family, TRUE, room)
          /\ ~moved => Success(room) \in tcs_resolve_hostname(family, FALSE, 0)
      BY <1>1, <1>2, <2>1 DEF Outcomes
    <3>2. QED
      BY <1>1, <1>5, <2>1, <3>1, ResolveFacts
  <2>2. CASE of = "interfaces"
    <3>1. /\ r \in tcs_local_interfaces(TRUE, room)
          /\ ~moved => Success(room) \in tcs_local_interfaces(FALSE, 0)
      BY <1>1, <1>2, <2>2 DEF Outcomes
    <3>2. QED
      BY <1>1, <1>5, <2>2, <3>1, InterfaceFacts
  <2>3. QED
    BY <1>5, <2>1, <2>2
<1>7. TwoCallsFill'
  BY <1>3, <1>4, <1>6 DEF TwoCallsFill
<1>8. QED
  BY <1>1, <1>3, <1>4, <1>5, <1>7 DEF LookupInv

(***************************************************************************)
(* Whichever of the system's calls fail: a caller who counts first and     *)
(* asks again, when nothing has changed in between, gets the array full or *)
(* an error with nothing in it, and tcs_resolve_hostname never writes      *)
(* beyond it, whatever has changed.  For any records, adapters and room.   *)
(* That tcs_local_interfaces does is the finding of interfaces_overrun.    *)
(***************************************************************************)
THEOREM LookupsFit == LookupSpec => []TwoCallsFill
<1>1. LookupInit => LookupInv
  <2> SUFFICES ASSUME LookupInit PROVE LookupInv
    OBVIOUS
  <2>1. lookup.at = "idle" /\ lookup.room = 0
    BY DEF LookupInit, NoLookup
  <2>2. records \in HostRecords /\ adapters \in AdapterLists /\ moved \in BOOLEAN
    BY DEF LookupInit
  <2>3. QED
    BY <2>1, <2>2 DEF LookupInv, TwoCallsFill
<1>2. LookupInv /\ [LookupNext]_lookupVars => LookupInv'
  <2> SUFFICES ASSUME LookupInv, [LookupNext]_lookupVars PROVE LookupInv'
    OBVIOUS
  <2>1. CASE EnvironmentMoves
    BY <2>1 DEF EnvironmentMoves, LookupInv, TwoCallsFill
  <2>2. CASE NextLookup
    BY <2>2 DEF NextLookup, NoLookup, LookupInv, TwoCallsFill
  <2>3. CASE UNCHANGED lookupVars
    BY <2>3 DEF lookupVars, LookupInv, TwoCallsFill, Outcomes, tcs_resolve_hostname, Found,
                tcs_local_interfaces
  <2>4. QED
    BY <2>1, <2>2, <2>3, CountKeeps, FillKeeps DEF LookupNext
<1>3. LookupInv => TwoCallsFill
  BY DEF LookupInv
<1>4. QED
  BY <1>1, <1>2, <1>3, PTL DEF LookupSpec
-----------------------------------------------------------------------------
(* Netstrings                                                                *)

\* The bytes of w behind the first s are the message p, as far as w goes.
Framed(w, s, p) ==
  /\ s + 1 <= Len(w) => w[s + 1] = Len(p)
  /\ s + 2 <= Len(w) => w[s + 2] = Colon
  /\ \A i \in 1 .. Len(p) : s + 2 + i <= Len(w) => w[s + 2 + i] = p[i]
  /\ s + 3 + Len(p) <= Len(w) => w[s + 3 + Len(p)] = Comma

Short == {p \in Seq(Byte) : 0 < Len(p) /\ Len(p) < 10}

\* Where each message starts on the wire, and where the next one will.
Layout(start, messages, w) ==
  /\ messages \in Seq(Short) /\ w \in Seq(Byte)
  /\ start \in Seq(Nat) /\ Len(start) = Len(messages) + 1 /\ start[1] = 0
  /\ \A i \in 1 .. Len(messages) :
       /\ start[i + 1] = start[i] + 3 + Len(messages[i])
       /\ Framed(w, start[i], messages[i])
  /\ \A i, j \in 1 .. Len(start) : i <= j => start[i] <= start[j]
  /\ Len(w) <= start[Len(start)]

\* What of the last message is not on the wire yet.
SenderAt(start) ==
  LET n == Len(sent)
      s == start[n]
      p == sent[n]
  IN
  \/ cut /\ parts = <<>>
  \/ ~cut /\ parts = <<>> /\ Len(wire) = start[n + 1]
  \/ ~cut /\ n > 0 /\ parts = <<Header(Len(p)), p, <<Comma>>>> /\ Len(wire) = s
  \/ ~cut /\ n > 0 /\ parts = <<p, <<Comma>>>> /\ Len(wire) = s + 2
  \/ ~cut /\ n > 0 /\ parts = <<<<Comma>>>> /\ Len(wire) = s + 2 + Len(p)

Reader == [at : {"idle", "header", "payload", "comma"}, parsed : Nat, expected : Nat,
           payload : Seq(Byte),
           sts : {"none", "success", "not_connected", "timed_out", "memory"}]

\* Where the receiver is in the message that starts behind s bytes.
InMessage(r, s, p, at) ==
  \/ r.at = "header" /\ r.parsed = 1 /\ r.expected = Len(p) /\ at = s + 1
  \/ r.at = "payload" /\ r.parsed = 2 /\ r.expected = Len(p) /\ at = s + 2
  \/ r.at = "comma" /\ r.payload = p /\ at = s + 2 + Len(p)

Between(r, s, at) ==
  /\ r.at \in {"idle", "header"} /\ (r.at = "header" => r.parsed = 0 /\ r.expected = 0)
  /\ at = s

\* It has read all that came before the connection was lost, or it is at a
\* place in the message behind the ones it has received.
ReaderAt(start, messages, w) ==
  LET k == Len(received) IN
  /\ reader \in Reader /\ received \in Seq(Short) /\ k <= Len(messages)
  /\ \A i \in 1 .. k : received[i] = messages[i]
  /\ consumed \in Nat /\ consumed <= Len(w)
  /\ \/ cut /\ consumed = Len(w)
     \/ Between(reader, start[k + 1], consumed)
     \/ k < Len(messages) /\ InMessage(reader, start[k + 1], messages[k + 1], consumed)

NetInv ==
  /\ cut \in BOOLEAN /\ exact \in BOOLEAN
  /\ exact => \E start : Layout(start, sent, wire) /\ SenderAt(start) /\ ReaderAt(start, sent, wire)

-----------------------------------------------------------------------------
\* The bytes q are the next ones of the message.
Follows(w, q, s, p) ==
  \/ Len(w) = s /\ Len(q) <= 2 /\ (Len(q) >= 1 => q[1] = Len(p)) /\ (Len(q) >= 2 => q[2] = Colon)
  \/ Len(w) = s + 2 /\ Len(q) <= Len(p) /\ \A i \in 1 .. Len(q) : q[i] = p[i]
  \/ Len(w) = s + 2 + Len(p) /\ Len(q) <= 1 /\ (Len(q) = 1 => q[1] = Comma)

LEMMA FrameGrows ==
  ASSUME NEW w \in Seq(Byte), NEW q \in Seq(Byte), NEW s \in Nat, NEW p \in Seq(Byte),
         Framed(w, s, p),
         s + 3 + Len(p) <= Len(w) \/ Follows(w, q, s, p)
  PROVE  Framed(w \o q, s, p)
<1> DEFINE c == w \o q
           l == Len(p)
           m == Len(w)
           n == Len(q)
<1>1. l \in Nat /\ m \in Nat /\ n \in Nat /\ Len(c) = m + n
      /\ (\A i \in 1 .. m : c[i] = w[i]) /\ (\A i \in 1 .. n : c[m + i] = q[i])
  BY ConcatFacts
<1>2. /\ s + 1 <= m => w[s + 1] = l
      /\ s + 2 <= m => w[s + 2] = Colon
      /\ \A i \in 1 .. l : s + 2 + i <= m => w[s + 2 + i] = p[i]
      /\ s + 3 + l <= m => w[s + 3 + l] = Comma
  BY DEF Framed
<1>3. \/ s + 3 + l <= m
      \/ m = s /\ n <= 2 /\ (n >= 1 => q[1] = l) /\ (n >= 2 => q[2] = Colon)
      \/ m = s + 2 /\ n <= l /\ \A i \in 1 .. n : q[i] = p[i]
      \/ m = s + 2 + l /\ n <= 1 /\ (n = 1 => q[1] = Comma)
  BY DEF Follows
<1> HIDE DEF c, l, m, n
<1>4. ASSUME NEW i \in Nat, i > m, i <= m + n PROVE c[i] = q[i - m] /\ i - m \in 1 .. n
  <2>1. i - m \in 1 .. n /\ m + (i - m) = i
    BY <1>1, <1>4
  <2>2. QED
    BY <1>1, <2>1
<1>5. ASSUME NEW i \in Nat, i > 0, i <= m PROVE c[i] = w[i]
  BY <1>1, <1>5
<1>6. s + 1 <= m + n => c[s + 1] = l
  BY <1>1, <1>2, <1>3, <1>4, <1>5
<1>7. s + 2 <= m + n => c[s + 2] = Colon
  BY <1>1, <1>2, <1>3, <1>4, <1>5
<1>8. ASSUME NEW i \in 1 .. l, s + 2 + i <= m + n PROVE c[s + 2 + i] = p[i]
  <2>1. CASE s + 2 + i <= m
    BY <1>2, <1>5, <1>8, <2>1
  <2>2. CASE s + 2 + i > m
    <3>1. m = s + 2 /\ n <= l /\ \A j \in 1 .. n : q[j] = p[j]
      <4>1. s + 2 + i > s + 2 /\ s + 2 + i <= s + 2 + l
        BY <1>1, <1>8
      <4>2. ~(m = s + 2 + l) /\ ~(s + 3 + l <= m)
        BY <1>1, <2>2, <4>1
      <4>3. ~(m = s /\ n <= 2)
        BY <1>1, <1>8
      <4>4. QED
        BY <1>3, <4>2, <4>3
    <3>2. i <= n /\ i \in 1 .. n
      BY <1>1, <1>8, <3>1
    <3>3. c[m + i] = q[i] /\ m + i = s + 2 + i
      BY <1>1, <3>1, <3>2
    <3>4. QED
      BY <3>1, <3>2, <3>3
  <2>3. QED
    BY <1>1, <1>8, <2>1, <2>2
<1>9. s + 3 + l <= m + n => c[s + 3 + l] = Comma
  BY <1>1, <1>2, <1>3, <1>4, <1>5
<1>10. QED
  BY <1>1, <1>6, <1>7, <1>8, <1>9 DEF Framed, c, l

\* Bytes of the last message only.
LEMMA LayoutGrows ==
  ASSUME NEW start, NEW messages, NEW w, NEW q \in Seq(Byte), Layout(start, messages, w),
         Len(messages) > 0, Len(w) + Len(q) <= start[Len(start)],
         Follows(w, q, start[Len(messages)], messages[Len(messages)])
  PROVE  Layout(start, messages, w \o q)
<1> DEFINE n == Len(messages)
           c == w \o q
<1>0. /\ messages \in Seq(Short) /\ w \in Seq(Byte) /\ start \in Seq(Nat) /\ Len(start) = n + 1
      /\ n \in Nat \ {0} /\ Len(w) \in Nat /\ Len(q) \in Nat
  BY DEF Layout
<1>1. /\ \A i \in 1 .. n : start[i + 1] = start[i] + 3 + Len(messages[i])
                           /\ Framed(w, start[i], messages[i])
      /\ \A i, j \in 1 .. Len(start) : i <= j => start[i] <= start[j]
  BY DEF Layout
<1>2. c \in Seq(Byte) /\ Len(c) = Len(w) + Len(q)
  BY <1>0, ConcatFacts
<1> HIDE DEF n
<1>a. ASSUME NEW i \in 1 .. n
      PROVE  /\ start[i] \in Nat /\ start[i + 1] \in Nat
             /\ messages[i] \in Seq(Byte) /\ Len(messages[i]) \in Nat
  <2>1. i \in 1 .. Len(start) /\ i + 1 \in 1 .. Len(start) /\ i \in 1 .. Len(messages)
    BY <1>0 DEF n
  <2>2. start[i] \in Nat /\ start[i + 1] \in Nat /\ messages[i] \in Short
    BY <1>0, <2>1
  <2>3. QED
    BY <2>2 DEF Short
<1>b. n \in 1 .. n /\ Follows(w, q, start[n], messages[n])
  BY <1>0 DEF n
<1>3. ASSUME NEW i \in 1 .. n PROVE Framed(c, start[i], messages[i])
  <2>1. /\ start[i] \in Nat /\ messages[i] \in Seq(Byte) /\ Framed(w, start[i], messages[i])
        /\ start[i + 1] = start[i] + 3 + Len(messages[i])
    BY <1>1, <1>a
  <2>2. CASE i = n
    BY <1>0, <1>b, <2>1, <2>2, FrameGrows
  <2>3. CASE i # n
    <3>1. i + 1 \in 1 .. n + 1 /\ n \in 1 .. n + 1 /\ i + 1 <= n
      BY <1>0, <2>3
    <3>2. start[i + 1] <= start[n]
      BY <1>0, <1>1, <3>1
    <3>3. start[n] \in Nat /\ Len(messages[n]) \in Nat /\ start[i + 1] \in Nat
      BY <1>a, <1>b
    <3>4. start[n] <= Len(w)
      <4>1. \/ Len(w) = start[n] \/ Len(w) = start[n] + 2
            \/ Len(w) = start[n] + 2 + Len(messages[n])
        BY <1>b DEF Follows
      <4> DEFINE x == start[n]
                 y == Len(messages[n])
                 z == Len(w)
      <4>2. x \in Nat /\ y \in Nat /\ (z = x \/ z = x + 2 \/ z = x + 2 + y)
        BY <3>3, <4>1
      <4> HIDE DEF x, y, z
      <4>3. x <= z
        BY <4>2
      <4>4. QED
        BY <4>3 DEF x, z
    <3>5. start[i] + 3 + Len(messages[i]) <= Len(w)
      BY <1>0, <2>1, <3>2, <3>3, <3>4
    <3>6. QED
      BY <1>0, <2>1, <3>5, FrameGrows
  <2>4. QED
    BY <2>2, <2>3
<1> HIDE DEF c
<1>4. Layout(start, messages, c)
  <2>1. Len(c) <= start[Len(start)]
    BY <1>2
  <2>2. QED
    BY <1>0, <1>1, <1>2, <1>3, <2>1 DEF Layout, n
<1>5. QED
  BY <1>4 DEF c

\* A new message, of which nothing is there yet.
LEMMA LayoutAppends ==
  ASSUME NEW start, NEW messages, NEW w, NEW p \in Short, Layout(start, messages, w),
         Len(w) = start[Len(start)]
  PROVE  Layout(Append(start, start[Len(start)] + 3 + Len(p)), Append(messages, p), w)
<1> DEFINE n == Len(messages)
           m == Append(messages, p)
           last == start[n + 1]
           next == last + 3 + Len(p)
           t == Append(start, next)
<1>1. /\ messages \in Seq(Short) /\ w \in Seq(Byte) /\ start \in Seq(Nat) /\ Len(start) = n + 1
      /\ n \in Nat /\ Len(w) = last /\ start[1] = 0 /\ Len(p) \in Nat
      /\ \A i \in 1 .. n : start[i + 1] = start[i] + 3 + Len(messages[i])
                           /\ Framed(w, start[i], messages[i])
      /\ \A i, j \in 1 .. n + 1 : i <= j => start[i] <= start[j]
  BY DEF Layout, Short
<1>2. last \in Nat /\ next \in Nat /\ \A i \in 1 .. n + 1 : start[i] \in Nat
  BY <1>1
<1>3. m \in Seq(Short) /\ Len(m) = n + 1 /\ m[n + 1] = p /\ \A i \in 1 .. n : m[i] = messages[i]
  BY <1>1, AppendProperties
<1> HIDE DEF m, next
<1>4. t \in Seq(Nat) /\ Len(t) = n + 2 /\ t[n + 2] = next /\ \A i \in 1 .. n + 1 : t[i] = start[i]
  <2>1. t \in Seq(Nat) /\ Len(t) = Len(start) + 1 /\ t[Len(start) + 1] = next
        /\ \A i \in 1 .. Len(start) : t[i] = start[i]
    BY <1>1, <1>2, AppendProperties
  <2>2. QED
    BY <1>1, <2>1
<1> HIDE DEF t, last, n
<1>5. t[1] = 0
  BY <1>1, <1>4
<1>6. ASSUME NEW i \in 1 .. n + 1
      PROVE  t[i + 1] = t[i] + 3 + Len(m[i]) /\ Framed(w, t[i], m[i])
  <2>1. CASE i = n + 1
    <3>1. t[i] = last /\ t[i + 1] = next /\ m[i] = p
      BY <1>1, <1>3, <1>4, <2>1 DEF last
    <3>2. Framed(w, last, p)
      BY <1>1, <1>2 DEF Framed
    <3>3. QED
      BY <3>1, <3>2 DEF next
  <2>2. CASE i # n + 1
    <3>1. i \in 1 .. n /\ i + 1 \in 1 .. n + 1
      BY <1>1, <2>2
    <3>2. t[i] = start[i] /\ t[i + 1] = start[i + 1] /\ m[i] = messages[i]
      BY <1>3, <1>4, <3>1
    <3>3. QED
      BY <1>1, <3>1, <3>2
  <2>3. QED
    BY <2>1, <2>2
<1>7. ASSUME NEW i \in 1 .. n + 2, NEW j \in 1 .. n + 2, i <= j PROVE t[i] <= t[j]
  <2>1. CASE j \in 1 .. n + 1
    <3>1. i \in 1 .. n + 1
      BY <1>1, <1>7, <2>1
    <3>2. QED
      BY <1>1, <1>4, <1>7, <2>1, <3>1
  <2>2. CASE j = n + 2 /\ i \in 1 .. n + 1
    <3>1. start[i] <= last /\ last \in Nat
      <4>1. n + 1 \in 1 .. n + 1 /\ i <= n + 1
        BY <1>1, <2>2
      <4>2. QED
        BY <1>1, <1>2, <2>2, <4>1 DEF last
    <3>2. last <= next
      BY <1>1, <1>2 DEF next
    <3>3. QED
      BY <1>1, <1>2, <1>4, <2>2, <3>1, <3>2
  <2>3. CASE i = n + 2
    <3>1. j = n + 2
      BY <1>1, <1>7, <2>3
    <3>2. QED
      BY <1>2, <1>4, <2>3, <3>1
  <2>4. QED
    BY <1>1, <2>1, <2>2, <2>3
<1>8. Len(w) <= t[n + 2]
  BY <1>1, <1>2, <1>4 DEF next
<1>9. Layout(t, m, w)
  BY <1>1, <1>3, <1>4, <1>5, <1>6, <1>7, <1>8 DEF Layout
<1>10. QED
  BY <1>1, <1>9 DEF t, m, next, last

-----------------------------------------------------------------------------
\* The sender.

LEMMA HeaderFacts ==
  ASSUME NEW l \in 1 .. 9
  PROVE  Header(l) \in Seq(Byte) /\ Len(Header(l)) = 2 /\ Header(l)[1] = l /\ Header(l)[2] = Colon
<1> DEFINE a == <<l>>
           b == <<Colon>>
           c == a \o b
<1>1. a \in Seq(Byte) /\ b \in Seq(Byte) /\ Len(a) = 1 /\ Len(b) = 1 /\ a[1] = l /\ b[1] = Colon
  BY DEF Byte, Digit, Colon
<1>2. Header(l) = c
  BY DEF Header
<1> HIDE DEF a, b
<1>a. a \in Seq(Byte) /\ b \in Seq(Byte)
  BY <1>1
<1>3. /\ c \in Seq(Byte) /\ Len(c) = Len(a) + Len(b)
      /\ \A i \in 1 .. Len(a) : c[i] = a[i]
      /\ \A i \in 1 .. Len(b) : c[Len(a) + i] = b[i]
  BY <1>a, ConcatFacts
<1> HIDE DEF c
<1>4. 1 \in 1 .. Len(a) /\ 1 \in 1 .. Len(b) /\ Len(a) + 1 = 2 /\ Len(a) + Len(b) = 2
  BY <1>1
<1>5. c[1] = l /\ c[Len(a) + 1] = Colon
  BY <1>1, <1>3, <1>4
<1>6. QED
  BY <1>2, <1>3, <1>4, <1>5

LEMMA PartsFacts ==
  ASSUME NEW a, NEW b, NEW c
  PROVE  /\ Head(<<a, b, c>>) = a /\ Tail(<<a, b, c>>) = <<b, c>>
         /\ Head(<<b, c>>) = b /\ Tail(<<b, c>>) = <<c>>
         /\ Head(<<c>>) = c /\ Tail(<<c>>) = <<>>
         /\ <<a, b, c>> # <<>> /\ <<b, c>> # <<>> /\ <<c>> # <<>>
OBVIOUS

LEMMA ShortFacts ==
  ASSUME NEW p \in Short
  PROVE  p \in Seq(Byte) /\ Len(p) \in 1 .. 9 /\ Len(p) \in Nat
<1>1. p \in Seq(Byte) /\ 0 < Len(p) /\ Len(p) < 10
  BY DEF Short
<1> DEFINE n == Len(p)
<1>2. n \in Nat
  BY <1>1
<1> HIDE DEF n
<1>3. 0 < n /\ n < 10
  BY <1>1 DEF n
<1>4. n \in 1 .. 9
  BY <1>2, <1>3
<1>5. QED
  BY <1>1, <1>2, <1>4 DEF n

\* The receiver is where it was when messages and bytes have come.
LEMMA ReaderStays ==
  ASSUME NEW start, NEW next, NEW messages, NEW more, NEW w, NEW longer,
         Layout(start, messages, w), ReaderAt(start, messages, w), cut => w = longer,
         Len(w) \in Nat, Len(longer) \in Nat, Len(w) <= Len(longer),
         Len(more) \in Nat, Len(messages) <= Len(more),
         \A i \in 1 .. Len(messages) : more[i] = messages[i],
         \A i \in 1 .. Len(messages) + 1 : next[i] = start[i]
  PROVE  ReaderAt(next, more, longer)
<1> DEFINE k == Len(received)
           n == Len(messages)
<1>1. /\ reader \in Reader /\ received \in Seq(Short) /\ k <= n
      /\ \A i \in 1 .. k : received[i] = messages[i]
      /\ consumed \in Nat /\ consumed <= Len(w)
      /\ \/ cut /\ consumed = Len(w)
         \/ Between(reader, start[k + 1], consumed)
         \/ k < n /\ InMessage(reader, start[k + 1], messages[k + 1], consumed)
  BY DEF ReaderAt
<1>2. k \in Nat /\ n \in Nat
  BY <1>1 DEF Layout
<1> HIDE DEF k, n
<1>3. next[k + 1] = start[k + 1] /\ (k < n => more[k + 1] = messages[k + 1])
  <2>1. k + 1 \in 1 .. n + 1 /\ (k < n => k + 1 \in 1 .. n)
    BY <1>1, <1>2
  <2>2. QED
    BY <2>1 DEF n
<1>4. \A i \in 1 .. k : received[i] = more[i]
  <2>1. \A i \in 1 .. k : i \in 1 .. n
    BY <1>1, <1>2
  <2>2. QED
    BY <1>1, <2>1 DEF n
<1>5. k <= Len(more) /\ (k < n => k < Len(more)) /\ consumed <= Len(longer)
  BY <1>1, <1>2 DEF n
<1>6. \/ cut /\ consumed = Len(longer)
      \/ Between(reader, next[k + 1], consumed)
      \/ k < Len(more) /\ InMessage(reader, next[k + 1], more[k + 1], consumed)
  BY <1>1, <1>3, <1>5
<1>7. QED
  BY <1>1, <1>4, <1>5, <1>6 DEF ReaderAt, k

LEMMA NetSendKeeps ==
  ASSUME NetInv, tcs_send_netstring
  PROVE  NetInv'
<1>1. PICK p \in Payloads \ {<<>>} :
        /\ sent' = Append(sent, p)
        /\ parts' = <<Header(Len(p)), p, <<Comma>>>>
        /\ exact' = (exact /\ Len(p) < 10)
  BY DEF tcs_send_netstring
<1>2. parts = <<>> /\ ~cut /\ UNCHANGED <<wire, cut, consumed, reader, received>>
  BY DEF tcs_send_netstring
<1>3. cut' \in BOOLEAN /\ exact' \in BOOLEAN
  BY <1>1, <1>2 DEF NetInv
<1>4. ASSUME exact'
      PROVE  \E start : (Layout(start, sent, wire) /\ SenderAt(start) /\ ReaderAt(start, sent, wire))'
  <2>1. exact /\ Len(p) < 10
    BY <1>1, <1>4
  <2>2. p \in Short
    <3>1. p \in Seq(Byte) /\ p # <<>>
      BY NetstringAssumption
    <3>2. Len(p) > 0
      BY <3>1
    <3>3. QED
      BY <2>1, <3>1, <3>2 DEF Short
  <2>3. PICK start : Layout(start, sent, wire) /\ SenderAt(start) /\ ReaderAt(start, sent, wire)
    BY <2>1 DEF NetInv
  <2> DEFINE n == Len(sent)
             next == Append(start, start[Len(start)] + 3 + Len(p))
  <2>4. /\ n \in Nat /\ Len(start) = n + 1 /\ start \in Seq(Nat) /\ sent \in Seq(Short)
        /\ start[Len(start)] \in Nat /\ Len(wire) \in Nat
    BY <2>3 DEF Layout
  <2>5. Len(wire) = start[n + 1]
    BY <1>2, <2>3, PartsFacts DEF SenderAt
  <2>6. Layout(next, sent', wire)
    BY <1>1, <2>2, <2>3, <2>4, <2>5, LayoutAppends
  <2>7. start[Len(start)] + 3 + Len(p) \in Nat
    BY <2>2, <2>4, ShortFacts
  <2>8. Len(next) = n + 2 /\ \A i \in 1 .. n + 1 : next[i] = start[i]
    BY <2>4, <2>7, AppendProperties
  <2>9. /\ Len(sent') = n + 1 /\ sent'[n + 1] = p
        /\ \A i \in 1 .. n : sent'[i] = sent[i]
    BY <1>1, <2>2, <2>4, AppendProperties
  <2> HIDE DEF next, n
  <2>10. SenderAt(next)'
    <3>1. n + 1 \in 1 .. n + 1 /\ n + 1 > 0
      BY <2>4
    <3>2. Len(wire') = next[n + 1]
      BY <1>2, <2>5, <2>8, <3>1
    <3>3. parts' = <<Header(Len(sent'[n + 1])), sent'[n + 1], <<Comma>>>>
      BY <1>1, <2>9
    <3>4. ~cut'
      BY <1>2
    <3>5. QED
      BY <2>9, <3>1, <3>2, <3>3, <3>4 DEF SenderAt
  <2>11. ReaderAt(next, sent', wire)
    <3>1. /\ Layout(start, sent, wire) /\ ReaderAt(start, sent, wire)
          /\ Len(wire) \in Nat /\ Len(wire) <= Len(wire)
      BY <2>3, <2>4
    <3>2. /\ Len(sent') \in Nat /\ Len(sent) <= Len(sent')
          /\ \A i \in 1 .. Len(sent) : sent'[i] = sent[i]
          /\ \A i \in 1 .. Len(sent) + 1 : next[i] = start[i]
      BY <2>4, <2>8, <2>9 DEF n
    <3> DEFINE more == sent'
    <3> HIDE DEF more
    <3>3. /\ Len(more) \in Nat /\ Len(sent) <= Len(more)
          /\ \A i \in 1 .. Len(sent) : more[i] = sent[i]
      BY <3>2 DEF more
    <3>4. ReaderAt(next, more, wire)
      BY <3>1, <3>2, <3>3, ReaderStays
    <3>5. QED
      BY <3>4 DEF more
  <2>12. ReaderAt(next, sent, wire)'
    BY <1>2, <2>11 DEF ReaderAt
  <2>13. QED
    BY <1>2, <2>6, <2>10, <2>12
<1>5. QED
  BY <1>3, <1>4 DEF NetInv

\* A part, or the beginning of one, is the next bytes of the message.
LEMMA NextBytes ==
  ASSUME NEW start, NEW q \in Seq(Byte), Layout(start, sent, wire), ReaderAt(start, sent, wire),
         ~cut, Len(sent) > 0, Len(wire) + Len(q) <= start[Len(sent) + 1],
         Follows(wire, q, start[Len(sent)], sent[Len(sent)])
  PROVE  Layout(start, sent, wire \o q) /\ ReaderAt(start, sent, wire \o q)
<1> DEFINE w == wire \o q
<1>1. /\ sent \in Seq(Short) /\ wire \in Seq(Byte) /\ Len(start) = Len(sent) + 1
  BY DEF Layout
<1>2. Layout(start, sent, w)
  BY <1>1, LayoutGrows
<1>3. Len(w) \in Nat /\ Len(wire) \in Nat /\ Len(q) \in Nat /\ Len(w) = Len(wire) + Len(q)
  BY <1>1, ConcatFacts
<1> HIDE DEF w
<1>4. Len(wire) <= Len(w)
  BY <1>3
<1>5. /\ Len(sent) \in Nat /\ Len(sent) <= Len(sent)
      /\ \A i \in 1 .. Len(sent) : sent[i] = sent[i]
      /\ \A i \in 1 .. Len(sent) + 1 : start[i] = start[i]
  BY <1>1
<1>6. ReaderAt(start, sent, w)
  BY <1>3, <1>4, <1>5, ReaderStays
<1>7. QED
  BY <1>2, <1>6 DEF w

LEMMA SendPartKeeps ==
  ASSUME NetInv, SendPart
  PROVE  NetInv'
<1>1. UNCHANGED <<sent, consumed, reader, received, exact>> /\ parts # <<>>
  BY DEF SendPart
<1>2. cut' \in BOOLEAN /\ exact' \in BOOLEAN
  BY <1>1 DEF NetInv, SendPart
<1>3. ASSUME exact'
      PROVE  \E start : (Layout(start, sent, wire) /\ SenderAt(start) /\ ReaderAt(start, sent, wire))'
  <2>1. PICK start : Layout(start, sent, wire) /\ SenderAt(start) /\ ReaderAt(start, sent, wire)
    BY <1>1, <1>3 DEF NetInv
  <2> DEFINE n == Len(sent)
             p == sent[n]
             s == start[n]
             m == Len(wire)
             part == Head(parts)
  <2>2. /\ n \in Nat /\ m \in Nat /\ wire \in Seq(Byte) /\ start \in Seq(Nat)
        /\ sent \in Seq(Short) /\ Len(start) = n + 1
    BY <2>1 DEF Layout
  <2>3. ~cut /\ n > 0
    BY <1>1, <2>1 DEF SenderAt
  <2>4. p \in Seq(Byte) /\ Len(p) \in 1 .. 9 /\ Len(p) \in Nat /\ s \in Nat
        /\ start[n + 1] = s + 3 + Len(p)
    <3>1. n \in 1 .. n /\ n \in 1 .. Len(start)
      BY <2>2, <2>3
    <3>2. p \in Short /\ s \in Nat
      BY <2>2, <3>1
    <3>3. start[n + 1] = s + 3 + Len(p)
      BY <2>1, <3>1 DEF Layout
    <3>4. QED
      BY <3>2, <3>3, ShortFacts
  <2> DEFINE l == Len(p)
             comma == <<Comma>>
             header == Header(l)
             Next3(q) == /\ q \in Seq(Byte) /\ m + Len(q) <= start[n + 1]
                         /\ Follows(wire, q, s, p)
             Left(q) == \/ cut' /\ parts' = <<>>
                        \/ ~cut' /\ parts' = Tail(parts) /\ q = part
  <2>5. ASSUME NEW q, Next3(q), wire' = wire \o q
        PROVE  Layout(start, sent', wire') /\ ReaderAt(start, sent, wire)'
    <3>1. Layout(start, sent, wire \o q) /\ ReaderAt(start, sent, wire \o q)
      BY <2>1, <2>3, <2>5, NextBytes
    <3>2. QED
      BY <1>1, <2>3, <2>5, <3>1 DEF ReaderAt
  <2> DEFINE last == start[n + 1]
  <2>a. /\ s \in Nat /\ l \in Nat /\ m \in Nat /\ l \in 1 .. 9 /\ last = s + 3 + l
    BY <2>2, <2>4
  <2>6. comma \in Seq(Byte) /\ Len(comma) = 1 /\ comma[1] = Comma
    BY DEF Byte, Comma
  <2>7. header \in Seq(Byte) /\ Len(header) = 2 /\ header[1] = l /\ header[2] = Colon
    BY <2>4, HeaderFacts
  <2>8. \/ parts = <<header, p, comma>> /\ m = s
        \/ parts = <<p, comma>> /\ m = s + 2
        \/ parts = <<comma>> /\ m = s + 2 + l
    BY <1>1, <2>1 DEF SenderAt
  <2>9. part \in Seq(Byte) /\ Len(part) \in Nat
    <3>1. part \in {header, p, comma}
      BY <2>8, PartsFacts
    <3>2. part \in Seq(Byte)
      BY <2>4, <2>6, <2>7, <3>1
    <3>3. QED
      BY <3>2
  <2>10. \E q : /\ q \in Seq(Byte) /\ Len(q) \in Nat /\ Len(q) <= Len(part)
                /\ \A i \in 1 .. Len(q) : q[i] = part[i]
                /\ wire' = wire \o q /\ Left(q)
    <3>1. CASE wire' = wire \o part /\ parts' = Tail(parts) /\ UNCHANGED cut
      <4>1. Left(part)
        BY <2>3, <3>1
      <4>2. Len(part) <= Len(part) /\ \A i \in 1 .. Len(part) : part[i] = part[i]
        BY <2>9
      <4> HIDE DEF part
      <4>3. QED
        BY <2>9, <3>1, <4>1, <4>2
    <3>2. CASE \E k \in 0 .. Len(part) - 1 : wire' = wire \o SubSeq(part, 1, k)
                                             /\ parts' = <<>> /\ cut' = TRUE
      <4>0. PICK k \in 0 .. Len(part) - 1 : wire' = wire \o SubSeq(part, 1, k)
                                            /\ parts' = <<>> /\ cut' = TRUE
        BY <3>2
      <4>1. k \in Nat /\ k <= Len(part)
        BY <2>9
      <4> DEFINE q == SubSeq(part, 1, k)
      <4> HIDE DEF part
      <4>2. q \in Seq(Byte) /\ Len(q) = k /\ \A i \in 1 .. k : q[i] = part[i]
        BY <2>9, <4>1, PrefixFacts
      <4> HIDE DEF q
      <4>3. wire' = wire \o q
        BY <4>0 DEF q, part
      <4>4. QED
        BY <4>0, <4>1, <4>2, <4>3 DEF part
    <3>3. QED
      <4>1. \/ wire' = wire \o part /\ parts' = Tail(parts) /\ UNCHANGED cut
            \/ \E k \in 0 .. Len(part) - 1 : wire' = wire \o SubSeq(part, 1, k)
                                              /\ parts' = <<>> /\ cut' = TRUE
        BY DEF SendPart
      <4>2. QED
        BY <3>1, <3>2, <4>1
  <2>11. PICK q : /\ q \in Seq(Byte) /\ Len(q) \in Nat /\ Len(q) <= Len(part)
                  /\ \A i \in 1 .. Len(q) : q[i] = part[i]
                  /\ wire' = wire \o q /\ Left(q)
    BY <2>10
  <2>12. SUFFICES Next3(q) /\ SenderAt(start)'
    BY <2>5, <2>11, <1>1
  <2>13. Len(wire') = m + Len(q)
    BY <2>2, <2>11, ConcatFacts
  <2>14. CASE parts = <<header, p, comma>> /\ m = s
    <3>1. part = header /\ Tail(parts) = <<p, comma>>
      BY <2>14, PartsFacts
    <3>2. Next3(q)
      <4>1. Len(q) <= 2 /\ (Len(q) >= 1 => q[1] = l) /\ (Len(q) >= 2 => q[2] = Colon)
        <5> HIDE DEF part, header, l
        <5>1. Len(q) <= 2
          BY <2>7, <2>11, <3>1
        <5>2. Len(q) >= 1 => 1 \in 1 .. Len(q)
          BY <2>11
        <5>3. Len(q) >= 2 => 2 \in 1 .. Len(q)
          BY <2>11
        <5>4. QED
          BY <2>7, <2>11, <3>1, <5>1, <5>2, <5>3
      <4>2. m + Len(q) <= start[n + 1]
        <5> HIDE DEF n, p, s, l, m, part, last
        <5>1. m + Len(q) <= last
          BY <2>a, <2>11, <2>14, <4>1
        <5>2. QED
          BY <5>1 DEF last
      <4>3. QED
        BY <2>11, <2>14, <4>1, <4>2 DEF Follows
    <3>3. SenderAt(start)'
      <4>1. CASE cut' /\ parts' = <<>>
        BY <4>1 DEF SenderAt
      <4>2. CASE ~cut' /\ parts' = Tail(parts) /\ q = part
        <5>1. parts' = <<p, comma>> /\ Len(wire') = s + 2
          BY <2>7, <2>13, <2>14, <3>1, <4>2
        <5>2. QED
          BY <1>1, <2>3, <4>2, <5>1 DEF SenderAt
      <4>3. QED
        BY <2>11, <4>1, <4>2
    <3>4. QED
      BY <3>2, <3>3
  <2>15. CASE parts = <<p, comma>> /\ m = s + 2
    <3>1. part = p /\ Tail(parts) = <<comma>>
      BY <2>15, PartsFacts
    <3>2. Next3(q)
      <4>1. m + Len(q) <= start[n + 1]
        <5>1. Len(q) <= l
          BY <2>11, <3>1
        <5> HIDE DEF n, p, s, l, m, part, last
        <5>2. m + Len(q) <= last
          BY <2>a, <2>11, <2>15, <5>1
        <5>3. QED
          BY <5>2 DEF last
      <4>2. QED
        BY <2>11, <2>15, <3>1, <4>1 DEF Follows
    <3>3. SenderAt(start)'
      <4>1. CASE cut' /\ parts' = <<>>
        BY <4>1 DEF SenderAt
      <4>2. CASE ~cut' /\ parts' = Tail(parts) /\ q = part
        <5>1. parts' = <<comma>> /\ Len(wire') = s + 2 + l
          BY <2>13, <2>15, <3>1, <4>2
        <5>2. QED
          BY <1>1, <2>3, <4>2, <5>1 DEF SenderAt
      <4>3. QED
        BY <2>11, <4>1, <4>2
    <3>4. QED
      BY <3>2, <3>3
  <2>16. CASE parts = <<comma>> /\ m = s + 2 + l
    <3>1. part = comma /\ Tail(parts) = <<>>
      BY <2>16, PartsFacts
    <3>2. Next3(q)
      <4>1. Len(q) <= 1 /\ (Len(q) = 1 => q[1] = Comma)
        BY <2>6, <2>11, <3>1
      <4>2. m + Len(q) <= start[n + 1]
        <5> HIDE DEF n, p, s, l, m, part, last
        <5>1. m + Len(q) <= last
          BY <2>a, <2>11, <2>16, <4>1
        <5>2. QED
          BY <5>1 DEF last
      <4>3. QED
        BY <2>11, <2>16, <4>1, <4>2 DEF Follows
    <3>3. SenderAt(start)'
      <4>1. CASE cut' /\ parts' = <<>>
        BY <4>1 DEF SenderAt
      <4>2. CASE ~cut' /\ parts' = Tail(parts) /\ q = part
        <5>1. parts' = <<>> /\ Len(wire') = (s + 2 + l) + 1
          BY <2>6, <2>13, <2>16, <3>1, <4>2
        <5>2. Len(wire') = start[n + 1]
          <6> HIDE DEF n, p, s, l, m, part, last
          <6>1. Len(wire') = last
            BY <2>a, <5>1
          <6>2. QED
            BY <6>1 DEF last
        <5>3. QED
          BY <1>1, <4>2, <5>1, <5>2 DEF SenderAt
      <4>3. QED
        BY <2>11, <4>1, <4>2
    <3>4. QED
      BY <3>2, <3>3
  <2>17. QED
    BY <2>8, <2>14, <2>15, <2>16
<1>4. QED
  BY <1>2, <1>3 DEF NetInv

-----------------------------------------------------------------------------
\* The receiver.

LEMMA NoReadFacts ==
  ASSUME NEW x \in {"none", "success", "not_connected", "timed_out", "memory"}
  PROVE  /\ [NoRead EXCEPT !.sts = x] \in Reader
         /\ \A s : Between([NoRead EXCEPT !.sts = x], s, s)
         /\ [NoRead EXCEPT !.at = "header"] \in Reader
         /\ \A s : Between([NoRead EXCEPT !.at = "header"], s, s)
<1>1. <<>> \in Seq(Byte)
  OBVIOUS
<1> DEFINE a == [NoRead EXCEPT !.sts = x]
           b == [NoRead EXCEPT !.at = "header"]
<1>2. a = [at |-> "idle", parsed |-> 0, expected |-> 0, payload |-> <<>>, sts |-> x]
  BY DEF NoRead
<1>3. b = [at |-> "header", parsed |-> 0, expected |-> 0, payload |-> <<>>, sts |-> "none"]
  BY DEF NoRead
<1> HIDE DEF a, b
<1>4. a \in Reader /\ b \in Reader
  BY <1>1, <1>2, <1>3 DEF Reader
<1>5. (\A s : Between(a, s, s)) /\ (\A s : Between(b, s, s))
  BY <1>2, <1>3 DEF Between
<1>6. QED
  BY <1>4, <1>5 DEF a, b

\* Where the message stands that the receiver is in.
LEMMA MessageAt ==
  ASSUME NEW start, Layout(start, sent, wire), ReaderAt(start, sent, wire),
         Len(received) < Len(sent)
  PROVE  LET k == Len(received)
             p == sent[k + 1]
             s == start[k + 1]
         IN  /\ p \in Seq(Byte) /\ Len(p) \in 1 .. 9 /\ Len(p) \in Nat /\ p \in Short
             /\ s \in Nat /\ start[(k + 1) + 1] = s + 3 + Len(p) /\ Framed(wire, s, p)
<1> DEFINE j == Len(received) + 1
<1>1. Len(received) \in Nat /\ Len(sent) \in Nat
  BY DEF ReaderAt, Layout
<1>2. j \in 1 .. Len(sent) /\ j \in 1 .. Len(sent) + 1
  BY <1>1
<1> HIDE DEF j
<1>3. sent[j] \in Short /\ start[j] \in Nat
  <2>1. sent \in Seq(Short) /\ start \in Seq(Nat) /\ Len(start) = Len(sent) + 1
    BY DEF Layout
  <2>2. QED
    BY <1>2, <2>1
<1>4. start[j + 1] = start[j] + 3 + Len(sent[j]) /\ Framed(wire, start[j], sent[j])
  BY <1>2 DEF Layout
<1>5. QED
  BY <1>3, <1>4, ShortFacts DEF j

\* Behind the last message there is nothing to read.
LEMMA SomethingComes ==
  ASSUME NEW start, Layout(start, sent, wire), ReaderAt(start, sent, wire),
         consumed = start[Len(received) + 1], There > 0
  PROVE  Len(received) < Len(sent)
<1> DEFINE k == Len(received)
           n == Len(sent)
<1>1. k \in Nat /\ n \in Nat /\ k <= n /\ Len(wire) \in Nat /\ consumed \in Nat
  BY DEF ReaderAt, Layout
<1>2. Len(wire) > consumed
  BY <1>1 DEF There
<1>3. Len(start) = n + 1 /\ Len(wire) <= start[Len(start)]
  BY DEF Layout
<1> HIDE DEF k, n
<1>4. ASSUME k = n PROVE FALSE
  <2>1. Len(wire) <= consumed
    BY <1>3, <1>4 DEF k
  <2>2. QED
    BY <1>1, <1>2, <2>1
<1>5. k < n
  BY <1>1, <1>4
<1>6. QED
  BY <1>5 DEF k, n

\* A call returns with the bytes that have been read where they were.
LEMMA CallReturns ==
  ASSUME NEW start, ReaderAt(start, sent, wire), Len(wire) \in Nat,
         UNCHANGED <<sent, wire, cut, received, consumed>>,
         NEW x \in {"none", "success", "not_connected", "timed_out", "memory"},
         reader' = [NoRead EXCEPT !.sts = x] \/ reader' = [NoRead EXCEPT !.at = "header"],
         (cut /\ There = 0) \/ consumed = start[Len(received) + 1]
  PROVE  ReaderAt(start, sent, wire)'
<1>1. reader' \in Reader /\ \A s : Between(reader', s, s)
  BY NoReadFacts
<1>2. consumed \in Nat /\ received \in Seq(Short) /\ consumed <= Len(wire)
  BY DEF ReaderAt
<1>3. There = 0 /\ cut => consumed = Len(wire)
  <2> DEFINE w == Len(wire)
  <2>1. w \in Nat
    OBVIOUS
  <2> HIDE DEF w
  <2>2. w - consumed = 0 => consumed = w
    BY <1>2, <2>1
  <2>3. QED
    BY <2>2 DEF There, w
<1>4. QED
  BY <1>1, <1>3 DEF ReaderAt

\* What the steps of the receiver have in common: the bytes are those that
\* came, and nothing has spoilt the comparison yet.
Receiving(start) ==
  /\ Layout(start, sent, wire) /\ ReaderAt(start, sent, wire)
  /\ exact /\ exact' /\ UNCHANGED <<sent, parts, wire, cut>>

LEMMA ReceivingFacts ==
  ASSUME NEW start, Receiving(start)
  PROVE  /\ Len(wire) \in Nat /\ consumed \in Nat /\ consumed <= Len(wire)
         /\ There \in Nat /\ consumed + There = Len(wire)
         /\ reader \in Reader /\ wire \in Seq(Byte) /\ received \in Seq(Short)
         /\ Len(received) \in Nat /\ Len(received) <= Len(sent) /\ Len(sent) \in Nat
<1>1. /\ Len(wire) \in Nat /\ wire \in Seq(Byte) /\ Len(sent) \in Nat
  BY DEF Receiving, Layout
<1>2. /\ consumed \in Nat /\ consumed <= Len(wire) /\ reader \in Reader
      /\ received \in Seq(Short) /\ Len(received) \in Nat /\ Len(received) <= Len(sent)
  BY DEF Receiving, ReaderAt
<1>3. There \in Nat /\ consumed + There = Len(wire)
  BY <1>1, <1>2 DEF There
<1>4. QED
  BY <1>1, <1>2, <1>3

\* The connection was lost and all that came has been read.
Over == cut /\ There = 0

LEMMA Places ==
  ASSUME NEW start, Receiving(start)
  PROVE  LET k == Len(received) IN
         \/ Over
         \/ Between(reader, start[k + 1], consumed)
         \/ k < Len(sent) /\ InMessage(reader, start[k + 1], sent[k + 1], consumed)
<1>1. consumed = Len(wire) => There = 0
  <2> DEFINE w == Len(wire)
  <2>1. w \in Nat
    BY ReceivingFacts
  <2> HIDE DEF w
  <2>2. consumed = w => w - consumed = 0
    BY <2>1
  <2>3. QED
    BY <2>2 DEF There, w
<1>2. QED
  BY <1>1 DEF Receiving, ReaderAt, Over

LEMMA ReadBeginMoves ==
  ASSUME NEW start, Receiving(start), ReadBegin
  PROVE  ReaderAt(start, sent, wire)'
<1>1. Over \/ consumed = start[Len(received) + 1]
  BY Places DEF Between, InMessage, ReadBegin
<1>2. QED
  BY <1>1, ReceivingFacts, CallReturns DEF Receiving, ReadBegin, Over

\* Nothing to read: at the end of the stream, or before the message.
LEMMA NothingMoves ==
  ASSUME NEW start, Receiving(start), NothingComes
  PROVE  ReaderAt(start, sent, wire)'
<1>1. There = 0 /\ UNCHANGED <<consumed, received>>
  BY DEF NothingComes
<1>2. CASE cut /\ ReaderReturns("not_connected")
  BY <1>1, <1>2, ReceivingFacts, CallReturns DEF Receiving, ReaderReturns
<1>3. CASE ReaderReturns("timed_out") /\ reader.at = "header" /\ reader.parsed = 0
  <2>1. Over \/ consumed = start[Len(received) + 1]
    BY <1>3, Places DEF Between, InMessage
  <2>2. QED
    BY <1>1, <1>3, <2>1, ReceivingFacts, CallReturns DEF Receiving, ReaderReturns, Over
<1>4. QED
  BY <1>2, <1>3 DEF NothingComes, Receiving

LEMMA HeaderByteMoves ==
  ASSUME NEW start, Receiving(start), HeaderByte, reader.at = "header"
  PROVE  ReaderAt(start, sent, wire)'
<1> DEFINE k == Len(received)
           s == start[k + 1]
           p == sent[k + 1]
           l == Len(p)
           t == wire[consumed + 1]
<1>1. There > 0 /\ consumed' = consumed + 1 /\ UNCHANGED received
  BY DEF HeaderByte
<1>2. ~Over
  BY <1>1, ReceivingFacts DEF Over
<1>3. \/ consumed = s /\ reader.parsed = 0 /\ reader.expected = 0
      \/ k < Len(sent) /\ consumed = s + 1 /\ reader.parsed = 1 /\ reader.expected = l
  BY <1>2, Places DEF Between, InMessage
<1>4. k < Len(sent)
  <2>1. CASE consumed = s
    BY <1>1, <2>1, SomethingComes DEF Receiving
  <2>2. QED
    BY <1>3, <2>1
<1>5. /\ l \in 1 .. 9 /\ l \in Nat /\ s \in Nat /\ Framed(wire, s, p)
  BY <1>4, MessageAt DEF Receiving
<1>6. consumed + 1 <= Len(wire)
  <2> DEFINE w == Len(wire)
             d == There
  <2>1. w \in Nat /\ consumed \in Nat /\ d \in Nat /\ consumed + d = w /\ d > 0
    BY <1>1, ReceivingFacts
  <2> HIDE DEF w, d
  <2>2. consumed + 1 <= w
    BY <2>1
  <2>3. QED
    BY <2>2 DEF w
<1> DEFINE next == [reader EXCEPT !.parsed = @ + 1]
           more == [next EXCEPT !.expected = @ + t]
<1>7. reader \in Reader /\ reader.sts \in {"none", "success", "not_connected", "timed_out", "memory"}
  BY ReceivingFacts DEF Reader
<1>8. ASSUME reader' \in Reader, InMessage(reader', s, p, consumed')
      PROVE  ReaderAt(start, sent, wire)'
  <2>1. consumed' \in Nat /\ consumed' <= Len(wire)
    BY <1>1, <1>6, ReceivingFacts
  <2>2. QED
    BY <1>1, <1>4, <1>8, <2>1 DEF Receiving, ReaderAt
<1>9. CASE consumed = s /\ reader.parsed = 0 /\ reader.expected = 0
  <2>1. t = l
    BY <1>5, <1>6, <1>9 DEF Framed
  <2>2. t \notin {Comma, Other} /\ t # Colon
    <3> HIDE DEF t, l
    <3>1. QED
      BY <1>5, <2>1 DEF Comma, Other, Colon
  <2>3. IF more.parsed < MaxHeader THEN reader' = more ELSE ReaderReturns("ill_formed")
    BY <2>2 DEF HeaderByte
  <2>4. more = [at |-> "header", parsed |-> 1, expected |-> l, payload |-> reader.payload,
                sts |-> reader.sts]
    <3> HIDE DEF more, next, l, t
    <3>1. next = [at |-> "header", parsed |-> 1, expected |-> 0, payload |-> reader.payload,
                  sts |-> reader.sts]
      BY <1>7, <1>9 DEF Reader, next
    <3>2. QED
      BY <1>5, <2>1, <3>1 DEF more
  <2> HIDE DEF more, next, l, t
  <2>5. more.parsed < MaxHeader
    BY <2>4, NetstringAssumption
  <2>6. reader' = more
    BY <2>3, <2>5
  <2>7. reader' \in Reader
    BY <1>5, <1>7, <2>4, <2>6 DEF Reader
  <2>8. InMessage(reader', s, p, consumed')
    BY <1>1, <1>9, <2>4, <2>6 DEF InMessage, l
  <2>9. QED
    BY <1>8, <2>7, <2>8
<1>10. CASE consumed = s + 1 /\ reader.parsed = 1 /\ reader.expected = l
  <2>1. consumed + 1 = s + 2
    BY <1>5, <1>10
  <2>2. t = Colon
    BY <1>5, <1>6, <2>1 DEF Framed
  <2>3. t \notin {Comma, Other}
    BY <2>2 DEF Comma, Other, Colon
  <2>4. AfterHeader(next)
    BY <2>2, <2>3 DEF HeaderByte
  <2>5. next = [at |-> "header", parsed |-> 2, expected |-> l, payload |-> reader.payload,
                sts |-> reader.sts]
    BY <1>5, <1>7, <1>10 DEF Reader
  <2> HIDE DEF next, l, t
  <2>6. ~(next.parsed >= MaxHeader)
    BY <2>5, NetstringAssumption
  <2>7. reader' = [next EXCEPT !.at = "payload"]
    BY <2>4, <2>6 DEF AfterHeader, Receiving
  <2>8. reader' = [at |-> "payload", parsed |-> 2, expected |-> l, payload |-> reader.payload,
                   sts |-> reader.sts]
    BY <2>5, <2>7
  <2>9. reader' \in Reader
    BY <1>5, <1>7, <2>8 DEF Reader
  <2>10. InMessage(reader', s, p, consumed')
    BY <1>1, <2>1, <2>8 DEF InMessage, l
  <2>11. QED
    BY <1>8, <2>9, <2>10
<1>11. QED
  BY <1>3, <1>9, <1>10

LEMMA ReadPayloadMoves ==
  ASSUME NEW start, Receiving(start), ReadPayload
  PROVE  ReaderAt(start, sent, wire)'
<1> DEFINE k == Len(received)
           s == start[k + 1]
           p == sent[k + 1]
           l == Len(p)
           n == reader.expected
<1>0. reader.at = "payload" /\ UNCHANGED <<sent, parts, wire, cut>>
  BY DEF ReadPayload
<1>1. n \in Nat /\ There \in Nat /\ reader \in Reader
  BY ReceivingFacts DEF Reader
<1>2. CASE NothingComes
  BY <1>2, NothingMoves
<1>3. CASE n = 0
  <2>1. ReaderReturns("not_connected") /\ UNCHANGED <<consumed, received>>
    BY <1>3 DEF ReadPayload
  <2>2. Over
    <3>1. ASSUME k < Len(sent), InMessage(reader, s, p, consumed) PROVE FALSE
      <4>1. l \in 1 .. 9
        BY <3>1, MessageAt DEF Receiving
      <4>2. n = l
        BY <1>0, <3>1 DEF InMessage
      <4> HIDE DEF l, n
      <4>3. QED
        BY <1>3, <4>1, <4>2
    <3>2. QED
      BY <1>0, <3>1, Places DEF Between
  <2>3. QED
    BY <2>1, <2>2, ReceivingFacts, CallReturns DEF Receiving, ReaderReturns, Over
<1>4. ASSUME NEW m \in Nat, m <= There, There > 0, PayloadRead(m),
             (m = There /\ cut) \/ (n > 0 /\ m = n)
      PROVE  ReaderAt(start, sent, wire)'
  <2>1. /\ consumed' = consumed + m /\ UNCHANGED received
        /\ reader' = [reader EXCEPT !.at = "comma", !.payload = SubSeq(wire, consumed + 1, consumed + m)]
    BY <1>4 DEF PayloadRead
  <2> DEFINE w == Len(wire)
             d == There
             load == SubSeq(wire, consumed + 1, consumed + m)
  <2>2. w \in Nat /\ consumed \in Nat /\ d \in Nat /\ consumed + d = w /\ m <= d /\ d > 0
    BY <1>4, ReceivingFacts
  <2>3. consumed + m \in Nat /\ consumed + m <= w /\ (m = d => consumed + m = w)
    <3> HIDE DEF w, d
    <3>1. QED
      BY <2>2
  <2>4. load \in Seq(Byte) /\ Len(load) = m /\ \A i \in 1 .. m : load[i] = wire[consumed + i]
    <3>1. wire \in Seq(Byte)
      BY ReceivingFacts
    <3>2. QED
      BY <2>2, <2>3, <3>1, SubSeqFacts
  <2> HIDE DEF load
  <2>5. reader' \in Reader /\ reader'.at = "comma" /\ reader'.payload = load
    <3>1. reader' = [reader EXCEPT !.at = "comma", !.payload = load]
      BY <2>1 DEF load
    <3>2. QED
      BY <1>1, <2>4, <3>1 DEF Reader
  <2>6. CASE cut /\ m = d
    <3>1. consumed' = Len(wire)
      BY <2>1, <2>3, <2>6
    <3>2. QED
      BY <2>1, <2>3, <2>5, <2>6, <3>1 DEF Receiving, ReaderAt
  <2>7. CASE n > 0 /\ m = n
    <3>1. ~Over
      BY <1>4, <2>2 DEF Over
    <3>2. k < Len(sent) /\ n = l /\ consumed = s + 2
      BY <1>0, <3>1, Places DEF Between, InMessage
    <3>3. p \in Seq(Byte) /\ l \in Nat /\ s \in Nat /\ Framed(wire, s, p)
      BY <3>2, MessageAt DEF Receiving
    <3>4. \A i \in 1 .. l : load[i] = p[i]
      <4>1. ASSUME NEW i \in 1 .. l PROVE s + 2 + i <= w /\ consumed + i = s + 2 + i /\ i \in 1 .. m
        <5>0. l = m
          BY <2>7, <3>2
        <5> HIDE DEF w, l, n, s
        <5>1. QED
          <6>1. s \in Nat /\ consumed = s + 2
            BY <3>2, <3>3
          <6>2. consumed + m <= w /\ w \in Nat /\ i \in 1 .. m
            BY <2>2, <2>3, <5>0
          <6>3. consumed + i = s + 2 + i /\ consumed + i <= consumed + m
            BY <6>1, <6>2
          <6>4. QED
            BY <6>1, <6>2, <6>3
      <4>2. \A i \in 1 .. l : s + 2 + i <= w => wire[s + 2 + i] = p[i]
        BY <3>3 DEF Framed
      <4> HIDE DEF w, l, s, p
      <4>3. ASSUME NEW i \in 1 .. l PROVE load[i] = p[i]
        <5>1. load[i] = wire[consumed + i]
          BY <2>4, <4>1
        <5>2. wire[consumed + i] = wire[s + 2 + i]
          BY <4>1
        <5>3. QED
          BY <4>1, <4>2, <5>1, <5>2
      <4>4. QED
        BY <4>3
    <3>5. load = p
      <4>1. Len(load) = Len(p)
        BY <2>4, <2>7, <3>2
      <4>2. \A i \in 1 .. Len(load) : load[i] = p[i]
        BY <3>4, <4>1
      <4>3. QED
        BY <2>4, <3>3, <4>1, <4>2, SeqEqual
    <3>6. consumed' = s + 2 + l
      BY <2>1, <2>7, <3>2
    <3>7. InMessage(reader', s, p, consumed')
      BY <2>5, <3>5, <3>6 DEF InMessage
    <3>8. consumed' \in Nat /\ consumed' <= Len(wire)
      BY <2>1, <2>3
    <3>9. QED
      BY <2>1, <2>5, <3>2, <3>7, <3>8 DEF Receiving, ReaderAt
  <2>8. QED
    BY <1>4, <2>6, <2>7
<1>5. CASE n > 0 /\ n <= There
  <2>1. PayloadRead(n)
    BY <1>1, <1>5 DEF ReadPayload
  <2>2. There > 0
    BY <1>1, <1>5
  <2>3. QED
    BY <1>1, <1>4, <1>5, <2>1, <2>2
<1>6. CASE n > 0 /\ n > There /\ There > 0
  <2>1. PayloadRead(There) /\ cut /\ There <= There
    <3>1. ~(n <= There)
      BY <1>1, <1>6
    <3>2. PayloadRead(There) /\ exact' = (exact /\ cut)
      BY <1>1, <1>6, <3>1 DEF ReadPayload
    <3>3. There <= There
      BY <1>1
    <3>4. QED
      BY <3>2, <3>3 DEF Receiving
  <2>2. QED
    BY <1>1, <1>4, <1>6, <2>1
<1>7. CASE ~(n = 0) /\ ~(n > 0 /\ n <= There) /\ ~(n > 0 /\ n > There /\ There > 0)
  <2>1. NothingComes
    BY <1>7 DEF ReadPayload
  <2>2. QED
    BY <1>2, <2>1
<1>8. QED
  BY <1>3, <1>5, <1>6, <1>7

LEMMA ReadCommaMoves ==
  ASSUME NEW start, Receiving(start), ReadComma
  PROVE  ReaderAt(start, sent, wire)'
<1> DEFINE k == Len(received)
           s == start[k + 1]
           p == sent[k + 1]
           l == Len(p)
<1>1. CASE NothingComes
  BY <1>1, NothingMoves
<1>2. CASE There > 0 /\ ~NothingComes
  <2>1. /\ reader.at = "comma" /\ consumed' = consumed + 1
        /\ IF wire[consumed + 1] = Comma
             THEN /\ ReaderReturns("success")
                  /\ received' = Append(received, reader.payload)
             ELSE ReaderReturns("ill_formed") /\ UNCHANGED received
    BY <1>2 DEF ReadComma
  <2>2. ~Over
    BY <1>2, ReceivingFacts DEF Over
  <2>3. k < Len(sent) /\ reader.payload = p /\ consumed = s + 2 + l
    BY <2>1, <2>2, Places DEF Between, InMessage
  <2>4. /\ p \in Short /\ l \in Nat /\ s \in Nat /\ start[(k + 1) + 1] = s + 3 + l
        /\ Framed(wire, s, p)
    BY <2>3, MessageAt DEF Receiving
  <2> DEFINE w == Len(wire)
             d == There
             last == start[(k + 1) + 1]
  <2>5. w \in Nat /\ consumed \in Nat /\ d \in Nat /\ consumed + d = w /\ d > 0
    BY <1>2, ReceivingFacts
  <2>6. consumed + 1 <= w /\ consumed + 1 = s + 3 + l /\ consumed + 1 \in Nat /\ consumed + 1 = last
    <3>1. consumed = s + 2 + l /\ last = s + 3 + l /\ l \in Nat /\ s \in Nat
      BY <2>3, <2>4
    <3> HIDE DEF w, d, s, l, last
    <3>2. QED
      BY <2>5, <3>1
  <2>7. wire[consumed + 1] = Comma
    BY <2>4, <2>6 DEF Framed
  <2>8. ReaderReturns("success") /\ received' = Append(received, p)
    BY <2>1, <2>3, <2>7
  <2>9. reader' \in Reader /\ Between(reader', last, last)
    BY <2>8, NoReadFacts DEF ReaderReturns
  <2>10. /\ received' \in Seq(Short) /\ Len(received') = k + 1 /\ received'[k + 1] = p
         /\ \A i \in 1 .. k : received'[i] = received[i]
    BY <2>4, <2>8, ReceivingFacts, AppendProperties
  <2>11. k \in Nat /\ k + 1 <= Len(sent)
    BY <2>3, ReceivingFacts
  <2>12. \A i \in 1 .. k : received[i] = sent[i]
    BY DEF Receiving, ReaderAt
  <2>13. ASSUME NEW i \in 1 .. k + 1 PROVE received'[i] = sent[i]
    <3>1. i \in 1 .. k \/ i = k + 1
      BY <2>11
    <3>2. QED
      BY <2>10, <2>12, <3>1
  <2>14. consumed' = last /\ consumed' \in Nat /\ consumed' <= Len(wire)
    BY <2>1, <2>6
  <2>15. Between(reader', start[Len(received') + 1], consumed')
    BY <2>9, <2>10, <2>14
  <2>16. UNCHANGED <<sent, wire, cut>>
    BY DEF Receiving
  <2>17. QED
    BY <2>9, <2>10, <2>11, <2>13, <2>14, <2>15, <2>16 DEF ReaderAt
<1>3. QED
  BY <1>1, <1>2 DEF ReadComma

LEMMA ReaderKeeps ==
  ASSUME NetInv, ReadBegin \/ ReadHeader \/ ReadPayload \/ ReadComma
  PROVE  NetInv'
<1>1. UNCHANGED <<sent, parts, wire, cut>>
  BY DEF ReadBegin, ReadHeader, ReadPayload, ReadComma
<1>a. ASSUME NEW a \in BOOLEAN, NEW b, NEW c, c = a \/ c = FALSE \/ c = (a /\ b)
      PROVE  c \in BOOLEAN /\ (c => a)
  <2>1. CASE c = a
    BY <1>a, <2>1
  <2>2. CASE c = FALSE
    BY <2>2
  <2>3. CASE c = (a /\ b)
    <3>1. CASE a
      <4>1. (a /\ b) \in BOOLEAN
        OBVIOUS
      <4>2. c \in BOOLEAN
        BY <2>3, <4>1
      <4>3. QED
        BY <3>1, <4>2
    <3>2. CASE ~a
      <4>1. c = FALSE
        BY <2>3, <3>2
      <4>2. QED
        BY <4>1
    <3>3. QED
      BY <3>1, <3>2
  <2>4. QED
    BY <1>a, <2>1, <2>2, <2>3
<1>2. exact' \in BOOLEAN /\ (exact' => exact)
  <2>1. exact \in BOOLEAN
    BY DEF NetInv
  <2>2. CASE ReadBegin
    BY <2>1, <2>2 DEF ReadBegin
  <2>3. CASE NothingComes
    <3>1. UNCHANGED exact \/ exact' = (exact /\ reader.at = "header" /\ reader.parsed = 0)
      BY <2>3 DEF NothingComes
    <3>2. QED
      BY <1>a, <2>1, <3>1, Zenon
  <2>4. CASE HeaderByte
    <3>1. UNCHANGED exact \/ exact' = FALSE
      BY <2>4 DEF HeaderByte, AfterHeader
    <3>2. QED
      BY <1>a, <2>1, <3>1, Zenon
  <2>5. CASE ReadPayload
    <3>1. NothingComes \/ UNCHANGED exact \/ exact' = (exact /\ cut)
      <4>1. reader.expected = 0 \/ reader.expected # 0
        OBVIOUS
      <4>2. QED
        BY <2>5 DEF ReadPayload
    <3>2. QED
      BY <1>a, <2>1, <2>3, <3>1, Zenon
  <2>6. CASE ReadComma
    BY <2>1, <2>3, <2>6 DEF ReadComma
  <2>7. QED
    BY <2>2, <2>3, <2>4, <2>5, <2>6 DEF ReadHeader
<1>3. ASSUME exact'
      PROVE  \E start : (Layout(start, sent, wire) /\ SenderAt(start) /\ ReaderAt(start, sent, wire))'
  <2>1. PICK start : Layout(start, sent, wire) /\ SenderAt(start) /\ ReaderAt(start, sent, wire)
    BY <1>2, <1>3 DEF NetInv
  <2>2. Receiving(start)
    BY <1>1, <1>2, <1>3, <2>1 DEF Receiving
  <2>3. ReaderAt(start, sent, wire)'
    <3>1. CASE ReadHeader
      BY <2>2, <3>1, HeaderByteMoves, NothingMoves DEF ReadHeader
    <3>2. QED
      BY <2>2, <3>1, ReadBeginMoves, ReadPayloadMoves, ReadCommaMoves
  <2>4. Layout(start, sent, wire)' /\ SenderAt(start)'
    BY <1>1, <2>1 DEF SenderAt
  <2>5. QED
    BY <2>3, <2>4
<1>4. cut' \in BOOLEAN
  BY <1>1 DEF NetInv
<1>5. QED
  BY <1>2, <1>3, <1>4 DEF NetInv

LEMMA NetStarts ==
  ASSUME NetInit
  PROVE  NetInv
<1> DEFINE start == <<0>>
<1>1. sent = <<>> /\ wire = <<>> /\ received = <<>> /\ consumed = 0 /\ parts = <<>> /\ cut = FALSE
      /\ exact = TRUE /\ reader = NoRead
  BY DEF NetInit
<1>2. /\ sent \in Seq(Short) /\ wire \in Seq(Byte) /\ received \in Seq(Short)
      /\ Len(sent) = 0 /\ Len(wire) = 0 /\ Len(received) = 0
  BY <1>1
<1>3. start \in Seq(Nat) /\ Len(start) = 1 /\ start[1] = 0
  OBVIOUS
<1> HIDE DEF start
<1>4. Layout(start, sent, wire)
  BY <1>2, <1>3 DEF Layout
<1>5. SenderAt(start)
  <2>1. start[0 + 1] = 0
    BY <1>3
  <2>2. QED
    BY <1>1, <1>2, <2>1 DEF SenderAt
<1>6. reader \in Reader /\ Between(reader, 0, 0)
  <2>1. <<>> \in Seq(Byte)
    OBVIOUS
  <2>2. QED
    BY <1>1, <2>1 DEF Reader, Between, NoRead
<1>7. ReaderAt(start, sent, wire)
  <2>1. start[0 + 1] = 0
    BY <1>3
  <2>2. QED
    BY <1>1, <1>2, <1>6, <2>1 DEF ReaderAt
<1>8. QED
  BY <1>1, <1>4, <1>5, <1>7 DEF NetInv

LEMMA NetExact ==
  ASSUME NetInv
  PROVE  NetstringsExact
<1> SUFFICES ASSUME exact
             PROVE  /\ Len(received) <= Len(sent) /\ received = SubSeq(sent, 1, Len(received))
                    /\ reader.sts # "ill_formed"
  BY DEF NetstringsExact
<1>1. PICK start : Layout(start, sent, wire) /\ ReaderAt(start, sent, wire)
  BY DEF NetInv
<1> DEFINE k == Len(received)
           t == SubSeq(sent, 1, k)
<1>2. /\ received \in Seq(Short) /\ k <= Len(sent) /\ reader \in Reader
      /\ \A i \in 1 .. k : received[i] = sent[i]
  BY <1>1 DEF ReaderAt
<1>3. sent \in Seq(Short) /\ k \in Nat
  BY <1>1, <1>2 DEF Layout
<1>4. t \in Seq(Short) /\ Len(t) = k /\ \A i \in 1 .. k : t[i] = sent[i]
  <2> HIDE DEF k
  <2>1. QED
    BY <1>2, <1>3, PrefixFacts
<1> HIDE DEF t
<1>5. Len(received) = Len(t) /\ \A i \in 1 .. Len(received) : received[i] = t[i]
  BY <1>2, <1>4
<1>6. received = t
  BY <1>2, <1>4, <1>5, SeqEqual
<1>7. reader.sts # "ill_formed"
  BY <1>2 DEF Reader
<1>8. QED
  BY <1>2, <1>6, <1>7 DEF t

(* Whatever the payloads are and wherever the connection is lost, the       *)
(* messages tcs_receive_netstring returns are the first of those that       *)
(* tcs_send_netstring was given, whole and in order, and none is called     *)
(* ill-formed, up to the first one of ten bytes or more, too long for the   *)
(* buffer, or cut by a timeout.                                             *)
THEOREM MessagesWhole == NetSpec => []NetstringsExact
<1>1. NetInit => NetInv
  BY NetStarts
<1>2. ASSUME NetInv, [NetNext]_netVars PROVE NetInv'
  <2>1. CASE UNCHANGED netVars
    BY <1>2, <2>1 DEF NetInv, netVars, SenderAt, ReaderAt
  <2>2. CASE NetNext
    BY <1>2, <2>2, NetSendKeeps, SendPartKeeps, ReaderKeeps DEF NetNext
  <2>3. QED
    BY <1>2, <2>1, <2>2
<1>3. NetInv => NetstringsExact
  BY NetExact
<1>4. QED
  BY <1>1, <1>2, <1>3, PTL DEF NetSpec

-----------------------------------------------------------------------------
(* The pool                                                                  *)

\* The capacities of the first n turns.
Chain(h, n) ==
  /\ h \in [0 .. n -> Nat]
  /\ h[0] = MinCapacity /\ \A i \in 1 .. n : h[i] = h[i - 1] * 2

LEMMA ChainsExist == \A n \in Nat : \E h : Chain(h, n)
<1> DEFINE T == {n \in Nat : \E h : Chain(h, n)}
<1>1. 0 \in T
  <2> DEFINE h == [i \in 0 .. 0 |-> MinCapacity]
  <2>1. h \in [0 .. 0 -> Nat] /\ h[0] = MinCapacity /\ 1 .. 0 = {}
    BY MapAssumption
  <2> HIDE DEF h
  <2>2. Chain(h, 0)
    BY <2>1 DEF Chain
  <2>3. QED
    BY <2>2
<1>2. ASSUME NEW n \in T PROVE n + 1 \in T
  <2>1. n \in Nat
    OBVIOUS
  <2>2. PICK h : Chain(h, n)
    OBVIOUS
  <2> DEFINE g == [i \in 0 .. n + 1 |-> IF i = n + 1 THEN h[n] * 2 ELSE h[i]]
  <2>3. /\ h \in [0 .. n -> Nat] /\ h[0] = MinCapacity
        /\ \A i \in 1 .. n : h[i] = h[i - 1] * 2
    BY <2>2 DEF Chain
  <2>4. h[n] * 2 \in Nat /\ \A i \in 0 .. n : h[i] \in Nat
    BY <2>1, <2>3
  <2>5. g \in [0 .. n + 1 -> Nat]
    BY <2>1, <2>4
  <2>6. g[0] = MinCapacity
    BY <2>1, <2>3
  <2>7. ASSUME NEW i \in 1 .. n + 1 PROVE g[i] = g[i - 1] * 2
    <3>1. i - 1 \in 0 .. n /\ i - 1 \in 0 .. n + 1 /\ i \in 0 .. n + 1 /\ i - 1 # n + 1
      BY <2>1
    <3>2. g[i - 1] = h[i - 1]
      BY <3>1
    <3>3. CASE i = n + 1
      BY <2>1, <3>1, <3>2, <3>3
    <3>4. CASE i # n + 1
      <4>1. i \in 1 .. n /\ g[i] = h[i]
        BY <2>1, <3>1, <3>4
      <4>2. QED
        BY <2>3, <3>2, <4>1
    <3>5. QED
      BY <3>3, <3>4
  <2> HIDE DEF g
  <2>8. Chain(g, n + 1)
    BY <2>5, <2>6, <2>7 DEF Chain
  <2>9. QED
    BY <2>1, <2>8
<1> HIDE DEF T
<1>3. T \in SUBSET Nat
  BY DEF T
<1>4. T = Nat
  BY <1>1, <1>2, <1>3, SetInduction
<1>5. QED
  BY <1>4 DEF T

LEMMA ChainsAgree ==
  ASSUME NEW n \in Nat, NEW m \in Nat, NEW g, NEW h, Chain(g, n), Chain(h, m), n <= m
  PROVE  \A i \in 0 .. n : g[i] = h[i]
<1> DEFINE T == {i \in Nat : i <= n => g[i] = h[i]}
<1>1. 0 \in T
  BY DEF Chain
<1>2. ASSUME NEW i \in T PROVE i + 1 \in T
  <2>1. i \in Nat /\ (i <= n => g[i] = h[i])
    OBVIOUS
  <2>2. ASSUME i + 1 <= n PROVE g[i + 1] = h[i + 1]
    <3>1. i <= n /\ i + 1 \in 1 .. n /\ i + 1 \in 1 .. m /\ (i + 1) - 1 = i
      BY <2>1, <2>2
    <3>2. g[i + 1] = g[(i + 1) - 1] * 2 /\ h[i + 1] = h[(i + 1) - 1] * 2
      BY <3>1 DEF Chain
    <3>3. QED
      BY <2>1, <3>1, <3>2
  <2>3. QED
    BY <2>1, <2>2
<1> HIDE DEF T
<1>3. T \in SUBSET Nat
  BY DEF T
<1>4. T = Nat
  BY <1>1, <1>2, <1>3, SetInduction
<1>5. QED
  BY <1>4 DEF T

\* The recursion of Doubled has a solution, and it is a function to Nat.
LEMMA DoubledFacts ==
  /\ Doubled \in [Nat -> Nat] /\ Doubled[0] = MinCapacity
  /\ \A k \in Nat : Doubled[k + 1] = Doubled[k] * 2
<1> DEFINE H(n) == CHOOSE h : Chain(h, n)
           g == [n \in Nat |-> H(n)[n]]
           Solves(f) == f = [k \in Nat |-> IF k = 0 THEN MinCapacity ELSE f[k - 1] * 2]
<1>1. ASSUME NEW n \in Nat PROVE Chain(H(n), n)
  BY ChainsExist
<1>2. ASSUME NEW n \in Nat
      PROVE  H(n)[n] \in Nat /\ H(n)[0] = MinCapacity /\ (n > 0 => H(n)[n] = H(n)[n - 1] * 2)
  <2> HIDE DEF H
  <2>1. n \in 0 .. n /\ (n > 0 => n \in 1 .. n)
    OBVIOUS
  <2>2. QED
    BY <1>1, <2>1 DEF Chain
<1>3. ASSUME NEW n \in Nat, n > 0 PROVE H(n)[n - 1] = H(n - 1)[n - 1]
  <2> HIDE DEF H
  <2>1. n - 1 \in Nat /\ n - 1 <= n /\ n - 1 \in 0 .. n - 1
    BY <1>3
  <2>2. Chain(H(n - 1), n - 1) /\ Chain(H(n), n)
    BY <1>1, <2>1
  <2>3. \A i \in 0 .. n - 1 : H(n - 1)[i] = H(n)[i]
    BY <2>1, <2>2, ChainsAgree
  <2>4. QED
    BY <2>1, <2>3
<1> HIDE DEF H
<1>4. g \in [Nat -> Nat]
  BY <1>2
<1>5. g[0] = MinCapacity
  BY <1>2
<1>6. ASSUME NEW k \in Nat, k # 0 PROVE g[k] = g[k - 1] * 2
  <2>1. k - 1 \in Nat /\ k > 0
    BY <1>6
  <2>2. g[k] = H(k)[k] /\ g[k - 1] = H(k - 1)[k - 1]
    BY <2>1
  <2>3. QED
    BY <1>2, <1>3, <2>1, <2>2
<1> HIDE DEF g
<1>7. Solves(g)
  <2> DEFINE f == [k \in Nat |-> IF k = 0 THEN MinCapacity ELSE g[k - 1] * 2]
  <2>1. \A k \in Nat : f[k] = g[k]
    BY <1>5, <1>6
  <2>2. g = f
    BY <1>4, <2>1
  <2>3. QED
    BY <2>2
<1>8. Doubled = CHOOSE f : Solves(f)
  BY DEF Doubled
<1>9. Solves(Doubled)
  BY <1>7, <1>8
<1> DEFINE d == Doubled
<1>10. ASSUME NEW f, Solves(f)
       PROVE  f[0] = MinCapacity /\ \A k \in Nat : f[k + 1] = f[k] * 2
  <2>1. ASSUME NEW k \in Nat PROVE f[k + 1] = f[k] * 2
    <3>1. k + 1 \in Nat /\ k + 1 # 0 /\ (k + 1) - 1 = k
      OBVIOUS
    <3>2. QED
      BY <1>10, <3>1
  <2>2. QED
    BY <1>10, <2>1
<1>11. /\ Doubled[0] = MinCapacity /\ \A k \in Nat : Doubled[k + 1] = Doubled[k] * 2
  <2> HIDE DEF Solves
  <2>1. QED
    BY <1>9, <1>10
<1>12. Doubled \in [Nat -> Nat]
  <2> DEFINE T == {k \in Nat : Doubled[k] \in Nat}
  <2>1. 0 \in T
    BY <1>11, MapAssumption
  <2>2. \A k \in T : k + 1 \in T
    BY <1>11
  <2> HIDE DEF T
  <2>3. T \in SUBSET Nat
    BY DEF T
  <2>4. T = Nat
    BY <2>1, <2>2, <2>3, SetInduction
  <2>5. \A k \in Nat : Doubled[k] \in Nat
    BY <2>4 DEF T
  <2>6. Doubled = [k \in Nat |-> IF k = 0 THEN MinCapacity ELSE Doubled[k - 1] * 2]
    BY <1>9
  <2>7. Doubled = [k \in Nat |-> Doubled[k]]
    BY <2>6
  <2>8. QED
    BY <2>5, <2>7
<1>13. QED
  BY <1>11, <1>12

LEMMA DoubledGrows == \A k \in Nat : Doubled[k] \in Nat /\ Doubled[k] > k
<1> DEFINE T == {k \in Nat : Doubled[k] > k}
<1>0. \A k \in Nat : Doubled[k] \in Nat
  BY DoubledFacts
<1>1. 0 \in T
  BY DoubledFacts, MapAssumption
<1>2. ASSUME NEW k \in T PROVE k + 1 \in T
  <2>1. k \in Nat /\ Doubled[k] > k /\ Doubled[k + 1] = Doubled[k] * 2 /\ Doubled[k] \in Nat
    BY DoubledFacts
  <2> DEFINE d == Doubled[k]
             e == Doubled[k + 1]
  <2> HIDE DEF d, e
  <2>2. k \in Nat /\ d > k /\ e = d * 2 /\ d \in Nat
    BY <2>1 DEF d, e
  <2>3. e > k + 1
    BY <2>2
  <2>4. QED
    BY <2>2, <2>3 DEF e
<1> HIDE DEF T
<1>3. T \in SUBSET Nat
  BY DEF T
<1>4. T = Nat
  BY <1>1, <1>2, <1>3, SetInduction
<1>5. QED
  BY <1>0, <1>4 DEF T

LEMMA DoubledOrder == \A k \in Nat, j \in Nat : Doubled[k] <= Doubled[k + j]
<1> SUFFICES ASSUME NEW k \in Nat PROVE \A j \in Nat : Doubled[k] <= Doubled[k + j]
  OBVIOUS
<1> DEFINE T == {j \in Nat : Doubled[k] <= Doubled[k + j]}
<1>0. \A i \in Nat : Doubled[i] \in Nat /\ Doubled[i + 1] = Doubled[i] * 2
  BY DoubledFacts
<1>1. 0 \in T
  <2>1. k + 0 = k /\ Doubled[k] \in Nat
    BY <1>0
  <2>2. QED
    BY <2>1
<1>2. ASSUME NEW j \in T PROVE j + 1 \in T
  <2> DEFINE d == Doubled[k]
             e == Doubled[k + j]
             f == Doubled[k + (j + 1)]
  <2>1. j \in Nat /\ d <= e /\ k + j \in Nat /\ k + (j + 1) = (k + j) + 1
    OBVIOUS
  <2>2. d \in Nat /\ e \in Nat /\ f = e * 2
    BY <1>0, <2>1
  <2> HIDE DEF d, e, f
  <2>3. d <= f
    BY <2>1, <2>2
  <2>4. QED
    BY <2>1, <2>3 DEF d, f
<1> HIDE DEF T
<1>3. T \in SUBSET Nat
  BY DEF T
<1>4. T = Nat
  BY <1>1, <1>2, <1>3, SetInduction
<1>5. QED
  BY <1>4 DEF T

Capacities == {Doubled[k] : k \in Nat}

\* A capacity that fits holds what is asked for, and is no larger than an
\* old one that does.
LEMMA FitFacts ==
  ASSUME NEW old \in Nat, NEW n \in Nat
  PROVE  /\ BestCapacityFit(old, n) \in Nat /\ BestCapacityFit(old, n) >= n
         /\ BestCapacityFit(old, n) # old => BestCapacityFit(old, n) \in Capacities
         /\ old \in Capacities /\ n <= old => BestCapacityFit(old, n) <= old
<1> DEFINE sizes == {Doubled[k] : k \in 0 .. n}
           T == {x \in sizes : x >= n}
           Least(c) == c \in sizes /\ c >= n /\ \A k \in 0 .. n : Doubled[k] >= n => c <= Doubled[k]
           c == CHOOSE c \in sizes : c >= n /\ \A k \in 0 .. n : Doubled[k] >= n => c <= Doubled[k]
<1>1. Doubled[n] \in T
  BY DoubledGrows
<1>2. T \in SUBSET Nat /\ T # {}
  BY <1>1, DoubledGrows
<1>3. PICK m \in T : \A x \in T : m <= x
  BY <1>2, LeastElement
<1>4. Least(m)
  BY <1>3
<1>5. c = CHOOSE x : Least(x)
  OBVIOUS
<1>6. Least(c)
  BY <1>4, <1>5
<1>7. c \in Nat /\ c >= n /\ c \in Capacities
  BY <1>6, DoubledGrows DEF Capacities
<1>8. ASSUME old \in Capacities, n <= old PROVE c <= old
  <2>1. PICK j \in Nat : old = Doubled[j]
    BY <1>8 DEF Capacities
  <2>2. CASE j <= n
    BY <1>6, <1>8, <2>1, <2>2
  <2>3. CASE j > n
    <3>1. c <= Doubled[n]
      <4>1. n \in 0 .. n /\ Doubled[n] >= n
        BY DoubledGrows
      <4>2. QED
        BY <1>6, <4>1
    <3>2. Doubled[n] <= old
      <4>1. j - n \in Nat /\ n + (j - n) = j
        BY <2>3
      <4>2. QED
        BY <2>1, <4>1, DoubledOrder
    <3>3. Doubled[n] \in Nat
      BY DoubledFacts
    <3> HIDE DEF c
    <3>4. QED
      BY <1>7, <3>1, <3>2, <3>3
  <2>4. QED
    BY <2>2, <2>3
<1>9. BestCapacityFit(old, n) = IF c * 2 = old THEN old ELSE c
  BY DEF BestCapacityFit
<1> HIDE DEF c
<1> DEFINE b == BestCapacityFit(old, n)
<1>10. (b = old /\ c * 2 = old) \/ b = c
  BY <1>9
<1> HIDE DEF b
<1>11. /\ b \in Nat /\ b >= n /\ (b # old => b \in Capacities)
       /\ (old \in Capacities /\ n <= old => b <= old)
  BY <1>7, <1>8, <1>10
<1>12. QED
  BY <1>11 DEF b

-----------------------------------------------------------------------------
\* The elements of a block that a list of the type S may have, and its sizes.
ListOK(S, data, count, capacity) ==
  /\ Zero \in S /\ data \in Seq(S) /\ count \in Nat /\ capacity \in Nat
  /\ capacity \in Capacities \cup {0}
  /\ count <= capacity /\ capacity <= Len(data)

LEMMA BlockFacts ==
  ASSUME NEW S, NEW data \in Seq(S), Zero \in S, NEW kept \in Nat, NEW c \in Nat
  PROVE  /\ Block(data, kept, c) \in Seq(S) /\ Len(Block(data, kept, c)) = c
         /\ \A i \in 1 .. c : i <= kept /\ i <= Len(data) => Block(data, kept, c)[i] = data[i]
<1>1. \A i \in 1 .. c : i <= Len(data) => data[i] \in S
  OBVIOUS
<1>2. \A i \in 1 .. c : (IF i <= kept /\ i <= Len(data) THEN data[i] ELSE Zero) \in S
  BY <1>1
<1>3. Block(data, kept, c) \in [1 .. c -> S]
  BY <1>2 DEF Block
<1>4. Block(data, kept, c) \in Seq(S) /\ Len(Block(data, kept, c)) = c
  BY <1>3
<1>5. QED
  BY <1>4 DEF Block

\* What realloc leaves: the elements, in a block of the new capacity; or all as
\* it was, when a larger block was asked for.
LEMMA ReserveFacts ==
  ASSUME ~ShrinkFails, NEW S, NEW data, NEW count, NEW capacity,
         ListOK(S, data, count, capacity), NEW n \in Nat, count <= n,
         NEW r \in Reserve(data, count, capacity, n)
  PROVE  LET c == BestCapacityFit(capacity, n) IN
         \/ /\ r.sts = 0 /\ r.capacity = c /\ ListOK(S, r.data, count, c)
            /\ \A i \in 1 .. count : r.data[i] = data[i]
         \/ r.sts = -1 /\ c > capacity /\ r.data = data
<1> DEFINE c == BestCapacityFit(capacity, n)
           made == Block(data, capacity, c)
<1>1. /\ data \in Seq(S) /\ Zero \in S /\ count \in Nat /\ capacity \in Nat /\ Len(data) \in Nat
      /\ count <= capacity /\ capacity <= Len(data) /\ capacity \in Capacities \cup {0}
  BY DEF ListOK
<1>2. c \in Nat /\ c >= n /\ (c # capacity => c \in Capacities)
  BY <1>1, FitFacts
<1> HIDE DEF c
<1>3. /\ made \in Seq(S) /\ Len(made) = c
      /\ \A i \in 1 .. c : i <= capacity /\ i <= Len(data) => made[i] = data[i]
  <2>1. data \in Seq(S) /\ Zero \in S /\ capacity \in Nat /\ c \in Nat
    BY <1>1, <1>2
  <2>2. QED
    BY <2>1, BlockFacts, Zenon
<1> HIDE DEF made
<1>4. ListOK(S, made, count, c)
  BY <1>1, <1>2, <1>3 DEF ListOK
<1>5. ASSUME NEW i \in 1 .. count PROVE made[i] = data[i]
  BY <1>1, <1>2, <1>3
<1>6. CASE c = capacity
  <2>1. r = Outcome(0, data, count, capacity)
    BY <1>6 DEF Reserve, c
  <2>2. r.sts = 0 /\ r.capacity = capacity /\ r.data = data
    BY <2>1 DEF Outcome
  <2>3. QED
    BY <1>6, <2>2 DEF c
<1>7. CASE c # capacity
  <2>1. \/ r = Outcome(0, made, count, c)
        \/ r = Outcome(-1, data, count, capacity) /\ (IF c > capacity THEN GrowFails ELSE ShrinkFails)
    BY <1>7 DEF Reserve, c, made
  <2>2. CASE r = Outcome(0, made, count, c)
    <3>1. r.sts = 0 /\ r.capacity = c /\ r.data = made
      BY <2>2 DEF Outcome
    <3>2. QED
      BY <1>4, <1>5, <3>1 DEF c
  <2>3. CASE r = Outcome(-1, data, count, capacity) /\ c > capacity
    <3>1. r.sts = -1 /\ r.data = data
      BY <2>3 DEF Outcome
    <3>2. QED
      BY <2>3, <3>1 DEF c
  <2>4. QED
    BY <2>1, <2>2, <2>3
<1>8. QED
  BY <1>6, <1>7

\* One list with an element more; or as it was.
LEMMA AddFacts ==
  ASSUME ~ShrinkFails, NEW S, NEW data, NEW count, NEW capacity,
         ListOK(S, data, count, capacity), NEW x \in S,
         NEW r \in Add(data, count, capacity, x)
  PROVE  /\ r.sts \in {0, -1}
         /\ ListOK(S, r.data, count, capacity)
         /\ \A i \in 1 .. count : r.data[i] = data[i]
         /\ r.sts = 0 =>
              /\ ListOK(S, r.data, count + 1, r.capacity) /\ r.data[count + 1] = x
              /\ r.capacity = IF count + 1 > capacity THEN BestCapacityFit(capacity, count + 1)
                                                      ELSE capacity
<1>1. /\ data \in Seq(S) /\ Zero \in S /\ count \in Nat /\ capacity \in Nat /\ Len(data) \in Nat
      /\ count <= capacity /\ capacity <= Len(data) /\ capacity \in Capacities \cup {0}
  BY DEF ListOK
<1> DEFINE room == IF count + 1 > capacity
                     THEN Reserve(data, count, capacity, count + 1)
                     ELSE {Outcome(0, data, count, capacity)}
           c == IF count + 1 > capacity THEN BestCapacityFit(capacity, count + 1) ELSE capacity
<1>2. PICK q \in room :
        r = IF q.sts # 0 THEN q
            ELSE Outcome(0, IF count < Len(q.data) THEN [q.data EXCEPT ![count + 1] = x]
                                                   ELSE q.data, count + 1, q.capacity)
  BY DEF Add
<1>3. c \in Nat /\ c >= count + 1 /\ c >= capacity
  <2> DEFINE b == BestCapacityFit(capacity, count + 1)
  <2>1. count + 1 \in Nat
    BY <1>1
  <2>2. b \in Nat /\ b >= count + 1
    BY <1>1, <2>1, FitFacts
  <2> HIDE DEF b
  <2>3. CASE count + 1 > capacity
    <3>1. c = b
      BY <2>3 DEF b
    <3>2. QED
      BY <1>1, <2>2, <2>3, <3>1
  <2>4. CASE ~(count + 1 > capacity)
    BY <1>1, <2>4
  <2>5. QED
    BY <2>3, <2>4
<1>4. \/ /\ q.sts = 0 /\ q.capacity = c /\ ListOK(S, q.data, count, c)
         /\ \A i \in 1 .. count : q.data[i] = data[i]
      \/ q.sts = -1 /\ q.data = data
  <2>1. CASE count + 1 > capacity
    BY <1>1, <2>1, ReserveFacts
  <2>2. CASE ~(count + 1 > capacity)
    <3>1. q = Outcome(0, data, count, capacity)
      BY <2>2
    <3>2. QED
      BY <2>2, <3>1 DEF Outcome
  <2>3. QED
    BY <2>1, <2>2
<1> HIDE DEF room, c
<1>5. CASE q.sts = -1 /\ q.data = data
  BY <1>2, <1>5
<1>6. CASE /\ q.sts = 0 /\ q.capacity = c /\ ListOK(S, q.data, count, c)
           /\ \A i \in 1 .. count : q.data[i] = data[i]
  <2> DEFINE d == q.data
             e == [d EXCEPT ![count + 1] = x]
  <2>1. d \in Seq(S) /\ c <= Len(d) /\ c \in Capacities \cup {0} /\ Len(d) \in Nat
    BY <1>6 DEF ListOK
  <2>2. count < Len(d) /\ count + 1 \in 1 .. Len(d)
    BY <1>1, <1>3, <2>1
  <2>3. r = Outcome(0, e, count + 1, c)
    BY <1>2, <1>6, <2>2
  <2>4. e \in Seq(S) /\ Len(e) = Len(d)
    BY <2>1, <2>2, ExceptSeq
  <2>5. e[count + 1] = x /\ \A i \in 1 .. count : e[i] = d[i]
    BY <1>1, <2>1, <2>2, ExceptSeq
  <2> HIDE DEF d, e
  <2>6. r.sts = 0 /\ r.data = e /\ r.capacity = c
    BY <2>3 DEF Outcome
  <2>7. ListOK(S, e, count, capacity) /\ ListOK(S, e, count + 1, c)
    BY <1>1, <1>3, <2>1, <2>4 DEF ListOK
  <2>8. \A i \in 1 .. count : e[i] = data[i]
    BY <1>6, <2>5 DEF d
  <2>9. QED
    BY <2>5, <2>6, <2>7, <2>8 DEF c
<1>7. QED
  BY <1>4, <1>5, <1>6

\* One list without one element, in whose place the last one is.
LEMMA RemoveFacts ==
  ASSUME ~ShrinkFails, NEW S, NEW data, NEW count, NEW capacity,
         ListOK(S, data, count, capacity), NEW from \in Nat, from < count,
         NEW r \in Remove(data, count, capacity, from)
  PROVE  /\ r.sts = 0 /\ r.count = count - 1
         /\ ListOK(S, r.data, count - 1, r.capacity)
         /\ r.capacity = IF count - 1 < capacity \div 2 THEN BestCapacityFit(capacity, count - 1)
                                                        ELSE capacity
         /\ \A i \in 1 .. count - 1 :
              r.data[i] = IF i = from + 1 THEN data[count] ELSE data[i]
<1>1. /\ data \in Seq(S) /\ Zero \in S /\ count \in Nat /\ capacity \in Nat /\ Len(data) \in Nat
      /\ count <= capacity /\ capacity <= Len(data) /\ capacity \in Capacities \cup {0}
  BY DEF ListOK
<1> DEFINE filled == [data EXCEPT ![from + 1] = data[count]]
           n == count - 1
<1>2. n \in Nat /\ n < capacity /\ from + 1 \in 1 .. Len(data) /\ count \in 1 .. Len(data)
      /\ capacity \in Capacities
  BY <1>1
<1>3. /\ filled \in Seq(S) /\ Len(filled) = Len(data)
      /\ \A i \in 1 .. n : filled[i] = IF i = from + 1 THEN data[count] ELSE data[i]
  <2>1. data[count] \in S
    BY <1>1, <1>2
  <2>2. filled \in Seq(S) /\ Len(filled) = Len(data)
    BY <1>1, <1>2, <2>1, ExceptSeq
  <2>3. \A i \in 1 .. n : i \in 1 .. Len(data)
    BY <1>1, <1>2
  <2>4. \A i \in 1 .. Len(data) : filled[i] = IF i = from + 1 THEN data[count] ELSE data[i]
    BY <1>1, <1>2, <2>1, ExceptSeq
  <2>5. QED
    BY <2>2, <2>3, <2>4
<1>4. r \in IF n < capacity \div 2 THEN Reserve(filled, n, capacity, n)
                                   ELSE {Outcome(0, filled, n, capacity)}
  <2>1. ~(from >= count)
    BY <1>1
  <2>2. QED
    BY <2>1 DEF Remove
<1> HIDE DEF filled, n
<1>5. ListOK(S, filled, n, capacity)
  BY <1>1, <1>2, <1>3 DEF ListOK
<1>6. r.count = n
  <2>1. CASE n < capacity \div 2
    BY <1>4, <2>1 DEF Reserve, Outcome
  <2>2. CASE ~(n < capacity \div 2)
    BY <1>4, <2>2 DEF Outcome
  <2>3. QED
    BY <2>1, <2>2
<1>7. /\ r.sts = 0 /\ ListOK(S, r.data, n, r.capacity)
      /\ r.capacity = IF n < capacity \div 2 THEN BestCapacityFit(capacity, n) ELSE capacity
      /\ \A i \in 1 .. n : r.data[i] = filled[i]
  <2>1. CASE n < capacity \div 2
    <3>1. r \in Reserve(filled, n, capacity, n) /\ n <= n
      BY <1>2, <1>4, <2>1
    <3>2. BestCapacityFit(capacity, n) <= capacity /\ BestCapacityFit(capacity, n) \in Nat
      <4>1. n \in Nat /\ capacity \in Nat /\ capacity \in Capacities /\ n <= capacity
        BY <1>1, <1>2
      <4>2. QED
        BY <4>1, FitFacts
    <3> DEFINE c == BestCapacityFit(capacity, n)
    <3>3. \/ /\ r.sts = 0 /\ r.capacity = c /\ ListOK(S, r.data, n, c)
             /\ \A i \in 1 .. n : r.data[i] = filled[i]
          \/ r.sts = -1 /\ c > capacity /\ r.data = filled
      BY <1>2, <1>5, <3>1, ReserveFacts
    <3> HIDE DEF c
    <3>4. ~(c > capacity)
      BY <1>1, <3>2 DEF c
    <3>5. QED
      BY <2>1, <3>3, <3>4 DEF c
  <2>2. CASE ~(n < capacity \div 2)
    <3>1. r = Outcome(0, filled, n, capacity)
      BY <1>4, <2>2
    <3>2. r.sts = 0 /\ r.capacity = capacity /\ r.data = filled
      BY <3>1 DEF Outcome
    <3>3. QED
      BY <1>5, <2>2, <3>2
  <2>3. QED
    BY <2>1, <2>2
<1>8. QED
  BY <1>3, <1>6, <1>7 DEF n

-----------------------------------------------------------------------------
Key == PollFd \cup {Zero}
Datum == UserData \cup {Zero}

MapOK(m) ==
  /\ m = Map(m.keys, m.values, m.count, m.capacity)
  /\ ListOK(Key, m.keys, m.count, m.capacity) /\ ListOK(Datum, m.values, m.count, m.capacity)
  /\ \A i \in 1 .. m.count : m.keys[i] \in PollFd /\ m.values[i] \in UserData

LEMMA MapFields ==
  ASSUME NEW a, NEW b, NEW n, NEW c
  PROVE  LET m == Map(a, b, n, c) IN
         /\ m.keys = a /\ m.values = b /\ m.count = n /\ m.capacity = c
         /\ m = Map(m.keys, m.values, m.count, m.capacity)
BY DEF Map

LEMMA NoMapOK == MapOK(NoMap) /\ NoMap.count = 0
<1>1. NoMap.keys = <<>> /\ NoMap.values = <<>> /\ NoMap.count = 0 /\ NoMap.capacity = 0
      /\ NoMap = Map(NoMap.keys, NoMap.values, NoMap.count, NoMap.capacity)
  BY MapFields DEF NoMap
<1>2. ListOK(Key, <<>>, 0, 0) /\ ListOK(Datum, <<>>, 0, 0)
  <2>1. <<>> \in Seq(Key) /\ <<>> \in Seq(Datum) /\ Len(<<>>) = 0
    OBVIOUS
  <2>2. Zero \in Key /\ Zero \in Datum
    BY DEF Key, Datum
  <2>3. QED
    BY <2>1, <2>2 DEF ListOK
<1>3. QED
  BY <1>1, <1>2 DEF MapOK

LEMMA MapCreateFacts ==
  ASSUME ~ShrinkFails, NEW r \in MapCreate
  PROVE  MapOK(r.map) /\ r.map.count = 0
<1> DEFINE made == Reserve(<<>>, 0, 0, 1)
<1>1. PICK k \in made, v \in made :
        r = IF k.sts = 0 /\ v.sts = 0
              THEN [sts |-> 0, map |-> Map(k.data, v.data, 0, k.capacity)]
              ELSE [sts |-> -1, map |-> NoMap]
  BY DEF MapCreate
<1>2. ListOK(Key, <<>>, 0, 0) /\ ListOK(Datum, <<>>, 0, 0)
  <2>1. <<>> \in Seq(Key) /\ <<>> \in Seq(Datum) /\ Len(<<>>) = 0
    OBVIOUS
  <2>2. Zero \in Key /\ Zero \in Datum
    BY DEF Key, Datum
  <2>3. QED
    BY <2>1, <2>2 DEF ListOK
<1> DEFINE c == BestCapacityFit(0, 1)
<1>3. \/ k.sts = 0 /\ k.capacity = c /\ ListOK(Key, k.data, 0, c)
      \/ k.sts = -1
  BY <1>2, ReserveFacts
<1>4. \/ v.sts = 0 /\ v.capacity = c /\ ListOK(Datum, v.data, 0, c)
      \/ v.sts = -1
  BY <1>2, ReserveFacts
<1> HIDE DEF made, c
<1>5. CASE k.sts = 0 /\ v.sts = 0
  <2>1. r.map = Map(k.data, v.data, 0, c)
    BY <1>1, <1>3, <1>5
  <2> DEFINE m == Map(k.data, v.data, 0, c)
  <2>2. m.keys = k.data /\ m.values = v.data /\ m.count = 0 /\ m.capacity = c
        /\ m = Map(m.keys, m.values, m.count, m.capacity)
    BY MapFields
  <2> HIDE DEF m
  <2>3. MapOK(m)
    BY <1>3, <1>4, <1>5, <2>2 DEF MapOK
  <2>4. QED
    BY <2>1, <2>2, <2>3 DEF m
<1>6. CASE ~(k.sts = 0 /\ v.sts = 0)
  <2>1. r.map = NoMap
    BY <1>1, <1>6
  <2>2. QED
    BY <2>1, NoMapOK
<1>7. QED
  BY <1>5, <1>6

\* An entry more behind the others, or the entries as they were.
LEMMA MapAddFacts ==
  ASSUME ~ShrinkFails, NEW m, MapOK(m), NEW key \in PollFd, NEW value \in UserData,
         NEW r \in MapAdd(m, key, value)
  PROVE  /\ MapOK(r.map)
         /\ \A i \in 1 .. m.count : r.map.keys[i] = m.keys[i] /\ r.map.values[i] = m.values[i]
         /\ \/ /\ r.sts = 0 /\ r.map.count = m.count + 1
               /\ r.map.keys[m.count + 1] = key /\ r.map.values[m.count + 1] = value
            \/ r.sts = -1 /\ r.map.count = m.count
<1>1. PICK k \in Add(m.keys, m.count, m.capacity, key),
           v \in Add(m.values, m.count, m.capacity, value) :
        r = [sts |-> IF k.sts = 0 /\ v.sts = 0 THEN 0 ELSE -1,
             map |-> Map(k.data, v.data,
                         IF k.sts = 0 /\ v.sts = 0 THEN m.count + 1 ELSE m.count,
                         IF k.sts = 0 /\ v.sts = 0 THEN k.capacity ELSE m.capacity)]
  BY DEF MapAdd
<1> DEFINE n == m.count
           c == IF n + 1 > m.capacity THEN BestCapacityFit(m.capacity, n + 1) ELSE m.capacity
<1>2. /\ ListOK(Key, m.keys, n, m.capacity) /\ ListOK(Datum, m.values, n, m.capacity)
      /\ key \in Key /\ value \in Datum
      /\ \A i \in 1 .. n : m.keys[i] \in PollFd /\ m.values[i] \in UserData
  BY DEF MapOK, Key, Datum
<1>3. /\ ListOK(Key, k.data, n, m.capacity) /\ \A i \in 1 .. n : k.data[i] = m.keys[i]
      /\ k.sts = 0 => ListOK(Key, k.data, n + 1, k.capacity) /\ k.data[n + 1] = key /\ k.capacity = c
  BY <1>2, AddFacts
<1>4. /\ ListOK(Datum, v.data, n, m.capacity) /\ \A i \in 1 .. n : v.data[i] = m.values[i]
      /\ v.sts = 0 => ListOK(Datum, v.data, n + 1, v.capacity) /\ v.data[n + 1] = value /\ v.capacity = c
  BY <1>2, AddFacts
<1>5. n \in Nat
  BY <1>2 DEF ListOK
<1> HIDE DEF n, c
<1>6. CASE k.sts = 0 /\ v.sts = 0
  <2> DEFINE w == Map(k.data, v.data, n + 1, c)
  <2>1. r.sts = 0 /\ r.map = w
    BY <1>1, <1>3, <1>6 DEF n
  <2>2. w.keys = k.data /\ w.values = v.data /\ w.count = n + 1 /\ w.capacity = c
        /\ w = Map(w.keys, w.values, w.count, w.capacity)
    BY MapFields
  <2> HIDE DEF w
  <2>3. ASSUME NEW i \in 1 .. n + 1 PROVE k.data[i] \in PollFd /\ v.data[i] \in UserData
    <3>1. i \in 1 .. n \/ i = n + 1
      BY <1>5
    <3>2. QED
      BY <1>2, <1>3, <1>4, <1>6, <3>1
  <2>4. MapOK(w)
    BY <1>3, <1>4, <1>6, <2>2, <2>3 DEF MapOK
  <2>5. QED
    BY <1>3, <1>4, <1>6, <2>1, <2>2, <2>4 DEF n
<1>7. CASE ~(k.sts = 0 /\ v.sts = 0)
  <2> DEFINE w == Map(k.data, v.data, n, m.capacity)
  <2>1. r.sts = -1 /\ r.map = w
    BY <1>1, <1>7 DEF n
  <2>2. w.keys = k.data /\ w.values = v.data /\ w.count = n /\ w.capacity = m.capacity
        /\ w = Map(w.keys, w.values, w.count, w.capacity)
    BY MapFields
  <2> HIDE DEF w
  <2>3. MapOK(w)
    BY <1>2, <1>3, <1>4, <2>2 DEF MapOK
  <2>4. QED
    BY <1>3, <1>4, <2>1, <2>2, <2>3 DEF n
<1>8. QED
  BY <1>6, <1>7

\* The last entry in the place of the one that is removed.
LEMMA MapRemoveFacts ==
  ASSUME ~ShrinkFails, NEW m, MapOK(m), NEW from \in Nat, from < m.count,
         NEW r \in MapRemove(m, from)
  PROVE  /\ MapOK(r.map) /\ r.sts = 0 /\ r.map.count = m.count - 1
         /\ \A i \in 1 .. m.count - 1 :
              LET j == IF i = from + 1 THEN m.count ELSE i IN
              r.map.keys[i] = m.keys[j] /\ r.map.values[i] = m.values[j]
<1> DEFINE n == m.count - 1
           c == IF n < m.capacity \div 2 THEN BestCapacityFit(m.capacity, n) ELSE m.capacity
<1>1. /\ ListOK(Key, m.keys, m.count, m.capacity) /\ ListOK(Datum, m.values, m.count, m.capacity)
      /\ \A i \in 1 .. m.count : m.keys[i] \in PollFd /\ m.values[i] \in UserData
  BY DEF MapOK
<1>2. m.count \in Nat /\ n \in Nat
  <2>1. m.count \in Nat
    BY <1>1 DEF ListOK
  <2>2. QED
    BY <2>1
<1>3. PICK k \in Remove(m.keys, m.count, m.capacity, from),
           v \in Remove(m.values, m.count, m.capacity, from) :
        r = [sts |-> IF k.sts = 0 /\ v.sts = 0 THEN 0 ELSE -2,
             map |-> Map(k.data, v.data,
                         IF k.sts = 0 /\ v.sts = 0 THEN k.count ELSE m.count,
                         IF k.sts = 0 /\ v.sts = 0 THEN k.capacity ELSE m.capacity)]
  <2>1. ~(from >= m.count)
    BY <1>2
  <2>2. QED
    BY <2>1 DEF MapRemove
<1>4. /\ k.sts = 0 /\ k.count = n /\ ListOK(Key, k.data, n, k.capacity) /\ k.capacity = c
      /\ \A i \in 1 .. n : k.data[i] = IF i = from + 1 THEN m.keys[m.count] ELSE m.keys[i]
  BY <1>1, RemoveFacts
<1>5. /\ v.sts = 0 /\ v.count = n /\ ListOK(Datum, v.data, n, v.capacity) /\ v.capacity = c
      /\ \A i \in 1 .. n : v.data[i] = IF i = from + 1 THEN m.values[m.count] ELSE m.values[i]
  BY <1>1, RemoveFacts
<1> DEFINE w == Map(k.data, v.data, n, c)
<1> HIDE DEF c, n
<1>6. r.sts = 0 /\ r.map = w
  BY <1>3, <1>4, <1>5
<1>7. w.keys = k.data /\ w.values = v.data /\ w.count = n /\ w.capacity = c
      /\ w = Map(w.keys, w.values, w.count, w.capacity)
  BY MapFields
<1> HIDE DEF w
<1>8. ASSUME NEW i \in 1 .. n
      PROVE  LET j == IF i = from + 1 THEN m.count ELSE i IN
             /\ j \in 1 .. m.count
             /\ w.keys[i] = m.keys[j] /\ w.values[i] = m.values[j]
  <2>1. i \in 1 .. m.count /\ m.count \in 1 .. m.count
    BY <1>2 DEF n
  <2>2. QED
    BY <1>4, <1>5, <1>7, <2>1
<1>9. \A i \in 1 .. n : w.keys[i] \in PollFd /\ w.values[i] \in UserData
  BY <1>1, <1>8
<1>10. MapOK(w)
  BY <1>4, <1>5, <1>7, <1>9 DEF MapOK
<1>11. QED
  BY <1>6, <1>7, <1>8, <1>10 DEF n

-----------------------------------------------------------------------------
PoolInv ==
  /\ exists \in BOOLEAN /\ (~exists => map.count = 0)
  /\ MapOK(map) /\ map.count <= MaxEntries
  /\ condition \in [PoolSockets -> Conditions]
  /\ call.op \in Operations /\ call.ret \in Results
  /\ asked \in EventCounts \cup {0}
  /\ events \in Seq(Event)
  /\ EventsAreReady

LEMMA CalledFields ==
  ASSUME NEW op, NEW args, NEW ret, Called(op, args, ret)
  PROVE  call'.op = op /\ call'.args = args /\ call'.ret = ret
BY DEF Called

LEMMA PoolIsSound ==
  ASSUME PoolInv
  PROVE  PoolSound
<1>1. /\ map.count \in Nat /\ map.capacity <= Len(map.keys) /\ map.capacity <= Len(map.values)
      /\ map.count <= map.capacity
  BY DEF PoolInv, MapOK, ListOK
<1>2. TypeOK
  BY <1>1 DEF PoolInv, TypeOK, MapOK
<1>3. QED
  BY <1>1, <1>2 DEF PoolSound, WithinBlocks

\* Whatever is not a poll, or is one that failed or was refused, reports nothing.
LEMMA PoolKeeps ==
  ASSUME PoolInv, exists' \in BOOLEAN, ~exists' => map'.count = 0,
         MapOK(map'), map'.count <= MaxEntries,
         condition' \in [PoolSockets -> Conditions],
         NEW op \in Operations, NEW args, NEW ret \in Results,
         op = "poll" => ret \in {"invalid_argument", "memory", "unknown"},
         Called(op, args, ret), NoEvents
  PROVE  PoolInv'
<1>1. call'.op = op /\ call'.ret = ret
  BY CalledFields
<1>2. asked' \in EventCounts \cup {0} /\ events' \in Seq(Event) /\ events' = <<>>
  <2>1. <<>> \in Seq(Event)
    OBVIOUS
  <2>2. QED
    BY <2>1 DEF NoEvents
<1>3. EventsAreReady'
  BY <1>1, <1>2 DEF EventsAreReady
<1>4. QED
  BY <1>1, <1>2, <1>3 DEF PoolInv

LEMMA PoolCallsKeep ==
  ASSUME ~ShrinkFails, PoolInv,
         \/ tcs_pool_create \/ tcs_pool_destory
         \/ \E s \in PoolSockets \cup {NullSocket} :
              \/ \E data \in UserData, i \in Interests : tcs_pool_add(s, data, i)
              \/ tcs_pool_remove(s)
         \/ \E s \in PoolSockets : Change(s)
  PROVE  PoolInv'
<1>0. /\ MapOK(map) /\ map.count \in Nat /\ map.count <= MaxEntries /\ MaxEntries \in Nat
      /\ condition \in [PoolSockets -> Conditions] /\ exists \in BOOLEAN
      /\ ~exists => map.count = 0
  BY PoolAssumption DEF PoolInv, MapOK, ListOK
<1>a. /\ {"success", "memory", "invalid_argument"} \subseteq Results
      /\ \A op \in {"none", "create", "destroy", "add", "remove"} : op \in Operations /\ op # "poll"
  BY DEF Results, Operations
<1>1. CASE tcs_pool_create
  <2>1. NoEvents /\ UNCHANGED condition
    BY <1>1 DEF tcs_pool_create
  <2>2. CASE exists
    <3>1. Called("create", <<>>, "invalid_argument") /\ UNCHANGED <<exists, map>>
      BY <1>1, <2>2 DEF tcs_pool_create
    <3>2. QED
      BY <1>0, <1>a, <2>1, <3>1, PoolKeeps
  <2>3. CASE ~exists
    <3>1. PICK r \in MapCreate :
            /\ Called("create", <<>>, IF r.sts = 0 THEN "success" ELSE "memory")
            /\ exists' = (r.sts = 0) /\ map' = r.map
      BY <1>1, <2>3 DEF tcs_pool_create
    <3>2. MapOK(r.map) /\ r.map.count = 0
      BY MapCreateFacts
    <3>3. MapOK(map') /\ map'.count <= MaxEntries /\ map'.count = 0
      BY <1>0, <3>1, <3>2
    <3>4. exists' \in BOOLEAN
      BY <3>1
    <3> DEFINE ret == IF r.sts = 0 THEN "success" ELSE "memory"
    <3>5. ret \in Results /\ Called("create", <<>>, ret)
      BY <1>a, <3>1
    <3> HIDE DEF ret
    <3>6. QED
      BY <1>0, <1>a, <2>1, <3>3, <3>4, <3>5, PoolKeeps
  <2>4. QED
    BY <2>2, <2>3
<1>2. CASE tcs_pool_destory
  <2> DEFINE ret == IF exists THEN "success" ELSE "invalid_argument"
  <2>1. /\ Called("destroy", <<>>, ret) /\ ret \in Results
        /\ exists' = FALSE /\ map' = NoMap /\ NoEvents /\ UNCHANGED condition
    BY <1>a, <1>2 DEF tcs_pool_destory, MapDestroy
  <2> HIDE DEF ret
  <2>2. MapOK(map') /\ map'.count = 0 /\ map'.count <= MaxEntries
    BY <1>0, <2>1, NoMapOK
  <2>3. QED
    BY <1>0, <1>a, <2>1, <2>2, PoolKeeps
<1>3. ASSUME NEW s, NEW data \in UserData, NEW i \in Interests,
             s \in PoolSockets \cup {NullSocket}, tcs_pool_add(s, data, i)
      PROVE  PoolInv'
  <2>1. NoEvents /\ UNCHANGED <<exists, condition>>
    BY <1>3 DEF tcs_pool_add
  <2>2. CASE ~exists \/ s = NullSocket
    <3>1. Called("add", <<s, data>>, "invalid_argument") /\ UNCHANGED map
      BY <1>3, <2>2 DEF tcs_pool_add
    <3>2. QED
      BY <1>0, <1>a, <2>1, <3>1, PoolKeeps
  <2>3. CASE exists /\ s # NullSocket
    <3> DEFINE key == [fd |-> s, events |-> i, revents |-> {}]
    <3>1. key \in PollFd
      BY <1>3, <2>3 DEF PollFd
    <3>2. PICK r \in MapAdd(map, key, data) :
            Called("add", <<s, data>>, IF r.sts = 0 THEN "success" ELSE "memory") /\ map' = r.map
      BY <1>3, <2>3 DEF tcs_pool_add
    <3>3. map.count < MaxEntries
      BY <1>3, <2>3 DEF tcs_pool_add
    <3> HIDE DEF key
    <3>4. MapOK(r.map) /\ (r.map.count = map.count + 1 \/ r.map.count = map.count)
      BY <1>0, <1>3, <3>1, MapAddFacts
    <3>5. MapOK(map') /\ map'.count <= MaxEntries
      BY <1>0, <3>2, <3>3, <3>4
    <3> DEFINE ret == IF r.sts = 0 THEN "success" ELSE "memory"
    <3>6. ret \in Results /\ Called("add", <<s, data>>, ret)
      BY <1>a, <3>2
    <3> HIDE DEF ret
    <3>7. exists' /\ exists' \in BOOLEAN
      BY <1>0, <2>1, <2>3
    <3>8. QED
      BY <1>0, <1>a, <2>1, <3>5, <3>6, <3>7, PoolKeeps
  <2>4. QED
    BY <2>2, <2>3
<1>4. ASSUME NEW s, tcs_pool_remove(s) PROVE PoolInv'
  <2> DEFINE at == {i \in 1 .. map.count : map.keys[i].fd = s}
  <2>1. NoEvents /\ UNCHANGED <<exists, condition>>
    BY <1>4 DEF tcs_pool_remove
  <2>2. CASE ~exists \/ s = NullSocket \/ at = {}
    <3>1. Called("remove", <<s>>, "invalid_argument") /\ UNCHANGED map
      BY <1>4, <2>2 DEF tcs_pool_remove
    <3>2. QED
      BY <1>0, <1>a, <2>1, <3>1, PoolKeeps
  <2>3. CASE ~(~exists \/ s = NullSocket \/ at = {})
    <3>1. PICK i \in at : \E r \in MapRemove(map, i - 1) :
            Called("remove", <<s>>, IF r.sts = 0 THEN "success" ELSE "memory") /\ map' = r.map
      BY <1>4, <2>3 DEF tcs_pool_remove
    <3>2. PICK r \in MapRemove(map, i - 1) :
            Called("remove", <<s>>, IF r.sts = 0 THEN "success" ELSE "memory") /\ map' = r.map
      BY <3>1
    <3>3. i - 1 \in Nat /\ i - 1 < map.count
      BY <1>0
    <3>4. MapOK(r.map) /\ r.map.count = map.count - 1
      BY <1>0, <3>3, MapRemoveFacts
    <3>5. MapOK(map') /\ map'.count <= MaxEntries
      BY <1>0, <3>2, <3>4
    <3> DEFINE ret == IF r.sts = 0 THEN "success" ELSE "memory"
    <3>6. ret \in Results /\ Called("remove", <<s>>, ret)
      BY <1>a, <3>2
    <3> HIDE DEF ret
    <3>7. exists' /\ exists' \in BOOLEAN
      BY <1>0, <2>1, <2>3
    <3>8. QED
      BY <1>0, <1>a, <2>1, <3>5, <3>6, <3>7, PoolKeeps
  <2>4. QED
    BY <2>2, <2>3
<1>5. ASSUME NEW s \in PoolSockets, Change(s) PROVE PoolInv'
  <2>1. NoEvents /\ UNCHANGED <<exists, map>> /\ Called("none", <<>>, "success")
    BY <1>5 DEF Change
  <2>2. condition' \in [PoolSockets -> Conditions]
    BY <1>0, <1>5 DEF Change
  <2>3. QED
    BY <1>0, <1>a, <2>1, <2>2, PoolKeeps
<1>6. QED
  BY <1>1, <1>2, <1>3, <1>4, <1>5

-----------------------------------------------------------------------------
\* poll() changes what it found, and nothing else of an entry.
LEMMA PollMap ==
  ASSUME PoolInv, NEW size, NEW timeout, PollReturns(size, timeout)
  PROVE  /\ MapOK(map') /\ map'.count = map.count
         /\ \A i \in 1 .. map.count :
              /\ map'.keys[i].fd = map.keys[i].fd /\ map'.keys[i].events = map.keys[i].events
              /\ map'.values[i] = map.values[i]
<1> DEFINE Seen(i, first, n) ==
             [map.keys[i] EXCEPT !.revents =
                IF \E k \in 1 .. n : first[k] = i THEN {} ELSE Polled(map.keys[i])]
           New(first, n) == [i \in DOMAIN map.keys |->
                               IF i > map.count THEN map.keys[i] ELSE Seen(i, first, n)]
           n == IF Cardinality(Ready) > size THEN size ELSE Cardinality(Ready)
<1>1. PICK first \in Fill(Ready, n) : map' = [map EXCEPT !.keys = New(first, n)]
  BY DEF PollReturns
<1> HIDE DEF n
<1> DEFINE new == New(first, n)
<1>2. /\ map = Map(map.keys, map.values, map.count, map.capacity)
      /\ ListOK(Key, map.keys, map.count, map.capacity)
      /\ ListOK(Datum, map.values, map.count, map.capacity)
      /\ \A i \in 1 .. map.count : map.keys[i] \in PollFd /\ map.values[i] \in UserData
  BY DEF PoolInv, MapOK
<1>3. /\ map.keys \in Seq(Key) /\ map.count \in Nat /\ map.capacity \in Nat
      /\ map.count <= map.capacity /\ map.capacity <= Len(map.keys) /\ Len(map.keys) \in Nat
      /\ Zero \in Key /\ map.capacity \in Capacities \cup {0}
  BY <1>2 DEF ListOK
<1>4. ASSUME NEW i \in 1 .. map.count
      PROVE  /\ Seen(i, first, n) \in PollFd
             /\ Seen(i, first, n).fd = map.keys[i].fd /\ Seen(i, first, n).events = map.keys[i].events
  <2> DEFINE x == map.keys[i]
             v == IF \E k \in 1 .. n : first[k] = i THEN {} ELSE Polled(x)
             y == [x EXCEPT !.revents = v]
  <2>1. x \in PollFd
    BY <1>2
  <2>2. v \in SUBSET {"in", "out", "err", "hup", "nval"}
    <3>1. x.events \subseteq {"in", "out", "err"}
      BY <2>1, PoolAssumption DEF PollFd
    <3>2. Polled(x) \in SUBSET {"in", "out", "err", "hup", "nval"}
      BY <3>1 DEF Polled
    <3>3. QED
      BY <3>2
  <2> HIDE DEF x, v
  <2>3. y \in PollFd /\ y.fd = x.fd /\ y.events = x.events
    BY <2>1, <2>2 DEF PollFd
  <2>4. Seen(i, first, n) = y
    BY DEF x, v
  <2> HIDE DEF y, Seen
  <2>5. QED
    BY <2>3, <2>4 DEF x
<1> HIDE DEF Seen
<1>5. DOMAIN map.keys = 1 .. Len(map.keys)
  BY <1>3
<1>6. \A i \in 1 .. Len(map.keys) : new[i] = IF i > map.count THEN map.keys[i] ELSE Seen(i, first, n)
  BY <1>5
<1>7. ASSUME NEW i \in 1 .. Len(map.keys) PROVE new[i] \in Key
  <2>1. CASE i > map.count
    <3>1. map.keys[i] \in Key
      BY <1>3
    <3>2. QED
      BY <1>6, <2>1, <3>1
  <2>2. CASE ~(i > map.count)
    <3>1. i \in 1 .. map.count
      BY <1>3, <2>2
    <3>2. QED
      BY <1>4, <1>6, <2>2, <3>1 DEF Key
  <2>3. QED
    BY <2>1, <2>2
<1>8. new \in Seq(Key) /\ Len(new) = Len(map.keys)
  <2>1. new \in [1 .. Len(map.keys) -> Key]
    <3>1. DOMAIN new = 1 .. Len(map.keys) /\ new = [i \in DOMAIN new |-> new[i]]
      BY <1>5
    <3> HIDE DEF new
    <3>2. QED
      BY <1>7, <3>1
  <2> HIDE DEF new
  <2>2. QED
    BY <1>3, <2>1
<1> HIDE DEF new
<1>9. \A i \in 1 .. map.count : new[i] = Seen(i, first, n)
  BY <1>3, <1>6
<1> DEFINE w == Map(new, map.values, map.count, map.capacity)
<1>10. map' = w
  <2>1. map = [keys |-> map.keys, values |-> map.values, count |-> map.count, capacity |-> map.capacity]
    BY <1>2 DEF Map
  <2>2. map' = [map EXCEPT !.keys = new]
    BY <1>1 DEF new
  <2>3. QED
    BY <2>1, <2>2 DEF Map
<1>11. w.keys = new /\ w.values = map.values /\ w.count = map.count /\ w.capacity = map.capacity
       /\ w = Map(w.keys, w.values, w.count, w.capacity)
  BY MapFields
<1> HIDE DEF w
<1>12. ListOK(Key, new, map.count, map.capacity)
  BY <1>3, <1>8 DEF ListOK
<1>13. MapOK(w)
  BY <1>2, <1>4, <1>9, <1>11, <1>12 DEF MapOK
<1>14. QED
  BY <1>4, <1>9, <1>10, <1>11, <1>13

LEMMA PollReady ==
  ASSUME PoolInv, NEW size, NEW timeout, PollReturns(size, timeout), UNCHANGED condition
  PROVE  Ready' = Ready
<1>1. map'.count = map.count
  BY PollMap
<1>2. ASSUME NEW i \in 1 .. map.count PROVE Polled(map.keys[i])' = Polled(map.keys[i])
  <2>1. map'.keys[i].fd = map.keys[i].fd /\ map'.keys[i].events = map.keys[i].events
    BY PollMap
  <2>2. QED
    BY <2>1 DEF Polled
<1>3. QED
  BY <1>1, <1>2 DEF Ready

\* An event of an entry that is ready.
LEMMA EventFacts ==
  ASSUME PoolInv, NEW i \in Ready
  PROVE  /\ EventOf(i) \in Event /\ TrueOfSocket(EventOf(i))
         /\ EventOf(i).socket = map.keys[i].fd /\ EventOf(i).user_data = map.values[i]
<1>1. map.keys[i] \in PollFd /\ map.values[i] \in UserData
  BY DEF PoolInv, MapOK, Ready
<1>2. map.keys[i].fd \in PoolSockets
  BY <1>1 DEF PollFd
<1> DEFINE r == Polled(map.keys[i])
           c == condition[map.keys[i].fd]
<1>3. EventOf(i) = [socket |-> map.keys[i].fd, user_data |-> map.values[i],
                    can_read |-> "in" \in r, can_write |-> "out" \in r, error |-> "err" \in r]
  BY DEF EventOf, EventWith
<1>4. r \subseteq c /\ r # {}
  BY DEF Polled, Ready
<1>5. c \subseteq {"in", "out", "err", "hup", "nval"}
  BY <1>2, PoolAssumption DEF PoolInv
<1> HIDE DEF r, c
<1>6. ("in" \in r) \in BOOLEAN /\ ("out" \in r) \in BOOLEAN /\ ("err" \in r) \in BOOLEAN
  OBVIOUS
<1>7. EventOf(i).socket = map.keys[i].fd /\ EventOf(i).user_data = map.values[i]
  BY <1>3
<1>8. EventOf(i).can_read <=> "in" \in r
  BY DEF EventOf, EventWith, r
<1>9. EventOf(i).can_write <=> "out" \in r
  BY DEF EventOf, EventWith, r
<1>10. EventOf(i).error <=> "err" \in r
  BY DEF EventOf, EventWith, r
<1>11. EventOf(i) \in Event
  BY <1>1, <1>2, <1>3, <1>6 DEF Event
<1>12. /\ "in" \in r => "in" \in c
       /\ "out" \in r => "out" \in c
       /\ "err" \in r => "err" \in c
       /\ "in" \in r \/ "out" \in r \/ "err" \in r \/ "hup" \in c \/ "nval" \in c
  BY <1>4, <1>5
<1>13. condition[EventOf(i).socket] = c
  BY <1>7 DEF c
<1>14. TrueOfSocket(EventOf(i))
  BY <1>8, <1>9, <1>10, <1>12, <1>13, Zenon DEF TrueOfSocket
<1>15. QED
  BY <1>7, <1>11, <1>14

LEMMA PollReturnsKeeps ==
  ASSUME PoolInv, NEW size \in EventCounts, NEW timeout, PollReturns(size, timeout),
         UNCHANGED <<exists, condition>>
  PROVE  PoolInv'
<1> DEFINE n == IF Cardinality(Ready) > size THEN size ELSE Cardinality(Ready)
<1>1. MapOK(map') /\ map'.count = map.count
      /\ \A i \in 1 .. map.count : map'.keys[i].fd = map.keys[i].fd /\ map'.values[i] = map.values[i]
  BY PollMap
<1>2. Ready' = Ready
  BY PollReady
<1>3. PICK first \in Fill(Ready, n) : events' = [k \in 1 .. n |-> EventOf(first[k])]
  BY DEF PollReturns
<1>4. /\ UNCHANGED <<exists, condition>> /\ asked' = size
      /\ Called("poll", <<>>, IF Ready = {} THEN "timed_out" ELSE "success")
  BY DEF PollReturns
<1>5. map.count \in Nat /\ Ready \in SUBSET (1 .. map.count)
  BY DEF PoolInv, MapOK, ListOK, Ready
<1>6. Cardinality(Ready) \in Nat /\ (Cardinality(Ready) = 0 <=> Ready = {})
  BY <1>5, Counts
<1>7. /\ n \in Nat
      /\ n = IF size >= Cardinality(Ready) THEN Cardinality(Ready) ELSE size
      /\ Ready = {} => n = 0
  BY <1>6, PoolAssumption
<1> HIDE DEF n
<1>8. /\ first \in [1 .. n -> Ready]
      /\ \A k, l \in 1 .. n : k < l => first[k] < first[l]
  BY <1>3 DEF Fill
<1>9. \A k \in 1 .. n : /\ EventOf(first[k]) \in Event /\ TrueOfSocket(EventOf(first[k]))
                        /\ EventOf(first[k]).socket = map.keys[first[k]].fd
                        /\ EventOf(first[k]).user_data = map.values[first[k]]
  BY <1>8, EventFacts
<1>10. events' \in [1 .. n -> Event]
  BY <1>3, <1>9
<1>11. events' \in Seq(Event) /\ Len(events') = n /\ DOMAIN events' = 1 .. n
  BY <1>7, <1>10
<1>12. /\ call'.op = "poll" /\ call'.op \in Operations /\ call'.ret \in Results
       /\ call'.ret = IF Ready = {} THEN "timed_out" ELSE "success"
  <2>1. call'.op = "poll" /\ call'.ret = IF Ready = {} THEN "timed_out" ELSE "success"
    BY <1>4, CalledFields
  <2>2. QED
    BY <2>1 DEF Operations, Results
<1> DEFINE of(e) == {i \in Ready : map.keys[i].fd = e.socket /\ map.values[i] = e.user_data}
           of2(e) == {i \in Ready' : map'.keys[i].fd = e.socket /\ map'.values[i] = e.user_data}
           like(k) == {l \in DOMAIN events' : /\ events'[l].socket = events'[k].socket
                                             /\ events'[l].user_data = events'[k].user_data}
<1>13. ASSUME NEW e PROVE of2(e) = of(e)
  BY <1>1, <1>2, <1>5
<1>14. ASSUME NEW k \in DOMAIN events' PROVE Cardinality(like(k)) <= Cardinality(of(events'[k]))
  <2> DEFINE A == like(k)
             B == of(events'[k])
             f == [l \in A |-> first[l]]
  <2>1. IsFiniteSet(B)
    <3>1. IsFiniteSet(1 .. map.count)
      BY <1>5, FS_Interval
    <3>2. B \in SUBSET (1 .. map.count)
      BY <1>5
    <3> HIDE DEF B
    <3>3. QED
      BY <3>1, <3>2, FS_Subset
  <2>2. ASSUME NEW l \in A PROVE l \in 1 .. n /\ first[l] \in B
    <3>1. l \in 1 .. n /\ k \in 1 .. n
      BY <1>11
    <3>2. events'[l] = EventOf(first[l]) /\ first[l] \in Ready
      BY <1>3, <1>8, <3>1
    <3>3. map.keys[first[l]].fd = events'[l].socket /\ map.values[first[l]] = events'[l].user_data
      BY <1>9, <3>1, <3>2
    <3>4. QED
      BY <3>1, <3>2, <3>3
  <2> HIDE DEF A, B
  <2>3. f \in [A -> B]
    BY <2>2
  <2>4. ASSUME NEW l \in A, NEW m \in A, f[l] = f[m] PROVE l = m
    <3>1. l \in 1 .. n /\ m \in 1 .. n /\ first[l] = first[m]
      BY <2>2, <2>4
    <3>2. first[l] \in Nat /\ first[m] \in Nat
      <4>1. \A i \in Ready : i \in Nat
        BY <1>5
      <4>2. first[l] \in Ready /\ first[m] \in Ready
        BY <1>8, <3>1
      <4>3. QED
        BY <4>1, <4>2
    <3>3. ~(l < m) /\ ~(m < l)
      BY <1>8, <3>1, <3>2
    <3>4. QED
      BY <1>7, <3>1, <3>3
  <2> HIDE DEF f
  <2>5. f \in Injection(A, B)
    BY <2>3, <2>4 DEF Injection, IsInjective
  <2>6. Cardinality(A) <= Cardinality(B)
    BY <2>1, <2>5, FS_Injection
  <2>7. QED
    BY <2>6 DEF A, B
<1>15. ASSUME NEW k \in DOMAIN events' PROVE Cardinality(like(k)) <= Cardinality(of2(events'[k]))
  BY <1>13, <1>14
<1>16. Len(events') = IF asked' >= Cardinality(Ready') THEN Cardinality(Ready') ELSE asked'
  BY <1>2, <1>4, <1>7, <1>11
<1>17. ASSUME NEW k \in DOMAIN events' PROVE TrueOfSocket(events[k])'
  <2>1. events'[k] = EventOf(first[k]) /\ TrueOfSocket(EventOf(first[k]))
    BY <1>3, <1>9, <1>11
  <2> HIDE DEF of, of2, like
  <2>2. QED
    BY <1>4, <2>1 DEF TrueOfSocket
<1>18. ASSUME NEW k \in DOMAIN events'
       PROVE  Cardinality(EventsLike(events[k]))' <= Cardinality(ReadyLike(events[k]))'
  <2>1. EventsLike(events[k])' = like(k) /\ ReadyLike(events[k])' = of2(events'[k])
    BY DEF EventsLike, ReadyLike
  <2> HIDE DEF of, of2, like
  <2>2. QED
    BY <1>15, <2>1
<1> HIDE DEF of, of2, like
<1>19. call'.ret # "success" => events' = <<>>
  BY <1>7, <1>11, <1>12
<1>20. EventsAreReady'
  BY <1>2, <1>12, <1>16, <1>17, <1>18, <1>19 DEF EventsAreReady
<1>21. QED
  BY <1>1, <1>4, <1>11, <1>12, <1>20 DEF PoolInv

LEMMA PollKeeps ==
  ASSUME PoolInv, NEW size \in EventCounts, NEW timeout \in PollTimeouts,
         tcs_pool_poll(size, timeout)
  PROVE  PoolInv'
<1>1. UNCHANGED <<exists, condition>>
  BY DEF tcs_pool_poll
<1>2. CASE PollReturns(size, ToInt(timeout))
  BY <1>1, <1>2, PollReturnsKeeps
<1>3. CASE ~PollReturns(size, ToInt(timeout))
  <2>1. PICK ret \in {"invalid_argument", "memory", "unknown"} :
          Called("poll", <<>>, ret) /\ NoEvents /\ UNCHANGED map
    <3>1. \/ Called("poll", <<>>, "invalid_argument") /\ NoEvents /\ UNCHANGED map
          \/ PollFails
      BY <1>3 DEF tcs_pool_poll
    <3>2. \A e \in PollErrors : errno2retcode(e) \in {"invalid_argument", "memory", "unknown"}
      BY DEF PollErrors, errno2retcode
    <3>3. QED
      BY <3>1, <3>2 DEF PollFails
  <2>2. /\ exists' \in BOOLEAN /\ (~exists' => map'.count = 0)
        /\ MapOK(map') /\ map'.count <= MaxEntries
        /\ condition' \in [PoolSockets -> Conditions]
    BY <1>1, <2>1 DEF PoolInv
  <2>3. "poll" \in Operations /\ ret \in Results
    BY DEF Operations, Results
  <2>4. QED
    BY <2>1, <2>2, <2>3, PoolKeeps
<1>4. QED
  BY <1>2, <1>3

LEMMA PoolStarts == Init => PoolInv
<1> SUFFICES ASSUME Init PROVE PoolInv
  OBVIOUS
<1>1. /\ exists = FALSE /\ map = NoMap /\ condition \in [PoolSockets -> Conditions]
      /\ call = [op |-> "none", args |-> <<>>, ret |-> "success"] /\ asked = 0 /\ events = <<>>
  BY DEF Init
<1>2. <<>> \in Seq(Event)
  OBVIOUS
<1>3. MapOK(map) /\ map.count = 0 /\ map.count <= MaxEntries
  BY <1>1, NoMapOK, PoolAssumption
<1>4. EventsAreReady
  BY <1>1 DEF EventsAreReady
<1>5. call.op \in Operations /\ call.ret \in Results
  BY <1>1 DEF Operations, Results
<1>6. QED
  BY <1>1, <1>2, <1>3, <1>4, <1>5 DEF PoolInv

LEMMA PoolSteps == ~ShrinkFails /\ PoolInv /\ [Next]_vars => PoolInv'
<1> SUFFICES ASSUME ~ShrinkFails, PoolInv, [Next]_vars PROVE PoolInv'
  OBVIOUS
<1>1. CASE UNCHANGED vars
  BY <1>1 DEF PoolInv, vars, EventsAreReady, EventsLike, ReadyLike, TrueOfSocket, Ready, Polled
<1>2. CASE \E size \in EventCounts, timeout \in PollTimeouts : tcs_pool_poll(size, timeout)
  BY <1>2, PollKeeps
<1>3. CASE \/ tcs_pool_create \/ tcs_pool_destory
           \/ \E s \in PoolSockets \cup {NullSocket} :
                \/ \E data \in UserData, i \in Interests : tcs_pool_add(s, data, i)
                \/ tcs_pool_remove(s)
           \/ \E s \in PoolSockets : Change(s)
  BY <1>3, PoolCallsKeep
<1>4. QED
  BY <1>1, <1>2, <1>3 DEF Next

(* Through additions that run out of memory halfway, growing, shrinking     *)
(* and the swaps of removals, no write of the pool goes behind a block and  *)
(* its entries stay entries - whatever the sockets, the data and the        *)
(* capacity it starts with, as long as realloc never fails to make a block  *)
(* smaller, where the code itself gives up.                                 *)
THEOREM PoolStaysSound == ASSUME ~ShrinkFails PROVE Spec => []PoolSound
<1>1. Init => PoolInv
  BY PoolStarts
<1>2. PoolInv /\ [Next]_vars => PoolInv'
  BY PoolSteps
<1>3. PoolInv => PoolSound
  BY PoolIsSound
<1>4. QED
  BY <1>1, <1>2, <1>3, PTL DEF Spec

(* However poll() ends - with ready entries, a timeout, an error, or refused *)
(* - the events are those of ready entries: each at most once, with its own  *)
(* data, true of its socket, none missing if the array has room, and none at *)
(* all after an error.  For the same reallocs, and any conditions, timeouts  *)
(* and arrays.                                                               *)
THEOREM PollReportsReady == ASSUME ~ShrinkFails PROVE Spec => []EventsAreReady
<1>1. Init => PoolInv
  BY PoolStarts
<1>2. PoolInv /\ [Next]_vars => PoolInv'
  BY PoolSteps
<1>3. PoolInv => EventsAreReady
  BY DEF PoolInv
<1>4. QED
  BY <1>1, <1>2, <1>3, PTL DEF Spec

-----------------------------------------------------------------------------
(* The pool as a bag                                                         *)

Copies(m, p) == Cardinality(PlacesOf(m, p))

LEMMA EntriesFacts ==
  ASSUME NEW m, m.count \in Nat
  PROVE  /\ \A p : IsFiniteSet(PlacesOf(m, p)) /\ Copies(m, p) \in Nat
         /\ DOMAIN EntriesOf(m) = {p \in DOMAIN EntriesOf(m) : Copies(m, p) > 0}
         /\ \A p : p \in DOMAIN EntriesOf(m) <=> Copies(m, p) > 0
         /\ \A p \in DOMAIN EntriesOf(m) : EntriesOf(m)[p] = Copies(m, p)
         /\ EntriesOf(m) = [p \in DOMAIN EntriesOf(m) |-> Copies(m, p)]
<1>1. ASSUME NEW p
      PROVE  IsFiniteSet(PlacesOf(m, p)) /\ Copies(m, p) \in Nat
             /\ (Copies(m, p) > 0 <=> PlacesOf(m, p) # {})
  <2> DEFINE P == PlacesOf(m, p)
  <2>1. P \in SUBSET (1 .. m.count)
    BY DEF PlacesOf
  <2>2. IsFiniteSet(1 .. m.count)
    BY FS_Interval
  <2> HIDE DEF P
  <2>3. IsFiniteSet(P)
    BY <2>1, <2>2, FS_Subset
  <2>4. Cardinality(P) \in Nat /\ (Cardinality(P) = 0 <=> P = {})
    BY <2>3, FS_CardinalityType, FS_EmptySet
  <2>5. Cardinality(P) > 0 <=> P # {}
    BY <2>4
  <2>6. QED
    BY <2>3, <2>4, <2>5 DEF Copies, P
<1>2. ASSUME NEW p PROVE p \in DOMAIN EntriesOf(m) <=> PlacesOf(m, p) # {}
  BY DEF EntriesOf, PlacesOf
<1>3. \A p \in DOMAIN EntriesOf(m) : EntriesOf(m)[p] = Copies(m, p)
  BY DEF EntriesOf, Copies
<1>4. EntriesOf(m) = [p \in DOMAIN EntriesOf(m) |-> Copies(m, p)]
  BY DEF EntriesOf, Copies
<1>5. QED
  BY <1>1, <1>2, <1>3, <1>4

\* Bags of two maps with as many copies of each pair are the same.
LEMMA SameCopies ==
  ASSUME NEW m, NEW w, m.count \in Nat, w.count \in Nat, \A p : Copies(w, p) = Copies(m, p)
  PROVE  EntriesOf(w) = EntriesOf(m)
<1>1. DOMAIN EntriesOf(w) = DOMAIN EntriesOf(m)
  BY EntriesFacts
<1>2. EntriesOf(w) = [p \in DOMAIN EntriesOf(w) |-> Copies(w, p)]
      /\ EntriesOf(m) = [p \in DOMAIN EntriesOf(m) |-> Copies(m, p)]
  BY EntriesFacts
<1>3. QED
  BY <1>1, <1>2

LEMMA SameEntries ==
  ASSUME NEW m, NEW w, w.count = m.count,
         \A i \in 1 .. m.count : PairAt(w, i) = PairAt(m, i)
  PROVE  EntriesOf(w) = EntriesOf(m)
<1>1. \A p : PlacesOf(w, p) = PlacesOf(m, p)
  BY DEF PlacesOf
<1>2. {PairAt(w, i) : i \in 1 .. w.count} = {PairAt(m, i) : i \in 1 .. m.count}
  OBVIOUS
<1>3. QED
  BY <1>1, <1>2 DEF EntriesOf

LEMMA NoEntries ==
  ASSUME NEW m, m.count = 0
  PROVE  EntriesOf(m) = EmptyBag
<1>1. {PairAt(m, i) : i \in 1 .. m.count} = {}
  OBVIOUS
<1>2. QED
  BY <1>1 DEF EntriesOf, EmptyBag, SetToBag

LEMMA MoreEntries ==
  ASSUME NEW m, NEW w, m.count \in Nat, w.count = m.count + 1,
         \A i \in 1 .. m.count : PairAt(w, i) = PairAt(m, i)
  PROVE  EntriesOf(w) = EntriesOf(m) (+) SetToBag({PairAt(w, w.count)})
<1> DEFINE n == m.count
           e == PairAt(w, w.count)
           D == DOMAIN EntriesOf(m)
           bag == EntriesOf(m) (+) SetToBag({e})
<1>1. n \in Nat /\ w.count = n + 1 /\ w.count \in Nat
  OBVIOUS
<1>2. PlacesOf(w, e) = PlacesOf(m, e) \cup {n + 1} /\ n + 1 \notin PlacesOf(m, e)
  BY DEF PlacesOf
<1>3. Copies(w, e) = Copies(m, e) + 1
  <2> DEFINE P == PlacesOf(m, e)
  <2>1. IsFiniteSet(P)
    BY <1>1, EntriesFacts
  <2> HIDE DEF P
  <2>2. Cardinality(P \cup {n + 1}) = Cardinality(P) + 1
    BY <1>2, <2>1, FS_AddElement DEF P
  <2>3. QED
    BY <1>2, <2>2 DEF Copies, P
<1>4. ASSUME NEW p, p # e PROVE Copies(w, p) = Copies(m, p)
  <2>1. PlacesOf(w, p) = PlacesOf(m, p)
    BY <1>4 DEF PlacesOf
  <2>2. QED
    BY <2>1 DEF Copies
<1> HIDE DEF e, n
<1>5. DOMAIN EntriesOf(w) = D \cup {e}
  <2>1. ASSUME NEW p PROVE p \in DOMAIN EntriesOf(w) <=> p \in D \cup {e}
    <3>1. Copies(m, p) \in Nat /\ Copies(w, p) \in Nat /\ Copies(m, e) \in Nat
      BY <1>1, EntriesFacts
    <3>2. (p \in DOMAIN EntriesOf(w) <=> Copies(w, p) > 0) /\ (p \in D <=> Copies(m, p) > 0)
      BY <1>1, EntriesFacts
    <3> HIDE DEF D
    <3>3. CASE p = e
      <4>1. Copies(w, p) > 0
        BY <1>3, <3>1, <3>3
      <4>2. QED
        BY <3>2, <3>3, <4>1
    <3>4. CASE p # e
      BY <1>4, <3>2, <3>4
    <3>5. QED
      BY <3>3, <3>4
  <2> HIDE DEF D
  <2>2. QED
    BY <2>1
<1>6. bag = [p \in D \cup {e} |-> (IF p \in D THEN Copies(m, p) ELSE 0) + (IF p = e THEN 1 ELSE 0)]
  <2>1. DOMAIN SetToBag({e}) = {e} /\ SetToBag({e})[e] = 1
    BY DEF SetToBag
  <2>2. \A p \in D : EntriesOf(m)[p] = Copies(m, p)
    BY <1>1, EntriesFacts
  <2>3. QED
    BY <2>1, <2>2 DEF (+)
<1>7. EntriesOf(w) = [p \in D \cup {e} |-> Copies(w, p)]
  <2>1. EntriesOf(w) = [p \in DOMAIN EntriesOf(w) |-> Copies(w, p)]
    BY <1>1, EntriesFacts
  <2>2. QED
    BY <1>5, <2>1
<1>8. ASSUME NEW p \in D \cup {e}
      PROVE  Copies(w, p) = (IF p \in D THEN Copies(m, p) ELSE 0) + (IF p = e THEN 1 ELSE 0)
  <2>1. Copies(m, p) \in Nat /\ Copies(m, e) \in Nat /\ (p \in D <=> Copies(m, p) > 0)
    BY <1>1, EntriesFacts
  <2> HIDE DEF D
  <2>2. QED
    BY <1>3, <1>4, <1>8, <2>1
<1> HIDE DEF D, bag
<1>9. EntriesOf(w) = bag
  BY <1>6, <1>7, <1>8
<1>10. QED
  BY <1>9 DEF bag, e

\* How often each pair is there after a removal at f.
LEMMA RemovedCopies ==
  ASSUME NEW m, NEW w, m.count \in Nat, NEW f \in 1 .. m.count, w.count = m.count - 1,
         \A i \in 1 .. m.count - 1 : PairAt(w, i) = PairAt(m, IF i = f THEN m.count ELSE i)
  PROVE  /\ Copies(m, PairAt(m, f)) = Copies(w, PairAt(m, f)) + 1
         /\ \A p : p # PairAt(m, f) => Copies(w, p) = Copies(m, p)
<1> DEFINE n == m.count
           e == PairAt(m, f)
           q == PairAt(m, n)
<1>1. n \in Nat /\ w.count = n - 1 /\ w.count \in Nat /\ f \in 1 .. n /\ n \in 1 .. n
  OBVIOUS
<1>2. \A i \in 1 .. n - 1 : PairAt(w, i) = IF i = f THEN q ELSE PairAt(m, i)
  OBVIOUS
<1>3. PairAt(m, f) = e /\ PairAt(m, n) = q
  OBVIOUS
<1>4. \A p : PlacesOf(w, p) = {i \in 1 .. n - 1 : PairAt(w, i) = p}
             /\ PlacesOf(m, p) = {i \in 1 .. n : PairAt(m, i) = p}
  BY <1>1 DEF PlacesOf
<1>5. ASSUME NEW p, NEW i, i \notin PlacesOf(w, p), PlacesOf(m, p) = PlacesOf(w, p) \cup {i}
      PROVE  Copies(m, p) = Copies(w, p) + 1
  <2>1. IsFiniteSet(PlacesOf(w, p))
    BY <1>1, EntriesFacts
  <2>2. Cardinality(PlacesOf(w, p) \cup {i}) = Cardinality(PlacesOf(w, p)) + 1
    BY <1>5, <2>1, FS_AddElement
  <2>3. QED
    BY <1>5, <2>2 DEF Copies
<1> HIDE DEF e, q, n
<1>6. CASE e = q
  <2>1. \A i \in 1 .. n - 1 : PairAt(w, i) = PairAt(m, i)
    BY <1>2, <1>3, <1>6
  <2>2. n \notin PlacesOf(w, e) /\ PlacesOf(m, e) = PlacesOf(w, e) \cup {n}
    BY <1>1, <1>3, <1>4, <1>6, <2>1
  <2>3. ASSUME NEW p, p # e PROVE Copies(w, p) = Copies(m, p)
    <3>1. PlacesOf(w, p) = PlacesOf(m, p)
      BY <1>1, <1>3, <1>4, <1>6, <2>1, <2>3
    <3>2. QED
      BY <3>1 DEF Copies
  <2>4. QED
    BY <1>3, <1>5, <2>2, <2>3
<1>7. CASE e # q
  <2>1. f \in 1 .. n - 1
    BY <1>1, <1>3, <1>7
  <2>2. f \notin PlacesOf(w, e) /\ PlacesOf(m, e) = PlacesOf(w, e) \cup {f}
    BY <1>1, <1>2, <1>3, <1>4, <1>7, <2>1
  <2>3. ASSUME NEW p, p # e PROVE Copies(w, p) = Copies(m, p)
    <3> DEFINE C == PlacesOf(m, p) \ {n}
    <3>1. CASE p = q
      <4>1. f \notin C /\ n \notin C /\ PlacesOf(w, p) = C \cup {f} /\ PlacesOf(m, p) = C \cup {n}
        BY <1>1, <1>2, <1>3, <1>4, <1>7, <2>1, <3>1
      <4>2. IsFiniteSet(C)
        <5>1. IsFiniteSet(PlacesOf(m, p))
          BY <1>1, EntriesFacts DEF n
        <5>2. QED
          BY <5>1, FS_Subset
      <4> HIDE DEF C
      <4>3. Cardinality(C \cup {f}) = Cardinality(C) + 1 /\ Cardinality(C \cup {n}) = Cardinality(C) + 1
        BY <4>1, <4>2, FS_AddElement
      <4>4. QED
        BY <4>1, <4>3 DEF Copies
    <3>2. CASE p # q
      <4>1. ASSUME NEW i PROVE i \in PlacesOf(w, p) <=> i \in PlacesOf(m, p)
        <5>1. CASE i = f \/ i = n
          BY <1>1, <1>2, <1>3, <1>4, <2>1, <2>3, <3>2, <5>1
        <5>2. CASE i # f /\ i # n
          <6>1. i \in 1 .. n <=> i \in 1 .. n - 1
            BY <1>1, <5>2
          <6>2. QED
            BY <1>2, <1>4, <5>2, <6>1
        <5>3. QED
          BY <5>1, <5>2
      <4>2. PlacesOf(w, p) = PlacesOf(m, p)
        BY <1>4, <4>1
      <4>3. QED
        BY <4>2 DEF Copies
    <3>3. QED
      BY <3>1, <3>2
  <2>4. QED
    BY <1>3, <1>5, <2>2, <2>3
<1>8. QED
  BY <1>6, <1>7

LEMMA FewerEntries ==
  ASSUME NEW m, NEW w, m.count \in Nat, NEW f \in 1 .. m.count, w.count = m.count - 1,
         \A i \in 1 .. m.count - 1 : PairAt(w, i) = PairAt(m, IF i = f THEN m.count ELSE i)
  PROVE  /\ PairAt(m, f) \in DOMAIN EntriesOf(m)
         /\ EntriesOf(w) = EntriesOf(m) (-) SetToBag({PairAt(m, f)})
<1> DEFINE e == PairAt(m, f)
           D == DOMAIN EntriesOf(m)
           E == DOMAIN EntriesOf(w)
           left == [p \in D |-> IF p = e THEN Copies(m, p) - 1 ELSE Copies(m, p)]
           bag == EntriesOf(m) (-) SetToBag({e})
<1>1. Copies(m, e) = Copies(w, e) + 1 /\ \A p : p # e => Copies(w, p) = Copies(m, p)
  BY RemovedCopies
<1>2. m.count \in Nat /\ w.count \in Nat
  OBVIOUS
<1>3. /\ \A p : Copies(m, p) \in Nat /\ Copies(w, p) \in Nat
      /\ \A p : (p \in D <=> Copies(m, p) > 0) /\ (p \in E <=> Copies(w, p) > 0)
      /\ \A p \in D : EntriesOf(m)[p] = Copies(m, p)
      /\ EntriesOf(w) = [p \in E |-> Copies(w, p)]
  BY <1>2, EntriesFacts
<1> HIDE DEF D, E, e
<1>4. e \in D
  BY <1>1, <1>3
<1>5. bag = [p \in {d \in D : left[d] > 0} |-> left[p]]
  <2>1. DOMAIN SetToBag({e}) = {e} /\ SetToBag({e})[e] = 1
    BY DEF SetToBag
  <2>2. left = [p \in D |-> IF p \in DOMAIN SetToBag({e}) THEN EntriesOf(m)[p] - SetToBag({e})[p]
                                                        ELSE EntriesOf(m)[p]]
    BY <1>3, <2>1
  <2>3. DOMAIN left = D
    OBVIOUS
  <2> HIDE DEF left
  <2>4. QED
    BY <2>2, <2>3 DEF (-), D
<1>6. \A p \in D : left[p] = Copies(w, p)
  BY <1>1, <1>3
<1> HIDE DEF left
<1>7. {d \in D : left[d] > 0} = E
  BY <1>1, <1>3, <1>6
<1> HIDE DEF bag
<1>8. bag = [p \in E |-> Copies(w, p)]
  BY <1>5, <1>6, <1>7
<1>9. QED
  BY <1>3, <1>4, <1>8 DEF bag, e, D

\* What the bag may do in the terms of a map's entries.
LEMMA BagSteps ==
  ASSUME NEW old, old = EntriesOf(map),
         \/ \E s \in PoolSockets, data \in UserData :
              /\ call'.op = "add" /\ call'.args = <<s, data>> /\ call'.ret = "success"
              /\ EntriesOf(map') = old (+) SetToBag({<<s, data>>})
         \/ \E e \in DOMAIN old :
              /\ call'.op = "remove" /\ call'.args = <<e[1]>> /\ call'.ret = "success"
              /\ EntriesOf(map') = old (-) SetToBag({e})
         \/ /\ call'.op = "remove" /\ call'.ret = "invalid_argument"
            /\ \A e \in DOMAIN old : call'.args # <<e[1]>>
            /\ EntriesOf(map') = old
         \/ call'.op = "destroy" /\ call'.ret = "success" /\ EntriesOf(map') = EmptyBag
         \/ /\ call'.op \in {"add", "destroy"} /\ call'.ret # "success"
            /\ EntriesOf(map') = old
         \/ call'.op \notin {"add", "remove", "destroy"} /\ EntriesOf(map') = old
  PROVE  Bag!BagNext
<1> DEFINE new == EntriesOf(map')
<1>1. EntriesOf(map)' = new
  OBVIOUS
<1>2. /\ Bag!EmptyBag = EmptyBag /\ Bag!BagToSet(old) = DOMAIN old
      /\ \A e : Bag!(+)(old, Bag!SetToBag({e})) = old (+) SetToBag({e})
              /\ Bag!(-)(old, Bag!SetToBag({e})) = old (-) SetToBag({e})
  BY DEF Bag!EmptyBag, EmptyBag, Bag!BagToSet, Bag!SetToBag, SetToBag, Bag!(+), (+), Bag!(-), (-)
<1> HIDE DEF new
<1>3. ASSUME NEW s \in PoolSockets, NEW data \in UserData,
             call'.op = "add", call'.args = <<s, data>>, call'.ret = "success",
             new = old (+) SetToBag({<<s, data>>})
      PROVE  Bag!BagAdd(s, data)
  BY <1>1, <1>2, <1>3 DEF Bag!BagAdd
<1>4. ASSUME NEW e \in DOMAIN old,
             call'.op = "remove", call'.args = <<e[1]>>, call'.ret = "success",
             new = old (-) SetToBag({e})
      PROVE  Bag!BagRemove(e)
  BY <1>1, <1>2, <1>4 DEF Bag!BagRemove
<1>5. CASE /\ call'.op = "remove" /\ call'.ret = "invalid_argument"
           /\ \A e \in DOMAIN old : call'.args # <<e[1]>>
           /\ new = old
  BY <1>1, <1>2, <1>5 DEF Bag!BagLacks, Bag!BagNext
<1>6. CASE call'.op = "destroy" /\ call'.ret = "success" /\ new = EmptyBag
  BY <1>1, <1>2, <1>6 DEF Bag!BagDestroy, Bag!BagNext
<1>7. CASE call'.op \in {"add", "destroy"} /\ call'.ret # "success" /\ new = old
  BY <1>1, <1>7 DEF Bag!BagFails, Bag!BagNext
<1>8. CASE call'.op \notin {"add", "remove", "destroy"} /\ new = old
  BY <1>1, <1>8 DEF Bag!BagOther, Bag!BagNext
<1>9. CASE \E s \in PoolSockets, data \in UserData :
              /\ call'.op = "add" /\ call'.args = <<s, data>> /\ call'.ret = "success"
              /\ new = old (+) SetToBag({<<s, data>>})
  BY <1>3, <1>9 DEF Bag!BagNext
<1>10. CASE \E e \in DOMAIN old :
              /\ call'.op = "remove" /\ call'.args = <<e[1]>> /\ call'.ret = "success"
              /\ new = old (-) SetToBag({e})
  <2>1. PICK e \in DOMAIN old : Bag!BagRemove(e)
    BY <1>4, <1>10
  <2>2. e \in Bag!BagToSet(EntriesOf(map))
    BY <1>2, <2>1
  <2>3. QED
    BY <2>1, <2>2 DEF Bag!BagNext
<1>11. QED
  BY <1>5, <1>6, <1>7, <1>8, <1>9, <1>10 DEF new

LEMMA EntriesAre ==
  ASSUME NEW m, NEW e \in DOMAIN EntriesOf(m)
  PROVE  \E i \in 1 .. m.count : e = PairAt(m, i) /\ e[1] = m.keys[i].fd
<1>1. PICK i \in 1 .. m.count : e = PairAt(m, i)
  BY DEF EntriesOf
<1>2. QED
  BY <1>1 DEF PairAt

\* Each step of the pool is a step of the bag, or leaves it as it is.
LEMMA PoolStepsBag ==
  ASSUME ~ShrinkFails, PoolInv, Next
  PROVE  Bag!BagNext
<1> DEFINE old == EntriesOf(map)
           new == EntriesOf(map')
<1>1. MapOK(map) /\ map.count \in Nat /\ (~exists => map.count = 0)
      /\ \A i \in 1 .. map.count : map.keys[i].fd \in PoolSockets
  BY DEF PoolInv, MapOK, ListOK, PollFd
<1>2. CASE tcs_pool_create
  <2>1. CASE exists
    <3>1. map' = map /\ call'.op = "create"
      BY <1>2, <2>1, CalledFields DEF tcs_pool_create
    <3>2. QED
      BY <3>1, BagSteps
  <2>2. CASE ~exists
    <3>1. PICK r \in MapCreate :
            /\ Called("create", <<>>, IF r.sts = 0 THEN "success" ELSE "memory")
            /\ map' = r.map
      BY <1>2, <2>2 DEF tcs_pool_create
    <3>2. map'.count = 0 /\ map.count = 0
      BY <1>1, <2>2, <3>1, MapCreateFacts
    <3>3. new = old
      BY <3>2, NoEntries
    <3>4. call'.op = "create"
      BY <3>1, CalledFields
    <3> HIDE DEF new, old
    <3>5. QED
      BY <3>3, <3>4, BagSteps DEF new, old
  <2>3. QED
    BY <2>1, <2>2
<1>3. CASE tcs_pool_destory
  <2>1. map' = NoMap /\ Called("destroy", <<>>, IF exists THEN "success" ELSE "invalid_argument")
    BY <1>3 DEF tcs_pool_destory, MapDestroy
  <2>2. new = EmptyBag
    BY <2>1, NoMapOK, NoEntries
  <2>3. CASE exists
    <3>1. call'.op = "destroy" /\ call'.ret = "success"
      BY <2>1, <2>3, CalledFields
    <3>2. QED
      BY <2>2, <3>1, BagSteps
  <2>4. CASE ~exists
    <3>1. call'.op = "destroy" /\ call'.ret = "invalid_argument"
      BY <2>1, <2>4, CalledFields
    <3>2. old = EmptyBag
      BY <1>1, <2>4, NoEntries
    <3> HIDE DEF new, old
    <3>3. QED
      BY <2>2, <3>1, <3>2, BagSteps DEF new, old
  <2>5. QED
    BY <2>3, <2>4
<1>4. ASSUME NEW s, NEW data \in UserData, NEW i \in Interests,
             s \in PoolSockets \cup {NullSocket}, tcs_pool_add(s, data, i)
      PROVE  Bag!BagNext
  <2>1. CASE ~exists \/ s = NullSocket
    <3>1. Called("add", <<s, data>>, "invalid_argument") /\ map' = map
      BY <1>4, <2>1 DEF tcs_pool_add
    <3>2. call'.op = "add" /\ call'.ret = "invalid_argument"
      BY <3>1, CalledFields
    <3>3. QED
      BY <3>1, <3>2, BagSteps
  <2>2. CASE exists /\ s # NullSocket
    <3> DEFINE key == [fd |-> s, events |-> i, revents |-> {}]
    <3>1. key \in PollFd /\ key.fd = s /\ s \in PoolSockets
      BY <1>4, <2>2 DEF PollFd
    <3>2. PICK r \in MapAdd(map, key, data) :
            Called("add", <<s, data>>, IF r.sts = 0 THEN "success" ELSE "memory") /\ map' = r.map
      BY <1>4, <2>2 DEF tcs_pool_add
    <3> HIDE DEF key
    <3>3. /\ \A j \in 1 .. map.count : map'.keys[j] = map.keys[j] /\ map'.values[j] = map.values[j]
          /\ \/ /\ r.sts = 0 /\ map'.count = map.count + 1
                /\ map'.keys[map.count + 1] = key /\ map'.values[map.count + 1] = data
             \/ r.sts = -1 /\ map'.count = map.count
      BY <1>1, <1>4, <3>1, <3>2, MapAddFacts
    <3>4. \A j \in 1 .. map.count : PairAt(map', j) = PairAt(map, j)
      BY <3>3 DEF PairAt
    <3>5. CASE r.sts = -1 /\ map'.count = map.count
      <4>1. call'.op = "add" /\ call'.ret = "memory"
        BY <3>2, <3>5, CalledFields
      <4>2. new = old
        BY <3>4, <3>5, SameEntries
      <4> HIDE DEF new, old
      <4>3. QED
        BY <4>1, <4>2, BagSteps DEF new, old
    <3>6. CASE /\ r.sts = 0 /\ map'.count = map.count + 1
               /\ map'.keys[map.count + 1] = key /\ map'.values[map.count + 1] = data
      <4>1. new = old (+) SetToBag({PairAt(map', map'.count)})
        BY <1>1, <3>4, <3>6, MoreEntries
      <4>2. PairAt(map', map'.count) = <<s, data>>
        BY <3>1, <3>6 DEF PairAt
      <4>3. call'.op = "add" /\ call'.args = <<s, data>> /\ call'.ret = "success"
        BY <3>2, <3>6, CalledFields
      <4> HIDE DEF new, old
      <4>4. new = old (+) SetToBag({<<s, data>>})
        BY <4>1, <4>2
      <4>5. QED
        BY <1>4, <3>1, <4>3, <4>4, BagSteps DEF new, old
    <3>7. QED
      BY <3>3, <3>5, <3>6
  <2>3. QED
    BY <2>1, <2>2
<1>5. ASSUME NEW s, tcs_pool_remove(s) PROVE Bag!BagNext
  <2> DEFINE at == {i \in 1 .. map.count : map.keys[i].fd = s}
  <2>1. CASE ~exists \/ s = NullSocket \/ at = {}
    <3>1. Called("remove", <<s>>, "invalid_argument") /\ map' = map
      BY <1>5, <2>1 DEF tcs_pool_remove
    <3>2. call'.op = "remove" /\ call'.args = <<s>> /\ call'.ret = "invalid_argument"
      BY <3>1, CalledFields
    <3>3. \A i \in 1 .. map.count : map.keys[i].fd # s
      BY <1>1, <2>1, PoolAssumption
    <3>4. \A e \in DOMAIN old : call'.args # <<e[1]>>
      BY <3>2, <3>3, EntriesAre
    <3>5. new = old
      BY <3>1
    <3> HIDE DEF new, old
    <3>6. QED
      BY <3>2, <3>4, <3>5, BagSteps DEF new, old
  <2>2. CASE ~(~exists \/ s = NullSocket \/ at = {})
    <3>1. PICK i \in at : \E r \in MapRemove(map, i - 1) :
            Called("remove", <<s>>, IF r.sts = 0 THEN "success" ELSE "memory") /\ map' = r.map
      BY <1>5, <2>2 DEF tcs_pool_remove
    <3>2. PICK r \in MapRemove(map, i - 1) :
            Called("remove", <<s>>, IF r.sts = 0 THEN "success" ELSE "memory") /\ map' = r.map
      BY <3>1
    <3>3. i - 1 \in Nat /\ i - 1 < map.count /\ i \in 1 .. map.count /\ (i - 1) + 1 = i
          /\ map.keys[i].fd = s
      BY <1>1
    <3>4. /\ r.sts = 0 /\ map'.count = map.count - 1
          /\ \A j \in 1 .. map.count - 1 :
               LET k == IF j = (i - 1) + 1 THEN map.count ELSE j IN
               map'.keys[j] = map.keys[k] /\ map'.values[j] = map.values[k]
      BY <1>1, <3>2, <3>3, MapRemoveFacts
    <3>5. \A j \in 1 .. map.count - 1 :
            PairAt(map', j) = PairAt(map, IF j = i THEN map.count ELSE j)
      BY <3>3, <3>4 DEF PairAt
    <3> DEFINE e == PairAt(map, i)
    <3>6. e \in DOMAIN old /\ new = old (-) SetToBag({e})
      BY <1>1, <3>3, <3>4, <3>5, FewerEntries
    <3>7. call'.op = "remove" /\ call'.args = <<s>> /\ call'.ret = "success"
      BY <3>2, <3>4, CalledFields
    <3>8. e[1] = s
      BY <3>3 DEF PairAt
    <3> HIDE DEF new, old, e
    <3>9. call'.args = <<e[1]>>
      BY <3>7, <3>8
    <3>10. QED
      BY <3>6, <3>7, <3>9, BagSteps DEF new, old
  <2>3. QED
    BY <2>1, <2>2
<1>6. ASSUME NEW s \in PoolSockets, Change(s) PROVE Bag!BagNext
  <2>1. map' = map /\ call'.op = "none"
    BY <1>6, CalledFields DEF Change
  <2>2. QED
    BY <2>1, BagSteps
<1>7. ASSUME NEW size, NEW timeout, tcs_pool_poll(size, timeout) PROVE Bag!BagNext
  <2>1. call'.op = "poll"
    BY <1>7, CalledFields DEF tcs_pool_poll, PollFails, PollReturns
  <2>2. new = old
    <3>1. CASE PollReturns(size, ToInt(timeout))
      <4>1. /\ map'.count = map.count
            /\ \A i \in 1 .. map.count : map'.keys[i].fd = map.keys[i].fd /\ map'.values[i] = map.values[i]
        BY <3>1, PollMap
      <4>2. \A i \in 1 .. map.count : PairAt(map', i) = PairAt(map, i)
        BY <4>1 DEF PairAt
      <4>3. QED
        BY <4>1, <4>2, SameEntries
    <3>2. CASE ~PollReturns(size, ToInt(timeout))
      BY <1>7, <3>2 DEF tcs_pool_poll, PollFails
    <3>3. QED
      BY <3>1, <3>2
  <2> HIDE DEF new, old
  <2>3. QED
    BY <2>1, <2>2, BagSteps DEF new, old
<1> HIDE DEF new, old
<1>8. QED
  BY <1>2, <1>3, <1>4, <1>5, <1>6, <1>7 DEF Next

(* The pool is a bag of sockets with their data: whatever block grew,       *)
(* shrank or could not grow, and whichever entry the last one was moved     *)
(* over, an addition that succeeds adds the pair it was called with, a      *)
(* removal takes one pair of its own socket and is refused only for a       *)
(* socket without one, and a call that fails, or of another kind, leaves    *)
(* all pairs together as they were - for the same reallocs as above.        *)
THEOREM PoolIsABag == ASSUME ~ShrinkFails PROVE Spec => ImplementsBag
<1>1. Init => Bag!BagInit
  <2>1. Init => map.count = 0 /\ call.op = "none"
    BY NoMapOK DEF Init
  <2>2. QED
    BY <2>1, NoEntries DEF Bag!BagInit, Bag!EmptyBag, Bag!SetToBag, EmptyBag, SetToBag
<1>2. PoolInv /\ [Next]_vars => [Bag!BagNext]_<<EntriesOf(map), call>>
  <2>1. UNCHANGED vars => UNCHANGED <<EntriesOf(map), call>>
    BY DEF vars
  <2>2. QED
    BY <2>1, PoolStepsBag
<1>3. Init => PoolInv
  BY PoolStarts
<1>4. PoolInv /\ [Next]_vars => PoolInv'
  BY PoolSteps
<1>5. QED
  BY <1>1, <1>2, <1>3, <1>4, PTL DEF Spec, ImplementsBag, Bag!BagSpec

-----------------------------------------------------------------------------
(* Sockets                                                                   *)

SocketStates == {"closed", "fresh", "bound", "listening", "connected", "shut"}
Socket == [type : {"none", "tcp", "udp"}, state : SocketStates,
           port : Ports \cup {0}, waiting : 0 .. Backlog]

\* A handle that tcs_connect works on is not null.
TryingInv ==
  /\ trying \in [Handles -> [left : Seq({"here", "away"}), port : Ports \cup {0}]]
  /\ \A h \in Handles : ~Idle(h) => handle[h] # Null

IInv == HandlesOwn /\ TryingInv

USE DEF Null, Fds

LEMMA TypesOfSockets ==
  /\ Closed \in Socket
  /\ \A type \in {"tcp", "udp"} : Fresh(type) \in Socket
  /\ \A s \in Socket, st \in SocketStates : [s EXCEPT !.state = st] \in Socket
BY SocketsAssumption DEF Closed, Fresh, Socket, SocketStates, SocketsAssumption

LEMMA OpensKeeps ==
  ASSUME IInv, NEW h \in Handles, Idle(h), handle[h] = Null,
         NEW s \in Socket, s.state # "closed", Opens(h, s)
  PROVE  IInv'
<1>1. PICK f \in Lowest : /\ handle' = [handle EXCEPT ![h] = f]
                          /\ sock' = [sock EXCEPT ![f] = s]
                          /\ trying' = trying
  BY DEF Opens
<1>2. f \in Fds /\ sock[f] = Closed
  BY <1>1 DEF Lowest, Free
<1>3. sock[f].state = "closed" /\ \A g \in Handles : handle[g] # f
  BY <1>2 DEF Closed, IInv, HandlesOwn
<1>4. SocketsTypeOK'
  BY <1>1, <1>2 DEF IInv, HandlesOwn, SocketsTypeOK, Socket, SocketStates
<1>5. \A g \in Handles : handle'[g] = IF g = h THEN f ELSE handle[g]
  BY <1>1 DEF IInv, HandlesOwn, SocketsTypeOK
<1>6. \A g \in Fds : sock'[g] = IF g = f THEN s ELSE sock[g]
  BY <1>1 DEF IInv, HandlesOwn, SocketsTypeOK
<1>7. HandlesOwn'
  <2>1. \A g \in Handles : handle'[g] # Null => sock'[handle'[g]].state # "closed"
    BY <1>2, <1>3, <1>5, <1>6 DEF IInv, HandlesOwn, SocketsTypeOK
  <2>2. \A g, k \in Handles : g # k /\ handle'[g] # Null => handle'[g] # handle'[k]
    BY <1>2, <1>3, <1>5 DEF IInv, HandlesOwn, SocketsTypeOK
  <2>3. ASSUME NEW g \in Fds, sock'[g].state # "closed"
        PROVE  \E k \in Handles : handle'[k] = g
    <3>1. CASE g = f
      BY <3>1, <1>5
    <3>2. CASE g # f
      <4>1. PICK k \in Handles : handle[k] = g
        BY <2>3, <3>2, <1>6 DEF IInv, HandlesOwn
      <4>2. k # h
        BY <4>1, <2>3
      <4> QED BY <4>1, <4>2, <1>5
    <3> QED BY <3>1, <3>2
  <2> QED BY <1>4, <2>1, <2>2, <2>3 DEF HandlesOwn
<1>8. TryingInv'
  BY <1>1, <1>2, <1>5 DEF IInv, TryingInv, Idle, NotTrying
<1> QED BY <1>7, <1>8 DEF IInv

\* The kernel's sockets change; none is closed, none is opened, and no handle
\* is touched.
LEMMA StatesKeep ==
  ASSUME IInv, NEW T \in [Handles -> [left : Seq({"here", "away"}), port : Ports \cup {0}]],
         handle' = handle, trying' = T,
         sock' \in [Fds -> Socket],
         \A f \in Fds : sock'[f].state = "closed" <=> sock[f].state = "closed",
         \A h \in Handles : T[h] # NotTrying => handle[h] # Null
  PROVE  IInv'
<1>1. SocketsTypeOK'
  BY DEF IInv, HandlesOwn, SocketsTypeOK, Socket, SocketStates
<1>2. HandlesOwn'
  BY <1>1 DEF IInv, HandlesOwn, SocketsTypeOK
<1>3. TryingInv'
  BY DEF IInv, TryingInv, Idle, NotTrying
<1> QED BY <1>2, <1>3 DEF IInv

LEMMA FailsKeeps ==
  ASSUME IInv, UNCHANGED <<handle, sock, trying>>
  PROVE  IInv'
BY DEF IInv, HandlesOwn, SocketsTypeOK, TryingInv, Idle, NotTrying

LEMMA BecomesKeeps ==
  ASSUME IInv, NEW h \in Handles, handle[h] # Null, NEW s \in Socket,
         s.state # "closed", Becomes(h, s)
  PROVE  IInv'
<1>1. handle[h] \in Fds /\ sock[handle[h]].state # "closed"
  BY DEF IInv, HandlesOwn, SocketsTypeOK
<1>2. sock' = [sock EXCEPT ![handle[h]] = s] /\ handle' = handle /\ trying' = trying
  BY DEF Becomes
<1>3. sock \in [Fds -> Socket]
  BY DEF IInv, HandlesOwn, SocketsTypeOK, Socket, SocketStates
<1>4. sock' \in [Fds -> Socket]
  BY <1>1, <1>2, <1>3
<1>5. \A f \in Fds : sock'[f].state = "closed" <=> sock[f].state = "closed"
  BY <1>1, <1>2, <1>3
<1> QED BY <1>2, <1>4, <1>5, StatesKeep DEF IInv, TryingInv, Idle

LEMMA OfHandle ==
  ASSUME IInv, NEW h \in Handles, handle[h] # Null
  PROVE  handle[h] \in Fds /\ Of(h) \in Socket /\ Of(h).state # "closed"
BY DEF IInv, HandlesOwn, SocketsTypeOK, Of, Socket, SocketStates

-----------------------------------------------------------------------------
(* The calls                                                                 *)

LEMMA InitKeeps == SocketsInit => IInv
BY SocketsAssumption
   DEF SocketsInit, IInv, HandlesOwn, SocketsTypeOK, TryingInv, Idle, NotTrying,
       Closed, SocketsAssumption

LEMMA CreateKeeps ==
  ASSUME IInv, NEW h \in Handles, NEW type \in {"tcp", "udp"}, tcs_create(h, type)
  PROVE  IInv'
<1>1. CASE handle[h] = Null /\ Free # {}
  <2>1. Fresh(type) \in Socket /\ Fresh(type).state # "closed"
    BY TypesOfSockets DEF Fresh
  <2> QED BY <1>1, <2>1, OpensKeeps DEF tcs_create
<1>2. CASE handle[h] # Null \/ Free = {}
  <2>1. UNCHANGED <<handle, sock, trying>>
    BY <1>2 DEF tcs_create, Fails
  <2> QED BY <2>1, FailsKeeps
<1> QED BY <1>1, <1>2

LEMMA BindKeeps ==
  ASSUME IInv, NEW h \in Handles, NEW port \in Ports \cup {0}, tcs_bind(h, port)
  PROVE  IInv'
<1>1. CASE UNCHANGED <<handle, sock, trying>>
  BY <1>1, FailsKeeps
<1>2. CASE handle[h] # Null
           /\ Becomes(h, [Of(h) EXCEPT !.state = "bound", !.port = port])
  <2>1. [Of(h) EXCEPT !.state = "bound", !.port = port] \in Socket
    BY <1>2, OfHandle DEF Socket, SocketStates
  <2>2. [Of(h) EXCEPT !.state = "bound", !.port = port].state # "closed"
    BY <1>2, OfHandle DEF Socket
  <2> QED BY <1>2, <2>1, <2>2, BecomesKeeps
<1> QED BY <1>1, <1>2 DEF tcs_bind, Fails

LEMMA ListenKeeps ==
  ASSUME IInv, NEW h \in Handles, tcs_listen(h)
  PROVE  IInv'
<1>1. CASE UNCHANGED <<handle, sock, trying>>
  BY <1>1, FailsKeeps
<1>2. CASE handle[h] # Null /\ Becomes(h, [Of(h) EXCEPT !.state = "listening"])
  <2>1. [Of(h) EXCEPT !.state = "listening"] \in Socket
    BY <1>2, OfHandle DEF Socket, SocketStates
  <2>2. [Of(h) EXCEPT !.state = "listening"].state # "closed"
    BY <1>2, OfHandle DEF Socket
  <2> QED BY <1>2, <2>1, <2>2, BecomesKeeps
<1> QED BY <1>1, <1>2 DEF tcs_listen, Fails

LEMMA ListenToKeeps ==
  ASSUME IInv, NEW h \in Handles, NEW port \in Ports \cup {0}, tcs_listen_to(h, port)
  PROVE  IInv'
<1> DEFINE bound == [Of(h) EXCEPT !.state = "bound", !.port = port]
<1>1. CASE UNCHANGED <<handle, sock, trying>>
  BY <1>1, FailsKeeps
<1>2. CASE handle[h] # Null /\ Becomes(h, [bound EXCEPT !.state = "listening"])
  <2>1. [bound EXCEPT !.state = "listening"] \in Socket
    BY <1>2, OfHandle DEF Socket, SocketStates
  <2>2. [bound EXCEPT !.state = "listening"].state # "closed"
    BY <1>2, OfHandle DEF Socket
  <2> QED BY <1>2, <2>1, <2>2, BecomesKeeps
<1>3. CASE handle[h] # Null /\ sock' = [sock EXCEPT ![handle[h]] = bound]
           /\ UNCHANGED <<handle, trying>>
  <2>1. bound \in Socket /\ bound.state # "closed"
    BY <1>3, OfHandle DEF Socket, SocketStates
  <2>2. sock' \in [Fds -> Socket]
        /\ \A f \in Fds : sock'[f].state = "closed" <=> sock[f].state = "closed"
    BY <1>3, <2>1, OfHandle DEF IInv, HandlesOwn, SocketsTypeOK, Socket, SocketStates
  <2> QED BY <1>3, <2>2, StatesKeep DEF IInv, TryingInv, Idle
<1> QED BY <1>1, <1>2, <1>3 DEF tcs_listen_to, Fails

LEMMA AcceptKeeps ==
  ASSUME IInv, NEW h \in Handles, NEW child \in Handles, tcs_accept(h, child)
  PROVE  IInv'
<1>1. CASE UNCHANGED <<handle, sock, trying>>
  BY <1>1, FailsKeeps
<1> DEFINE accepted == [Fresh("tcp") EXCEPT !.state = "connected", !.port = Of(h).port]
           before == [sock EXCEPT ![handle[h]].waiting = @ - 1]
<1>2. CASE /\ handle[h] # Null /\ handle[child] = Null
           /\ Of(h).waiting > 0
           /\ \E f \in Lowest :
                /\ handle' = [handle EXCEPT ![child] = f]
                /\ sock' = [before EXCEPT ![f] = accepted]
                /\ UNCHANGED trying
  <2>1. PICK f \in Lowest : /\ handle' = [handle EXCEPT ![child] = f]
                            /\ sock' = [before EXCEPT ![f] = accepted]
                            /\ trying' = trying
    BY <1>2
  <2>2. f \in Fds /\ sock[f] = Closed /\ handle[h] \in Fds /\ Of(h) \in Socket
    BY <1>2, OfHandle DEF Lowest, Free
  <2>3. \A g \in Handles : handle[g] # f
    BY <2>2 DEF Closed, IInv, HandlesOwn
  <2>4. accepted \in Socket /\ accepted.state = "connected"
    <3>1. Of(h).port \in Ports \cup {0}
      BY <2>2 DEF Socket
    <3>2. Fresh("tcp") \in Socket
      BY TypesOfSockets
    <3> QED BY <3>1, <3>2 DEF Socket, SocketStates
  <2>5. sock \in [Fds -> Socket]
    BY DEF IInv, HandlesOwn, SocketsTypeOK, Socket, SocketStates
  <2>6. /\ before \in [Fds -> Socket]
        /\ \A g \in Fds : before[g].state = sock[g].state
    <3>1. Of(h).waiting - 1 \in 0 .. Backlog
      BY <1>2, <2>2, SocketsAssumption DEF Socket, SocketsAssumption
    <3>2. [Of(h) EXCEPT !.waiting = @ - 1] \in Socket
      BY <2>2, <3>1 DEF Socket
    <3>3. before = [sock EXCEPT ![handle[h]] = [Of(h) EXCEPT !.waiting = @ - 1]]
      BY <2>2, <2>5 DEF Of
    <3>4. [Of(h) EXCEPT !.waiting = @ - 1].state = Of(h).state
      BY <2>2 DEF Socket
    <3> QED BY <2>2, <2>5, <3>2, <3>3, <3>4 DEF Of
  <2>7. /\ sock' \in [Fds -> Socket]
        /\ \A g \in Fds : sock'[g].state = IF g = f THEN "connected" ELSE sock[g].state
    BY <2>1, <2>2, <2>4, <2>6
  <2>8. \A g \in Handles : handle'[g] = IF g = child THEN f ELSE handle[g]
    BY <2>1 DEF IInv, HandlesOwn, SocketsTypeOK
  <2>9. SocketsTypeOK'
    BY <2>1, <2>2, <2>7 DEF IInv, HandlesOwn, SocketsTypeOK, Socket, SocketStates
  <2>10. \A g \in Handles : handle'[g] # Null => sock'[handle'[g]].state # "closed"
    BY <2>2, <2>3, <2>7, <2>8 DEF IInv, HandlesOwn, SocketsTypeOK
  <2>11. \A g, k \in Handles : g # k /\ handle'[g] # Null => handle'[g] # handle'[k]
    BY <2>2, <2>3, <2>8 DEF IInv, HandlesOwn, SocketsTypeOK
  <2>12. ASSUME NEW g \in Fds, sock'[g].state # "closed"
         PROVE  \E k \in Handles : handle'[k] = g
    <3>1. CASE g = f
      BY <3>1, <2>8
    <3>2. CASE g # f
      <4>1. PICK k \in Handles : handle[k] = g
        BY <2>12, <3>2, <2>7 DEF IInv, HandlesOwn
      <4>2. k # child
        BY <4>1, <1>2, <2>12
      <4> QED BY <4>1, <4>2, <2>8
    <3> QED BY <3>1, <3>2
  <2>13. TryingInv'
    BY <2>1, <2>2, <2>8 DEF IInv, TryingInv, Idle, NotTrying
  <2> QED BY <2>9, <2>10, <2>11, <2>12, <2>13 DEF IInv, HandlesOwn
<1> QED
  <2> HIDE DEF accepted
  <2>1. before = [sock EXCEPT ![handle[h]].waiting = @ - 1] /\ accepted = accepted
    OBVIOUS
  <2> QED BY <1>1, <1>2 DEF tcs_accept, Fails, accepted

LEMMA ConnectBeginKeeps ==
  ASSUME IInv, NEW h \in Handles, NEW port \in Ports, ConnectBegin(h, port)
  PROVE  IInv'
<1>1. CASE UNCHANGED <<handle, sock, trying>>
  BY <1>1, FailsKeeps
<1>2. CASE /\ handle[h] # Null
           /\ \E found \in Lookups \ {<<>>} :
                /\ trying' = [trying EXCEPT ![h] = [left |-> found, port |-> port]]
                /\ UNCHANGED <<handle, sock, returned>>
  <2>1. PICK found \in Lookups :
          trying' = [trying EXCEPT ![h] = [left |-> found, port |-> port]]
    BY <1>2
  <2>2. found \in Seq({"here", "away"})
    BY SocketsAssumption DEF SocketsAssumption
  <2>3. trying' \in [Handles -> [left : Seq({"here", "away"}), port : Ports \cup {0}]]
    BY <2>1, <2>2 DEF IInv, TryingInv
  <2>4. \A k \in Handles : trying'[k] # NotTrying => handle[k] # Null
    BY <1>2, <2>1 DEF IInv, TryingInv, Idle
  <2>5. sock' \in [Fds -> Socket] /\ sock' = sock
    BY <1>2 DEF IInv, HandlesOwn, SocketsTypeOK, Socket, SocketStates
  <2> QED BY <1>2, <2>3, <2>4, <2>5, StatesKeep
<1> QED BY <1>1, <1>2 DEF ConnectBegin, Fails

LEMMA ConnectNextKeeps ==
  ASSUME IInv, NEW h \in Handles, ConnectNext(h)
  PROVE  IInv'
<1> DEFINE connected == [sock EXCEPT ![handle[h]].state = "connected"]
           rest == Tail(trying[h].left)
<1>1. ~Idle(h) /\ handle[h] # Null /\ handle' = handle
  BY DEF ConnectNext, IInv, TryingInv
<1>2. handle[h] \in Fds /\ sock[handle[h]].state # "closed"
  BY <1>1, OfHandle DEF Of
<1>3. sock \in [Fds -> Socket]
  BY DEF IInv, HandlesOwn, SocketsTypeOK, Socket, SocketStates
<1>4. /\ connected \in [Fds -> Socket]
      /\ \A f \in Fds : /\ connected[f].state = "closed" <=> sock[f].state = "closed"
                        /\ connected[f].waiting = sock[f].waiting
  BY <1>2, <1>3 DEF Socket, SocketStates
<1>5. trying \in [Handles -> [left : Seq({"here", "away"}), port : Ports \cup {0}]]
  BY DEF IInv, TryingInv
<1>6. /\ sock' \in [Fds -> Socket]
      /\ \A f \in Fds : sock'[f].state = "closed" <=> sock[f].state = "closed"
  <2> HIDE DEF connected
  <2>1. CASE sock' = sock
    BY <2>1, <1>3
  <2>2. CASE sock' = connected
    BY <2>2, <1>4
  <2>3. ASSUME NEW f \in Fds, sock[f].waiting < Backlog,
               sock' = [connected EXCEPT ![f].waiting = @ + 1]
        PROVE  /\ sock' \in [Fds -> Socket]
               /\ \A g \in Fds : sock'[g].state = "closed" <=> sock[g].state = "closed"
    <3> DEFINE s == connected[f]
    <3>1. s \in Socket /\ s.waiting + 1 \in 0 .. Backlog
      BY <2>3, <1>4, SocketsAssumption DEF Socket, SocketsAssumption
    <3>2. sock' = [connected EXCEPT ![f] = [s EXCEPT !.waiting = s.waiting + 1]]
      BY <2>3, <1>4
    <3> HIDE DEF s
    <3>3. /\ [s EXCEPT !.waiting = s.waiting + 1] \in Socket
          /\ [s EXCEPT !.waiting = s.waiting + 1].state = s.state
      BY <3>1 DEF Socket
    <3> QED BY <3>2, <3>3, <1>4 DEF s
  <2>4. \/ sock' = sock \/ sock' = connected
        \/ \E f \in Fds : /\ sock[f].waiting < Backlog
                         /\ sock' = [connected EXCEPT ![f].waiting = @ + 1]
    BY DEF ConnectNext, Listeners, connected
  <2> QED BY <2>1, <2>2, <2>3, <2>4
<1>7. /\ trying' \in [Handles -> [left : Seq({"here", "away"}), port : Ports \cup {0}]]
      /\ \A k \in Handles \ {h} : trying'[k] = trying[k]
  <2>1. CASE trying' = [trying EXCEPT ![h] = NotTrying]
    BY <2>1, <1>5 DEF NotTrying
  <2>2. CASE /\ rest # <<>>
             /\ trying' = [trying EXCEPT ![h] = [@ EXCEPT !.left = rest]]
    <3>1. trying[h].left \in Seq({"here", "away"}) /\ trying[h].port \in Ports \cup {0}
      BY <1>5
    <3>2. rest \in Seq({"here", "away"})
      BY <3>1, <2>2
    <3> HIDE DEF rest
    <3> QED BY <1>5, <2>2, <3>2
  <2> QED BY <2>1, <2>2 DEF ConnectNext
<1>8. \A k \in Handles : trying'[k] # NotTrying => handle[k] # Null
  BY <1>1, <1>7 DEF IInv, TryingInv, Idle
<1> QED BY <1>1, <1>6, <1>7, <1>8, StatesKeep

LEMMA ShutdownKeeps ==
  ASSUME IInv, NEW h \in Handles, tcs_shutdown(h)
  PROVE  IInv'
<1>1. CASE UNCHANGED <<handle, sock, trying>>
  BY <1>1, FailsKeeps
<1>2. CASE handle[h] # Null /\ Becomes(h, [Of(h) EXCEPT !.state = "shut"])
  <2>1. /\ [Of(h) EXCEPT !.state = "shut"] \in Socket
        /\ [Of(h) EXCEPT !.state = "shut"].state # "closed"
    BY <1>2, OfHandle DEF Socket, SocketStates
  <2> QED BY <1>2, <2>1, BecomesKeeps
<1>3. CASE handle[h] # Null
           /\ Becomes(h, [Of(h) EXCEPT !.state = "bound", !.waiting = 0])
  <2>1. /\ [Of(h) EXCEPT !.state = "bound", !.waiting = 0] \in Socket
        /\ [Of(h) EXCEPT !.state = "bound", !.waiting = 0].state # "closed"
    <3>1. Of(h) \in Socket /\ 0 \in 0 .. Backlog
      BY <1>3, OfHandle, SocketsAssumption DEF SocketsAssumption
    <3> DEFINE s == Of(h)
    <3>2. s \in Socket
      BY <3>1
    <3> HIDE DEF s
    <3>3. /\ [s EXCEPT !.state = "bound", !.waiting = 0] \in Socket
          /\ [s EXCEPT !.state = "bound", !.waiting = 0].state = "bound"
      BY <3>1, <3>2 DEF Socket, SocketStates
    <3> QED BY <3>3 DEF s
  <2> QED BY <1>3, <2>1, BecomesKeeps
<1> QED BY <1>1, <1>2, <1>3 DEF tcs_shutdown, Fails

LEMMA DestroyKeeps ==
  ASSUME IInv, NEW h \in Handles, tcs_destroy(h)
  PROVE  IInv'
<1>1. CASE UNCHANGED <<handle, sock, trying>>
  BY <1>1, FailsKeeps
<1>2. CASE /\ Idle(h) /\ handle[h] # Null
           /\ sock' = [sock EXCEPT ![handle[h]] = Closed]
           /\ handle' = [handle EXCEPT ![h] = Null]
           /\ UNCHANGED trying
  <2>1. handle[h] \in Fds /\ \A g \in Handles : g # h => handle[g] # handle[h]
    BY <1>2, OfHandle DEF IInv, HandlesOwn
  <2>2. \A g \in Handles : handle'[g] = IF g = h THEN Null ELSE handle[g]
    BY <1>2 DEF IInv, HandlesOwn, SocketsTypeOK
  <2>3. \A f \in Fds : sock'[f] = IF f = handle[h] THEN Closed ELSE sock[f]
    BY <1>2 DEF IInv, HandlesOwn, SocketsTypeOK
  <2>4. SocketsTypeOK'
    <3>1. Closed \in Socket /\ sock \in [Fds -> Socket]
      BY TypesOfSockets DEF IInv, HandlesOwn, SocketsTypeOK, Socket, SocketStates
    <3>2. sock' \in [Fds -> Socket]
      BY <1>2, <3>1
    <3>3. handle' \in [Handles -> Fds \cup {Null}]
      BY <1>2 DEF IInv, HandlesOwn, SocketsTypeOK
    <3>4. \A k \in Handles : trying'[k].port \in Ports \cup {0}
      BY <1>2 DEF IInv, HandlesOwn, SocketsTypeOK
    <3>5. QED
      BY <3>2, <3>3, <3>4 DEF SocketsTypeOK, Socket, SocketStates
  <2>5. \A g \in Handles : handle'[g] # Null => sock'[handle'[g]].state # "closed"
    BY <2>1, <2>2, <2>3 DEF IInv, HandlesOwn, SocketsTypeOK
  <2>6. \A g, k \in Handles : g # k /\ handle'[g] # Null => handle'[g] # handle'[k]
    BY <2>2 DEF IInv, HandlesOwn
  <2>7. \A f \in Fds : sock'[f].state # "closed" => \E k \in Handles : handle'[k] = f
    BY <2>1, <2>2, <2>3 DEF IInv, HandlesOwn, Closed
  <2>8. TryingInv'
    BY <1>2, <2>2 DEF IInv, TryingInv, Idle, NotTrying
  <2> QED BY <2>4, <2>5, <2>6, <2>7, <2>8 DEF IInv, HandlesOwn
<1> QED BY <1>1, <1>2 DEF tcs_destroy, Fails

LEMMA NextKeeps == IInv /\ [SocketsNext]_socketVars => IInv'
<1> SUFFICES ASSUME IInv, [SocketsNext]_socketVars PROVE IInv'
  OBVIOUS
<1>1. CASE UNCHANGED socketVars
  BY <1>1, FailsKeeps DEF socketVars
<1>2. ASSUME NEW h \in Handles, NEW type \in {"tcp", "udp"}, tcs_create(h, type)
      PROVE  IInv'
  BY <1>2, CreateKeeps
<1>3. ASSUME NEW h \in Handles, NEW port \in Ports \cup {0},
             tcs_bind(h, port) \/ tcs_listen_to(h, port)
      PROVE  IInv'
  BY <1>3, BindKeeps, ListenToKeeps
<1>4. ASSUME NEW h \in Handles, tcs_listen(h) PROVE IInv'
  BY <1>4, ListenKeeps
<1>5. ASSUME NEW h \in Handles, NEW child \in Handles \ {h}, tcs_accept(h, child)
      PROVE  IInv'
  BY <1>5, AcceptKeeps
<1>6. ASSUME NEW h \in Handles, NEW port \in Ports, ConnectBegin(h, port)
      PROVE  IInv'
  BY <1>6, ConnectBeginKeeps
<1>7. ASSUME NEW h \in Handles, ConnectNext(h) PROVE IInv'
  BY <1>7, ConnectNextKeeps
<1>8. ASSUME NEW h \in Handles, tcs_shutdown(h) PROVE IInv'
  BY <1>8, ShutdownKeeps
<1>9. ASSUME NEW h \in Handles, tcs_destroy(h) PROVE IInv'
  BY <1>9, DestroyKeeps
<1> QED
  BY <1>1, <1>2, <1>3, <1>4, <1>5, <1>6, <1>7, <1>8, <1>9 DEF SocketsNext

(***************************************************************************)
(* No sequence of calls, failing ones included, makes two handles of one   *)
(* descriptor, leaves a handle on a closed descriptor or an open           *)
(* descriptor without a handle.                                            *)
(***************************************************************************)
THEOREM Ownership == SocketsSpec => []HandlesOwn
<1>1. IInv => HandlesOwn
  BY DEF IInv
<1> QED BY <1>1, InitKeeps, NextKeeps, PTL DEF SocketsSpec
=============================================================================
