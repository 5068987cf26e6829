------------------------------ MODULE Netstring ------------------------------
(***************************************************************************)
(* tcs_send_netstring and tcs_receive_netstring of tinycsocket.h at the    *)
(* two ends of a connection.  A message is its length in digits, a colon,  *)
(* its bytes and a comma; the sender gives the three parts to tcs_send one *)
(* after the other, the receiver reads the header byte by byte.            *)
(*                                                                         *)
(* A digit is its value; Colon, Comma and Other are the rest.              *)
(***************************************************************************)
EXTENDS Naturals, Sequences

CONSTANTS
  Payloads,      \* what the caller sends: sequences of bytes, of length < 100
  MaxMessages,   \* bound on the calls of tcs_send_netstring
  MaxHeader,     \* max_header, 21 in the code
  BufferLength   \* of the receiver's buffer

Colon == 10
Comma == 11
Other == 12
Digit == 0 .. 9
Byte  == Digit \cup {Colon, Comma, Other}

ASSUME NetstringAssumption ==
  /\ \A p \in Payloads : p \in Seq(Byte) /\ Len(p) < 100
  /\ MaxMessages \in Nat /\ MaxHeader \in Nat \ 0 .. 2 /\ BufferLength \in Nat \ {0}

VARIABLES
  sent,          \* the payloads of the calls of tcs_send_netstring
  parts,         \* what the running call has still to give to tcs_send
  wire,          \* the bytes that have come through the connection
  cut,           \* the connection is lost
  consumed,         \* how many of these bytes the receiver has read
  reader,        \* the running call of tcs_receive_netstring
  received,      \* the payloads of its successful calls
  exact          \* every message so far is shorter than 10 bytes, no read has
                 \* timed out inside a message, and every one fitted the buffer

netVars == <<sent, parts, wire, cut, consumed, reader, received, exact>>

NoRead == [at |-> "idle", parsed |-> 0, expected |-> 0, payload |-> <<>>, sts |-> "none"]

NetInit ==
  /\ sent = <<>> /\ parts = <<>> /\ wire = <<>> /\ cut = FALSE
  /\ consumed = 0 /\ reader = NoRead /\ received = <<>> /\ exact = TRUE

\* snprintf of the length, and the colon.
Header(n) == (IF n < 10 THEN <<n>> ELSE <<n \div 10, n % 10>>) \o <<Colon>>

tcs_send_netstring ==
  /\ parts = <<>> /\ ~cut /\ Len(sent) < MaxMessages
  /\ \E p \in Payloads \ {<<>>} :
       /\ sent' = Append(sent, p)
       /\ parts' = <<Header(Len(p)), p, <<Comma>>>>
       /\ exact' = (exact /\ Len(p) < 10)
  /\ UNCHANGED <<wire, cut, consumed, reader, received>>

\* One tcs_send with TCS_MSG_SENDALL: all of the part gets through, or the
\* connection is lost on the way and the call returns.
SendPart ==
  /\ parts # <<>>
  /\ LET part == Head(parts) IN
     \/ /\ wire' = wire \o part
        /\ parts' = Tail(parts)
        /\ UNCHANGED cut
     \/ \E n \in 0 .. Len(part) - 1 :
          /\ wire' = wire \o SubSeq(part, 1, n)
          /\ parts' = <<>>
          /\ cut' = TRUE
  /\ UNCHANGED <<sent, consumed, reader, received, exact>>

-----------------------------------------------------------------------------
ReaderReturns(sts) == reader' = [NoRead EXCEPT !.sts = sts]

ReadBegin ==
  /\ reader.at = "idle"
  /\ reader' = [NoRead EXCEPT !.at = "header"]
  /\ UNCHANGED <<sent, parts, wire, cut, consumed, received, exact>>

There == Len(wire) - consumed

\* Nothing to read: the connection has ended, or the socket's timeout passes.
NothingComes ==
  /\ There = 0
  /\ \/ cut /\ ReaderReturns("not_connected") /\ UNCHANGED exact
     \/ ~cut /\ ReaderReturns("timed_out") /\ exact' = (exact /\ reader.at = "header" /\ reader.parsed = 0)
  /\ UNCHANGED <<consumed, received>>

\* What follows once the header has been read.
AfterHeader(read) ==
  IF read.parsed >= MaxHeader THEN ReaderReturns("ill_formed") /\ UNCHANGED exact
  ELSE IF BufferLength < read.expected THEN ReaderReturns("memory") /\ exact' = FALSE
  ELSE reader' = [read EXCEPT !.at = "payload"] /\ UNCHANGED exact

\* One byte of the header.  The digits are added up: "12" stands for 3.
HeaderByte ==
  LET t == wire[consumed + 1]
      read == [reader EXCEPT !.parsed = @ + 1]
  IN
  /\ There > 0
  /\ consumed' = consumed + 1
  /\ CASE t \in {Comma, Other} -> ReaderReturns("ill_formed") /\ UNCHANGED exact
       [] t = Colon -> AfterHeader(read)
       [] OTHER -> LET more == [read EXCEPT !.expected = @ + t] IN
                   /\ IF more.parsed < MaxHeader THEN reader' = more
                                                 ELSE ReaderReturns("ill_formed")
                   /\ UNCHANGED exact
  /\ UNCHANGED received

ReadHeader ==
  /\ reader.at = "header"
  /\ HeaderByte \/ NothingComes
  /\ UNCHANGED <<sent, parts, wire, cut>>

\* The call has n of the bytes it asked for, and success from tcs_receive.
PayloadRead(n) ==
  /\ consumed' = consumed + n
  /\ reader' = [reader EXCEPT !.at = "comma", !.payload = SubSeq(wire, consumed + 1, consumed + n)]
  /\ UNCHANGED received

\* Bug: the payload is read without TCS_MSG_WAITALL.
ReadPayloadSome ==
  /\ reader.at = "payload"
  /\ \/ \E n \in 1 .. reader.expected : n <= There /\ PayloadRead(n) /\ UNCHANGED exact
     \/ NothingComes
  /\ UNCHANGED <<sent, parts, wire, cut>>

\* recv() with MSG_WAITALL: all of it; or less, when the connection ends or the
\* timeout passes first, which is success all the same.  Of an empty payload it
\* reads 0 bytes, which tcs_receive takes for the end of the stream.
ReadPayload ==
  LET n == reader.expected IN
  /\ reader.at = "payload"
  /\ CASE n = 0 -> /\ ReaderReturns("not_connected")
                   /\ UNCHANGED <<consumed, received, exact>>
       [] n > 0 /\ n <= There -> PayloadRead(n) /\ UNCHANGED exact
       [] n > 0 /\ n > There /\ There > 0 -> PayloadRead(There) /\ exact' = (exact /\ cut)
       [] OTHER -> NothingComes
  /\ UNCHANGED <<sent, parts, wire, cut>>

ReadComma ==
  /\ reader.at = "comma"
  /\ \/ /\ There > 0
        /\ consumed' = consumed + 1
        /\ IF wire[consumed + 1] = Comma
             THEN /\ ReaderReturns("success")
                  /\ received' = Append(received, reader.payload)
             ELSE ReaderReturns("ill_formed") /\ UNCHANGED received
        /\ UNCHANGED exact
     \/ NothingComes
  /\ UNCHANGED <<sent, parts, wire, cut>>

NetNext ==
  tcs_send_netstring \/ SendPart \/ ReadBegin \/ ReadHeader \/ ReadPayload \/ ReadComma

NetSpec == NetInit /\ [][NetNext]_netVars

-----------------------------------------------------------------------------
(***************************************************************************)
(* Up to the first message of ten bytes or more, or too long for the       *)
(* buffer, or cut by a timeout: whatever bytes the payloads hold, commas   *)
(* and digits included, and wherever the connection is lost, the receiver  *)
(* gets the messages whole and in order and calls nothing ill-formed, and  *)
(* between two calls it stands at the start of a message.                  *)
(***************************************************************************)
NetstringsExact ==
  exact =>
    /\ Len(received) <= Len(sent) /\ received = SubSeq(sent, 1, Len(received))
    /\ reader.sts # "ill_formed"
=============================================================================
