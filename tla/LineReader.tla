----------------------------- MODULE LineReader -----------------------------
(***************************************************************************)
(* tcs_receive_line of tinycsocket.h: reads up to and including a          *)
(* delimiter and leaves what follows in the socket.  It peeks at what has  *)
(* arrived, searches it, and then reads what it has searched; bytes go on  *)
(* arriving between these system calls.                                    *)
(*                                                                         *)
(* A byte is the delimiter or another letter.  The branch for a peek that  *)
(* succeeds with nothing (lines 3721-3737) is not there: recv() returns 0  *)
(* only at the end of the stream, and tcs_receive makes an error of it.    *)
(***************************************************************************)
EXTENDS Naturals, Sequences

CONSTANTS
  Delimiter,     \* the byte to stop at
  Letters,       \* the other bytes
  MaxStream,     \* bound on the bytes the peer sends
  BufferSizes    \* sizes of the buffers a caller passes

ASSUME LineAssumption ==
  /\ Delimiter \notin Letters
  /\ MaxStream \in Nat
  /\ BufferSizes \subseteq Nat

VARIABLES
  stream,        \* the bytes that have arrived on the connection
  eof,         \* no more will arrive: the peer has closed, or the connection is lost
  taken,         \* how many of them have been read from the socket
  line,          \* the call: step, size, buffer, bytes_read, bytes_peeked, bytes_searched
  handed,        \* all bytes handed to the caller by calls that have returned
  result         \* how the last call returned, and its bytes

lineVars == <<stream, eof, taken, line, handed, result>>

NoCall == [at |-> "idle", size |-> 0, buffer |-> <<>>, read |-> 0, peeked |-> 0,
           searched |-> 0, found |-> FALSE]

LineInit ==
  /\ stream = <<>> /\ eof = FALSE /\ taken = 0
  /\ line = NoCall
  /\ handed = <<>>
  /\ result = [sts |-> "none", data |-> <<>>, size |-> 0]

ByteArrives ==
  /\ ~eof /\ Len(stream) < MaxStream
  /\ \E b \in Letters \cup {Delimiter} : stream' = Append(stream, b)
  /\ UNCHANGED <<eof, taken, line, handed, result>>

StreamEnds ==
  /\ ~eof
  /\ eof' = TRUE
  /\ UNCHANGED <<stream, taken, line, handed, result>>

\* The call returns with the bytes it has read so far.
LineReturns(sts, call) ==
  LET data == SubSeq(call.buffer, 1, call.read) IN
  /\ line' = NoCall
  /\ handed' = handed \o data
  /\ result' = [sts |-> sts, data |-> data, size |-> call.size]

LineCall ==
  /\ line.at = "idle"
  /\ \E size \in BufferSizes :
       IF size = 0
         THEN LineReturns("invalid_argument", NoCall)
         ELSE /\ line' = [NoCall EXCEPT !.at = "peek", !.size = size]
              /\ UNCHANGED <<handed, result>>
  /\ UNCHANGED <<stream, eof, taken>>

\* The first n unread bytes in the buffer, behind those that have been read.
Copied(call, n) ==
  [call EXCEPT !.buffer = SubSeq(@, 1, call.read) \o SubSeq(stream, taken + 1, taken + n)]

\* Where the search stops: behind the first delimiter not yet searched, or at
\* the end of what has been peeked.
Search(call) ==
  LET hits == {i \in call.searched + 1 .. call.peeked : call.buffer[i] = Delimiter} IN
  [call EXCEPT !.at = "read", !.found = hits # {},
               !.searched = IF hits = {} THEN call.peeked
                            ELSE CHOOSE i \in hits : \A j \in hits : i <= j]

\* recv() with MSG_PEEK returns as soon as there is a byte.  At the end of the
\* stream, or when the socket has a timeout that passes, the call returns what
\* it has read before.
Peek ==
  LET room == line.size - line.read
      there == Len(stream) - taken
  IN
  /\ line.at = "peek"
  /\ \/ \E n \in 1 .. (IF there < room THEN there ELSE room) :
          /\ line' = Search([Copied(line, n) EXCEPT !.peeked = @ + n])
          /\ UNCHANGED <<handed, result>>
     \/ /\ there = 0 /\ eof
        /\ \E sts \in {"not_connected", "unknown"} : LineReturns(sts, line)
     \/ there = 0 /\ ~eof /\ LineReturns("timed_out", line)
  /\ UNCHANGED <<stream, eof, taken>>

\* Bug: everything peeked is read, and not only what has been searched.
CatchUpPeeked ==
  LET n == line.peeked - line.read
      call == [Copied(line, n) EXCEPT !.read = line.peeked]
  IN
  /\ line.at = "read"
  /\ taken' = taken + n
  /\ IF call.found THEN LineReturns("success", call)
     ELSE IF call.read = call.size THEN LineReturns("again", call)
     ELSE line' = [call EXCEPT !.at = "peek"] /\ UNCHANGED <<handed, result>>
  /\ UNCHANGED <<stream, eof>>

\* recv() with MSG_WAITALL for what has been searched; it is there.
CatchUp ==
  LET n == line.searched - line.read
      call == [Copied(line, n) EXCEPT !.read = line.searched]
  IN
  /\ line.at = "read"
  /\ taken' = taken + n
  /\ IF call.found THEN LineReturns("success", call)
     ELSE IF call.read = call.size THEN LineReturns("again", call)
     ELSE line' = [call EXCEPT !.at = "peek"] /\ UNCHANGED <<handed, result>>
  /\ UNCHANGED <<stream, eof>>

LineNext == ByteArrives \/ StreamEnds \/ LineCall \/ Peek \/ CatchUp

LineSpec == LineInit /\ [][LineNext]_lineVars

-----------------------------------------------------------------------------
HasDelimiter(bytes) == \E i \in 1 .. Len(bytes) : bytes[i] = Delimiter

\* What the result code of the last call says of its bytes.
ResultHonest ==
  LET last == Len(result.data) IN
  CASE result.sts = "success" -> /\ last > 0 /\ result.data[last] = Delimiter
                                 /\ ~HasDelimiter(SubSeq(result.data, 1, last - 1))
    [] result.sts = "again"   -> last = result.size /\ ~HasDelimiter(result.data)
    [] OTHER                  -> ~HasDelimiter(result.data)

(***************************************************************************)
(* However the bytes arrive between the peeks and the reads, and however   *)
(* calls fail in between: the bytes handed to the caller and the ones the  *)
(* running call has read are together the bytes taken from the socket,     *)
(* none lost and none twice.  A line ends at the first delimiter, a full   *)
(* buffer is reported only when there is none in it.                       *)
(***************************************************************************)
LinesExact ==
  /\ handed \o SubSeq(line.buffer, 1, line.read) = SubSeq(stream, 1, taken)
  /\ ResultHonest
=============================================================================
