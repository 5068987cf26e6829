----------------------------- MODULE RecvFrame -----------------------------
(***************************************************************************)
(* The receive thread of one ThreadCollection (src/src/threads/threads.c): *)
(* threads_run_recv_thread cuts the byte stream into a header and the      *)
(* payload the header announces with threads_recv_into_buffer, and hands   *)
(* each packet to packet_handle_function.                                  *)
(*                                                                         *)
(* The peer's send thread writes whole packets (SendSlot); TCP delivers    *)
(* their bytes in order but in pieces of its own choosing.  A byte is its  *)
(* position in the stream, so a buffer is a sequence of positions, Junk    *)
(* where nothing has been received; HeaderSize and PayloadSize count in    *)
(* the units in which TCP may split the stream.                            *)
(***************************************************************************)
EXTENDS Naturals, Sequences

CONSTANTS
  Packets,      \* what the peer can send
  HeaderSize,   \* sizeof(PacketHeader)
  PayloadSize,  \* header.length of each packet
  MaxSent       \* bound on the packets the peer sends

ASSUME FrameAssumption ==
  /\ HeaderSize \in Nat \ {0}
  /\ PayloadSize \in [Packets -> Nat]
  /\ MaxSent \in Nat

VARIABLES
  sent,            \* the packets the peer put on the stream
  ends,            \* stream position at which each of them ends
  arrived,         \* positions that reached the socket
  open,            \* the peer has neither closed nor reset the connection
  socket,          \* thread_data.socket: "null" after a failed tcs_accept
  part,            \* which of the two calls of the loop is running
  size,            \* its size argument
  buffer,          \* its tmp_recv_buffer
  bytes_recieved,  \* its progress
  consumed,        \* positions recv() has taken off the socket
  header,          \* the last header received
  handled,         \* history: what packet_handle_function was given
  short            \* history: some recv() came back with less than asked for

peerVars   == <<sent, ends, arrived, open, socket>>
threadVars == <<part, size, buffer, bytes_recieved, consumed, header, handled,
                short>>
vars == <<peerVars, threadVars>>

Junk == 0
Blank(n) == [i \in 1 .. n |-> Junk]

Streamed == IF sent = <<>> THEN 0 ELSE ends[Len(sent)]
StartOf(n) == IF n = 1 THEN 0 ELSE ends[n - 1]

\* The positions of packet n, and those of its header.
Frame(n) == [i \in 1 .. HeaderSize + PayloadSize[sent[n]] |-> StartOf(n) + i]
HeaderOf(n) == [i \in 1 .. HeaderSize |-> StartOf(n) + i]

Lengths == {PayloadSize[k] : k \in Packets}

\* header.length: of bytes that are not a packet's header it can be anything.
LengthsOf(h) ==
  LET at == {n \in DOMAIN sent : HeaderOf(n) = h} IN
  IF at = {} THEN Lengths ELSE {PayloadSize[sent[n]] : n \in at}

TypeOK ==
  /\ sent \in Seq(Packets)
  /\ ends \in Seq(Nat) /\ Len(ends) = Len(sent)
  /\ arrived \in Nat /\ consumed \in Nat
  /\ consumed <= arrived /\ arrived <= Streamed
  /\ open \in BOOLEAN
  /\ socket \in {"connected", "null"}
  /\ part \in {"header", "payload"}
  /\ size \in Nat /\ bytes_recieved \in Nat /\ bytes_recieved <= size
  /\ buffer \in [1 .. size -> Nat]
  /\ header \in Seq(Nat)
  /\ handled \in Seq(Seq(Nat))
  /\ short \in BOOLEAN

Init ==
  /\ sent = <<>>
  /\ ends = <<>>
  /\ arrived = 0
  /\ open = TRUE
  /\ socket \in {"connected", "null"}
  /\ part = "header"
  /\ size = HeaderSize
  /\ buffer = Blank(HeaderSize)
  /\ bytes_recieved = 0
  /\ consumed = 0
  /\ header = <<>>
  /\ handled = <<>>
  /\ short = FALSE

-----------------------------------------------------------------------------
(* The peer and the network                                                  *)

Send(k) ==
  /\ open /\ socket = "connected"
  /\ Len(sent) < MaxSent
  /\ sent' = Append(sent, k)
  /\ ends' = Append(ends, Streamed + HeaderSize + PayloadSize[k])
  /\ UNCHANGED <<arrived, open, socket, threadVars>>

Arrive ==
  /\ open
  /\ arrived' \in arrived + 1 .. Streamed
  /\ UNCHANGED <<sent, ends, open, socket, threadVars>>

\* A close lets what arrived be read, a reset drops it.
PeerGone ==
  /\ open
  /\ open' = FALSE
  /\ arrived' \in {arrived, consumed}
  /\ UNCHANGED <<sent, ends, socket, threadVars>>

-----------------------------------------------------------------------------
(* threads_recv_into_buffer                                                  *)

Ask == size - bytes_recieved
Smaller(a, b) == IF a < b THEN a ELSE b

\* The buffer with the next n positions of the stream written at the progress.
Filled(n) ==
  [i \in 1 .. size |->
     IF i \in bytes_recieved + 1 .. bytes_recieved + n
       THEN consumed + (i - bytes_recieved)
       ELSE buffer[i]]

\* Bug: the loop adds up the reads but always asks for the whole size.
ReceiveFullSize ==
  /\ bytes_recieved < size
  /\ socket = "connected"
  /\ consumed < arrived
  /\ LET n == Smaller(size, arrived - consumed) IN
       /\ buffer' = Filled(n)
       /\ consumed' = consumed + n
       /\ bytes_recieved' = bytes_recieved + n
       /\ short' = (short \/ n < Ask)
  /\ UNCHANGED <<peerVars, part, size, header, handled>>

\* Bug: the loop ends when something was received.
ReceiveAny ==
  /\ bytes_recieved < size
  /\ socket = "connected"
  /\ consumed < arrived
  /\ LET n == Smaller(Ask, arrived - consumed) IN
       /\ buffer' = Filled(n)
       /\ consumed' = consumed + n
       /\ bytes_recieved' = size
       /\ short' = (short \/ n < Ask)
  /\ UNCHANGED <<peerVars, part, size, header, handled>>

\* Bug: the bytes are counted only when the connection closes.
ReceiveUncounted ==
  /\ bytes_recieved < size
  /\ socket = "connected"
  /\ consumed < arrived
  /\ LET n == Smaller(Ask, arrived - consumed) IN
       /\ buffer' = Filled(n)
       /\ consumed' = consumed + n
       /\ short' = (short \/ n < Ask)
  /\ UNCHANGED <<peerVars, part, size, bytes_recieved, header, handled>>

\* recv() takes what is there, up to what was asked for.  tcs_receive stores
\* its count OVER the progress, it is not added to it.
Receive ==
  /\ bytes_recieved < size
  /\ socket = "connected"
  /\ consumed < arrived
  /\ LET n == Smaller(Ask, arrived - consumed) IN
       /\ buffer' = Filled(n)
       /\ consumed' = consumed + n
       /\ bytes_recieved' = n
       /\ short' = (short \/ n < Ask)
  /\ UNCHANGED <<peerVars, part, size, header, handled>>

\* End of the stream or an error: the count is 0, and so is the progress.
ReceiveNothing ==
  /\ bytes_recieved < size
  /\ socket = "connected"
  /\ consumed = arrived /\ ~open
  /\ bytes_recieved' = 0
  /\ UNCHANGED <<peerVars, part, size, buffer, consumed, header, handled,
                 short>>

\* tcs_receive refuses TCS_NULLSOCKET and leaves the progress alone.
ReceiveRefused ==
  /\ bytes_recieved < size
  /\ socket = "null"
  /\ UNCHANGED vars

-----------------------------------------------------------------------------
(* threads_run_recv_thread                                                   *)

\* The header is complete; the payload buffer gets header.length bytes.
HeaderDone ==
  /\ part = "header"
  /\ bytes_recieved >= size
  /\ header' = buffer
  /\ \E length \in LengthsOf(buffer) :
       /\ size' = length
       /\ buffer' = Blank(length)
  /\ bytes_recieved' = 0
  /\ part' = "payload"
  /\ UNCHANGED <<peerVars, consumed, handled, short>>

\* The payload is complete: the packet is handled and the loop starts again.
PayloadDone ==
  /\ part = "payload"
  /\ bytes_recieved >= size
  /\ handled' = Append(handled, header \o buffer)
  /\ size' = HeaderSize
  /\ buffer' = Blank(HeaderSize)
  /\ bytes_recieved' = 0
  /\ part' = "header"
  /\ UNCHANGED <<peerVars, consumed, header, short>>

RecvThread ==
  Receive \/ ReceiveNothing \/ ReceiveRefused \/ HeaderDone \/ PayloadDone

Next == (\E k \in Packets : Send(k)) \/ Arrive \/ PeerGone \/ RecvThread

Spec == Init /\ [][Next]_vars

(***************************************************************************)
(* The receive thread is scheduled, and TCP delivers what was sent on a    *)
(* connection that stays open.  The peer may send or not, close or not.    *)
(***************************************************************************)
FairSpec == Spec /\ WF_vars(RecvThread) /\ WF_vars(Arrive)

-----------------------------------------------------------------------------
(* Properties                                                                *)

(***************************************************************************)
(* What the handler is given is, packet by packet, what the peer sent: no  *)
(* packet torn, invented, repeated, left out or out of order, however TCP  *)
(* cuts the stream and although the loop overwrites its progress.          *)
(***************************************************************************)
HandledExactly ==
  \A n \in DOMAIN handled : n \in DOMAIN sent /\ handled[n] = Frame(n)

(***************************************************************************)
(* The loop leaves only when ONE recv() fills the whole buffer: after the  *)
(* first short read the thread never completes a header or a payload       *)
(* again, whatever else arrives, and swallows the rest of the stream.      *)
(***************************************************************************)
ShortReadIsFinal == [][short => handled' = handled]_vars

(***************************************************************************)
(* As long as TCP happens to deliver each header and each payload in one   *)
(* piece, every packet that was sent is handled, unless the peer goes.     *)
(***************************************************************************)
WholeReadsHandled ==
  \A n \in 1 .. MaxSent :
    (Len(sent) >= n) ~> (Len(handled) >= n \/ short \/ ~open)

(***************************************************************************)
(* threads.c:97 promises a call that fills a struct like the PacketHeader: *)
(* every packet of a peer that stays is handled, in how many pieces it may *)
(* come.  The code does not keep this.                                     *)
(***************************************************************************)
SentIsHandled ==
  \A n \in 1 .. MaxSent : (Len(sent) >= n) ~> (Len(handled) >= n \/ ~open)
=============================================================================
