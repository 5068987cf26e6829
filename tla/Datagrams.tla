------------------------------ MODULE Datagrams ------------------------------
(***************************************************************************)
(* tcs_send_to, tcs_sendv and tcs_receive_from of tinycsocket.h (POSIX)    *)
(* over UDP: datagrams that are lost, doubled and reordered on the way, a  *)
(* buffer that may be too small for them.  A call is one step.             *)
(***************************************************************************)
EXTENDS Native, Sequences, FiniteSets

Sequence == INSTANCE SequencesExt

CONSTANTS
  Chunks,        \* the buffers a caller sends: sequences of bytes
  MaxDatagrams,  \* bound on the datagrams sent
  MaxPacket,     \* the largest datagram the system sends
  MaxBuffers,    \* the largest buffer_count of tcs_sendv, 65535 in the code
  Destinations,  \* addresses given to tcs_send_to
  Sources,       \* families of the senders' addresses
  Rooms          \* sizes of the receiver's buffer

ASSUME DatagramsAssumption ==
  /\ {MaxDatagrams, MaxPacket, MaxBuffers} \subseteq Nat
  /\ Rooms \subseteq Nat
  /\ <<>> \in Chunks

VARIABLES
  calls,         \* the bytes of each call that sent something, and its source
  net,           \* the datagrams under way
  ended          \* the last call: its result, and of tcs_receive_from its bytes,
                 \* its buffer's size and the source

datagramVars == <<calls, net, ended>>

Ended(sts) == [call |-> "send", sts |-> sts, data |-> <<>>, room |-> 0, source |-> "none"]

DatagramsInit ==
  /\ calls = <<>> /\ net = {}
  /\ ended = Ended("none")

NotSent(sts) ==
  /\ ended' = Ended(sts)
  /\ UNCHANGED <<calls, net>>

\* sendto() or sendmsg() of one datagram from a socket of family source; or it
\* fails, and then nothing is sent.
Goes(data, source) ==
  IF Len(data) > MaxPacket THEN NotSent(errno2retcode("EMSGSIZE"))
  ELSE \/ /\ Len(calls) < MaxDatagrams
          /\ calls' = Append(calls, [data |-> data, source |-> source])
          /\ net' = net \cup {[data |-> data, source |-> source]}
          /\ ended' = Ended("success")
       \/ \E e \in {"ECONNREFUSED", "EAGAIN", "ENETUNREACH"} : NotSent(errno2retcode(e))

tcs_send_to(null, sendall, data, to, source) ==
  IF null THEN NotSent("invalid_argument")
  ELSE IF sendall THEN NotSent("not_implemented")
  ELSE IF sockaddr2native(to) # "success" THEN NotSent(sockaddr2native(to))
  ELSE Goes(data, source)

\* The bytes of all buffers, one buffer behind the other.
Together(buffers) == Sequence!FlattenSeq(buffers)

\* Bug: a datagram for each buffer.
SendvApart(null, sendall, buffers, source) ==
  IF null \/ Len(buffers) = 0 THEN NotSent("invalid_argument")
  ELSE IF sendall THEN NotSent("not_implemented")
  ELSE /\ Len(calls) < MaxDatagrams
       /\ calls' = Append(calls, [data |-> Together(buffers), source |-> source])
       /\ net' = net \cup {[data |-> buffers[i], source |-> source] : i \in 1 .. Len(buffers)}
       /\ ended' = Ended("success")

\* All buffers in one datagram, on a connected socket.
tcs_sendv(null, sendall, buffers, source) ==
  IF null \/ Len(buffers) = 0 THEN NotSent("invalid_argument")
  ELSE IF sendall THEN NotSent("not_implemented")
  ELSE IF Len(buffers) > MaxBuffers THEN NotSent("invalid_argument")
  ELSE Goes(Together(buffers), source)

Send ==
  \E null, sendall \in BOOLEAN, source \in Sources :
    \/ \E data \in Chunks, to \in Destinations : tcs_send_to(null, sendall, data, to, source)
    \/ \E buffers \in {<<>>} \cup {<<a, b>> : a, b \in Chunks} \cup {<<a, a, a>> : a \in Chunks} :
         tcs_sendv(null, sendall, buffers, source)

\* A datagram under way is lost.
Lose ==
  /\ \E d \in net : net' = net \ {d}
  /\ UNCHANGED <<calls, ended>>

-----------------------------------------------------------------------------
Cut(data, room) == SubSeq(data, 1, IF Len(data) < room THEN Len(data) ELSE room)

NotReceived(sts, room) ==
  /\ ended' = [Ended(sts) EXCEPT !.call = "receive", !.room = room]
  /\ UNCHANGED <<calls, net>>

\* recvfrom() takes a datagram, any that is there, and drops what does not fit.
\* Of 0 bytes tcs_receive_from makes "socket closed".  A source it cannot
\* convert is an error, if the caller asks for the source at all: with the
\* bytes in the buffer and the datagram gone.  A datagram may come twice.
tcs_receive_from(null, room, wantSource) ==
  IF null THEN NotReceived("invalid_argument", room)
  ELSE \/ \E d \in net :
            LET data == Cut(d.data, room)
                sts == CASE data = <<>> -> "socket_closed"
                         [] data # <<>> /\ wantSource -> native2sockaddr([family |-> d.source])
                         [] OTHER -> "success"
            IN
            /\ net' \in {net, net \ {d}}
            /\ ended' = [call |-> "receive", sts |-> sts, data |-> data,
                          room |-> room, source |-> d.source]
            /\ UNCHANGED calls
       \/ \E e \in {"ECONNREFUSED", "EAGAIN"} : NotReceived(errno2retcode(e), room)

DatagramsNext ==
  \/ Send
  \/ Lose
  \/ \E null, wantSource \in BOOLEAN, room \in Rooms : tcs_receive_from(null, room, wantSource)

DatagramsSpec == DatagramsInit /\ [][DatagramsNext]_datagramVars

-----------------------------------------------------------------------------
(***************************************************************************)
(* What a call of tcs_receive_from returns are the bytes of one sending    *)
(* call, cut to the buffer, never parts of two and never the second half:  *)
(* the buffers of tcs_sendv stay together.  "Socket closed" means that     *)
(* nothing of a datagram fitted, and a caller who is told of an error has  *)
(* the bytes of a datagram only if its source did not convert.             *)
(***************************************************************************)
DatagramsWhole ==
  LET r == ended IN
  r.call = "receive" =>
  /\ r.sts \in {"success", "socket_closed"} =>
       \E i \in 1 .. Len(calls) :
         /\ r.data = Cut(calls[i].data, r.room)
         /\ r.source = calls[i].source
  /\ r.sts = "socket_closed" => r.data = <<>>
  /\ r.sts \notin {"success", "socket_closed"} /\ r.data # <<>> => r.source # "AF_INET"
=============================================================================
