------------------------------- MODULE Client -------------------------------
(***************************************************************************)
(* The client (src/src/client.c) after client_init, with its SIGINT        *)
(* handler (cleanup_client in src/src/main.c): the main thread turns what  *)
(* fgets returns into data packets, the receive thread answers pings, and  *)
(* both queue on ONE mailbox, the one-slot channel that SendSlot           *)
(* implements.  The handler tears down the `server` global, which a client *)
(* leaves zeroed: no connections, and descriptor 0 as its socket.          *)
(*                                                                         *)
(* Lines and pings are numbered.  A line is what one call of fgets         *)
(* returns: up to 63 bytes.  At the end of the input fgets returns at once *)
(* and an empty packet is queued, without any bound; the connection's      *)
(* history does not count those.                                           *)
(***************************************************************************)
EXTENDS Naturals, FiniteSets, Sequences

CONSTANTS
  Outcomes,    \* how threads_init can end, as in Server
  SendRoom,    \* packets that fit in the connection unread
  MaxLines,    \* bound on the lines typed
  MaxPings,    \* bound on the pings from the server
  MaxSignals   \* bound on the SIGINTs

ASSUME ClientAssumption ==
  /\ Outcomes \subseteq {"live", "nosend", "dead"}
  /\ SendRoom \in Nat \ {0}
  /\ MaxLines \in Nat /\ MaxPings \in Nat /\ MaxSignals \in Nat

VARIABLES
  threads,   \* the outcome of threads_init
  ended,     \* stdin has no more to give
  mpc,       \* the main thread is in fgets, or has a packet to queue
  line,      \* that packet
  typed,     \* lines fgets has returned
  rpc,       \* the receive thread waits, or has a reply to queue
  pings,     \* pings handled
  mail,      \* the packet that waits in the mailbox
  sending,   \* the send thread is in tcs_send, holding the lock
  latest,    \* history: the packet that was put last
  sent,      \* history: lines and replies the connection took
  unread,    \* packets in the connection
  up,        \* the connection is up
  fds,       \* open descriptors: 0 ("stdin") and that of the socket
  handler,   \* per thread: where it is in cleanup_client
  alive      \* the process exists

mainVars == <<ended, mpc, line, typed>>
recvVars == <<rpc, pings>>
slotVars == <<mail, sending, latest>>
netVars  == <<sent, unread, up>>
sigVars  == <<fds, handler, alive>>
vars == <<threads, mainVars, recvVars, slotVars, netVars, sigVars>>

Threads  == {"main", "recv", "send"}
NoPacket == [type |-> "nothing", number |-> 0]
Empty    == [type |-> "empty", number |-> 0]
Line(n)  == [type |-> "line", number |-> n]
Reply(n) == [type |-> "reply", number |-> n]
Packet   == {NoPacket, Empty} \cup {Line(n) : n \in 1 .. MaxLines}
              \cup {Reply(n) : n \in 1 .. MaxPings}

TypeOK ==
  /\ threads \in Outcomes
  /\ ended \in BOOLEAN
  /\ mpc \in {"fgets", "queue"}
  /\ line \in Packet
  /\ typed \in 0 .. MaxLines
  /\ rpc \in {"receive", "reply"}
  /\ pings \in 0 .. MaxPings
  /\ {mail, latest} \subseteq Packet
  /\ sending \in BOOLEAN
  /\ sent \in Seq(Packet \ {NoPacket, Empty})
  /\ unread \in 0 .. SendRoom
  /\ up \in BOOLEAN
  /\ fds \subseteq {"stdin", "socket"}
  /\ handler \in [Threads -> {"no", "close", "exit"}]
  /\ alive \in BOOLEAN

\* client_init has succeeded; it does not see how threads_init ended.
Init ==
  /\ threads \in Outcomes
  /\ ended = FALSE
  /\ mpc = "fgets"
  /\ line = NoPacket
  /\ typed = 0
  /\ rpc = "receive"
  /\ pings = 0
  /\ mail = NoPacket
  /\ sending = FALSE
  /\ latest = NoPacket
  /\ sent = <<>>
  /\ unread = 0
  /\ up = TRUE
  /\ fds = {"stdin", "socket"}
  /\ handler = [t \in Threads |-> "no"]
  /\ alive = TRUE

\* A thread that runs the handler does nothing else.
Running(t) == alive /\ handler[t] = "no"

\* Bug: the packet that waits is kept, the new one dropped.
PutIfEmpty(packet) ==
  /\ ~sending
  /\ mail' = IF mail = NoPacket THEN packet ELSE mail
  /\ latest' = packet
  /\ UNCHANGED sending

\* threads_queue_new_send_data
Put(packet) ==
  /\ ~sending
  /\ mail' = packet
  /\ latest' = packet
  /\ UNCHANGED sending

-----------------------------------------------------------------------------
(* The main thread: client_run, client_send_data_packet                      *)

FgetsReturns(packet) ==
  /\ Running("main")
  /\ mpc = "fgets"
  /\ line' = packet
  /\ mpc' = "queue"
  /\ UNCHANGED <<threads, ended, recvVars, slotVars, netVars, sigVars>>

\* Also with descriptor 0 closed: read() may be under way, or have buffered it.
ReadLine ==
  /\ ~ended
  /\ typed < MaxLines
  /\ typed' = typed + 1
  /\ FgetsReturns(Line(typed + 1))

\* Bug: the buffer is not zeroed before fgets; the last line is sent again.
ReadNothingStale ==
  /\ ended \/ "stdin" \notin fds
  /\ UNCHANGED typed
  /\ FgetsReturns(IF typed = 0 THEN Empty ELSE Line(typed))

\* fgets returns NULL and nobody looks: the buffer is the zeroed one.
ReadNothing ==
  /\ ended \/ "stdin" \notin fds
  /\ UNCHANGED typed
  /\ FgetsReturns(Empty)

QueueLine ==
  /\ Running("main")
  /\ mpc = "queue"
  /\ Put(line)
  /\ line' = NoPacket
  /\ mpc' = "fgets"
  /\ UNCHANGED <<threads, ended, typed, recvVars, netVars, sigVars>>

\* The user, or the file or pipe that stdin is, has no more.
EndOfInput ==
  /\ alive
  /\ ~ended
  /\ ended' = TRUE
  /\ UNCHANGED <<threads, mpc, line, typed, recvVars, slotVars, netVars, sigVars>>

Main == ReadLine \/ ReadNothing \/ QueueLine

-----------------------------------------------------------------------------
(* The receive thread: client_handle_packets, client_send_ping_packet        *)

\* Data packets and unknown types are only printed.
ReceivePing ==
  /\ Running("recv")
  /\ threads # "dead"
  /\ up
  /\ rpc = "receive"
  /\ pings < MaxPings
  /\ pings' = pings + 1
  /\ rpc' = "reply"
  /\ UNCHANGED <<threads, mainVars, slotVars, netVars, sigVars>>

\* Bug: the reply waits in the receive thread for an empty mailbox.
QueueReplyIfEmpty ==
  /\ Running("recv")
  /\ rpc = "reply"
  /\ mail = NoPacket
  /\ Put(Reply(pings))
  /\ rpc' = "receive"
  /\ UNCHANGED <<threads, mainVars, pings, netVars, sigVars>>

QueueReply ==
  /\ Running("recv")
  /\ rpc = "reply"
  /\ Put(Reply(pings))
  /\ rpc' = "receive"
  /\ UNCHANGED <<threads, mainVars, pings, netVars, sigVars>>

-----------------------------------------------------------------------------
(* The send thread and the connection                                        *)

SendStart ==
  /\ Running("send")
  /\ threads = "live"
  /\ mail # NoPacket
  /\ ~sending
  /\ sending' = TRUE
  /\ UNCHANGED <<threads, mainVars, recvVars, mail, latest, netVars, sigVars>>

SendDone ==
  /\ Running("send")
  /\ sending
  /\ up => unread < SendRoom
  /\ sent' = IF up /\ mail # Empty THEN Append(sent, mail) ELSE sent
  /\ unread' = IF up THEN unread + 1 ELSE unread
  /\ mail' = NoPacket
  /\ sending' = FALSE
  /\ UNCHANGED <<threads, mainVars, recvVars, latest, up, sigVars>>

SendThread == SendStart \/ SendDone

ServerReads ==
  /\ unread > 0
  /\ unread' = unread - 1
  /\ UNCHANGED <<threads, mainVars, recvVars, slotVars, sent, up, sigVars>>

ConnectionLost ==
  /\ up
  /\ up' = FALSE
  /\ UNCHANGED <<threads, mainVars, recvVars, slotVars, sent, unread, sigVars>>

-----------------------------------------------------------------------------
(* SIGINT on thread t: cleanup_client                                        *)

Exists(t) == CASE t = "main" -> TRUE
               [] t = "recv" -> threads # "dead"
               [] t = "send" -> threads = "live"

\* The signal is blocked in a thread that runs the handler.
Sigint(t) ==
  /\ Running(t)
  /\ Exists(t)
  /\ Cardinality({u \in Threads : handler[u] # "no"}) < MaxSignals
  /\ handler' = [handler EXCEPT ![t] = "close"]
  /\ UNCHANGED <<threads, mainVars, recvVars, slotVars, netVars, fds, alive>>

\* Bug: the client's own threads are cancelled, that of the handler included,
\* which then ends in the close() instead of going on to exit(0).
CleanupClient(t) ==
  /\ alive
  /\ handler[t] = "close"
  /\ t = "main"
  /\ fds' = {"stdin"}
  /\ handler' = [handler EXCEPT ![t] = "exit"]
  /\ UNCHANGED <<threads, mainVars, recvVars, slotVars, netVars, alive>>

\* server_cleanup(&server): no connection to kill; shutdown() fails on
\* descriptor 0, close() does not.
CleanupServer(t) ==
  /\ alive
  /\ handler[t] = "close"
  /\ fds' = fds \ {"stdin"}
  /\ handler' = [handler EXCEPT ![t] = "exit"]
  /\ UNCHANGED <<threads, mainVars, recvVars, slotVars, netVars, alive>>

Exit(t) ==
  /\ alive
  /\ handler[t] = "exit"
  /\ alive' = FALSE
  /\ UNCHANGED <<threads, mainVars, recvVars, slotVars, netVars, fds, handler>>

Handler(t) == CleanupServer(t) \/ Exit(t)

-----------------------------------------------------------------------------
Next ==
  \/ Main \/ EndOfInput
  \/ ReceivePing \/ QueueReply
  \/ SendThread \/ ServerReads \/ ConnectionLost
  \/ \E t \in Threads : Sigint(t) \/ Handler(t)

Spec == Init /\ [][Next]_vars

(***************************************************************************)
(* Every thread that can run is scheduled and the server reads.  Nobody    *)
(* has to type, ping or send a signal.  Of two threads that want the lock  *)
(* again and again, nothing says who gets it: weak fairness only.          *)
(***************************************************************************)
Fairness ==
  /\ WF_vars(QueueLine \/ ReadNothing)
  /\ WF_vars(QueueReply)
  /\ WF_vars(SendThread)
  /\ WF_vars(ServerReads)
  /\ \A t \in Threads : WF_vars(Handler(t))

FairSpec == Spec /\ Fairness

-----------------------------------------------------------------------------
(* Properties                                                                *)

\* Two packets with numbers of the same kind: p goes before q.
Older(p, q) ==
  p.type = q.type /\ p.type \in {"line", "reply"} => p.number < q.number

(***************************************************************************)
(* The server gets the typed lines in order and none twice, and the same   *)
(* of the replies, whatever the other thread and the end of the input      *)
(* queue in between: what a thread has in hand is newer than what waits in *)
(* the mailbox, and that is newer than what is out.                        *)
(***************************************************************************)
StreamInOrder ==
  LET stream == Append(sent, mail) IN
  \A k \in DOMAIN stream :
    /\ \A l \in DOMAIN stream : k < l => Older(stream[k], stream[l])
    /\ Older(stream[k], line)
    /\ rpc = "reply" => Older(stream[k], Reply(pings))

(***************************************************************************)
(* A line is lost on a live connection only to a packet that was queued    *)
(* after it (a newer line, the reply to a ping, an empty packet): what was *)
(* queued last waits or is out.                                            *)
(***************************************************************************)
LatestKept ==
  up /\ latest \notin {NoPacket, Empty} =>
    latest = mail \/ (sent # <<>> /\ latest = sent[Len(sent)])

(***************************************************************************)
(* The receive thread gets its reply into the mailbox, so it goes on       *)
(* reading, as long as the main thread does not flood the mailbox with     *)
(* empty packets and no handler has begun.                                 *)
(***************************************************************************)
ReplyQueued ==
  rpc = "reply" ~> (rpc = "receive" \/ ended \/ \E t \in Threads : handler[t] # "no")

(***************************************************************************)
(* A SIGINT ends the client, whichever thread takes it (the server's       *)
(* handler does not do that: Shutdown).                                    *)
(***************************************************************************)
SigintEnds == \A t \in Threads : handler[t] # "no" ~> ~alive

(***************************************************************************)
(* main.c:28-29: the handler cleans up and reports that the client exited  *)
(* successfully.  By then its socket would be closed, as client_cleanup    *)
(* does it, and what it does not own would not be.  The code closes        *)
(* standard input instead, under a main thread that goes on reading it.    *)
(***************************************************************************)
HandlerCleansUp ==
  \A t \in Threads : handler[t] = "exit" => fds = {"stdin"}
=============================================================================
