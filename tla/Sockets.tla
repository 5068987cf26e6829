------------------------------- MODULE Sockets -------------------------------
(***************************************************************************)
(* The life of a socket handle of tinycsocket.h (POSIX), from tcs_create   *)
(* or tcs_accept to tcs_destroy, over a kernel that gives out the lowest   *)
(* free descriptor.  A handle is a variable of the caller: every call that *)
(* opens a socket wants TCS_NULLSOCKET in it, tcs_destroy puts it back.    *)
(*                                                                         *)
(* A call is one step; tcs_connect, which tries one address after the      *)
(* other, is a step per address.  The caller waits for it before it uses   *)
(* that handle again; other threads use the other handles meanwhile.       *)
(***************************************************************************)
EXTENDS Native, Sequences, FiniteSets

CONSTANTS
  Handles,       \* the caller's variables
  MaxFd,         \* descriptors 1 .. MaxFd
  Ports,         \* local ports; 0 stands for any that is free
  Lookups,       \* what host names resolve to: sequences of "here", "away"
  Backlog        \* bound on the connections that wait to be accepted

ASSUME SocketsAssumption ==
  /\ MaxFd \in Nat /\ Backlog \in Nat
  /\ Ports \subseteq Nat \ {0}
  /\ \A found \in Lookups : found \in Seq({"here", "away"})

VARIABLES
  handle,        \* per handle: the descriptor, 0 for TCS_NULLSOCKET
  sock,          \* per descriptor: the kernel's socket
  trying,        \* per handle: the addresses tcs_connect has left, and the port
  returned       \* what the last call returned

socketVars == <<handle, sock, trying, returned>>

Null   == 0
Fds    == 1 .. MaxFd
Closed == [type |-> "none", state |-> "closed", port |-> 0, waiting |-> 0]
Fresh(type) == [type |-> type, state |-> "fresh", port |-> 0, waiting |-> 0]
NotTrying == [left |-> <<>>, port |-> 0]

SocketsTypeOK ==
  /\ handle \in [Handles -> Fds \cup {Null}]
  /\ sock \in [Fds -> [type : {"none", "tcp", "udp"},
                       state : {"closed", "fresh", "bound", "listening", "connected", "shut"},
                       port : Ports \cup {0}, waiting : 0 .. Backlog]]
  /\ \A h \in Handles : trying[h].port \in Ports \cup {0}

SocketsInit ==
  /\ handle = [h \in Handles |-> Null]
  /\ sock = [f \in Fds |-> Closed]
  /\ trying = [h \in Handles |-> NotTrying]
  /\ returned = "success"

Idle(h) == trying[h] = NotTrying
Free == {f \in Fds : sock[f] = Closed}
Lowest == {f \in Free : \A g \in Free : f <= g}
Of(h) == sock[handle[h]]

Returns(sts) == returned' = sts

\* The call returns and nothing has changed.
Fails(sts) ==
  /\ Returns(sts)
  /\ UNCHANGED <<handle, sock, trying>>

\* The call returns success with descriptor f open, as s, in handle h.
Opens(h, s) ==
  \E f \in Lowest :
    /\ Returns("success")
    /\ handle' = [handle EXCEPT ![h] = f]
    /\ sock' = [sock EXCEPT ![f] = s]
    /\ UNCHANGED trying

\* The socket of handle h becomes s.
Becomes(h, s) ==
  /\ Returns("success")
  /\ sock' = [sock EXCEPT ![handle[h]] = s]
  /\ UNCHANGED <<handle, trying>>

-----------------------------------------------------------------------------
\* Bug: the handle is not looked at.
CreateOver(h, type) ==
  /\ Idle(h)
  /\ IF Free = {} THEN Fails(errno2retcode("EMFILE"))
     ELSE Opens(h, Fresh(type))

\* IPv6 types are refused before anything is done.
tcs_create(h, type) ==
  /\ Idle(h)
  /\ IF handle[h] # Null THEN Fails("invalid_argument")
     ELSE IF Free = {} THEN Fails(errno2retcode("EMFILE"))
     ELSE Opens(h, Fresh(type))

\* What bind() says to the socket of h.  The port is also in use for some time
\* after the last of its sockets is closed.
BindErrors(h, port) ==
  IF Of(h).state # "fresh" THEN {"EINVAL"}
  ELSE IF \E f \in Fds : sock[f].type = Of(h).type /\ sock[f].port = port
         THEN {"EADDRINUSE"}
         ELSE {"none"} \cup (IF Of(h).type = "tcp" THEN {"EADDRINUSE"} ELSE {})

tcs_bind(h, port) ==
  /\ Idle(h)
  /\ IF handle[h] = Null \/ port = 0 THEN Fails("invalid_argument")
     ELSE \E e \in BindErrors(h, port) :
            IF e = "none"
              THEN Becomes(h, [Of(h) EXCEPT !.state = "bound", !.port = port])
              ELSE Fails(errno2retcode(e))

ListenError(s) ==
  CASE s.type = "udp" -> "EOPNOTSUPP"
    [] s.type = "tcp" /\ s.state \in {"fresh", "bound", "listening"} -> "none"
    [] OTHER -> "EINVAL"

tcs_listen(h) ==
  /\ Idle(h)
  /\ IF handle[h] = Null THEN Fails("invalid_argument")
     ELSE IF ListenError(Of(h)) = "none"
       THEN Becomes(h, [Of(h) EXCEPT !.state = "listening"])
       ELSE Fails(errno2retcode(ListenError(Of(h))))

\* tcs_bind, then tcs_listen.  If only the first succeeds the socket stays bound.
tcs_listen_to(h, port) ==
  /\ Idle(h)
  /\ IF handle[h] = Null \/ port = 0 THEN Fails("invalid_argument")
     ELSE \E e \in BindErrors(h, port) :
            LET bound == [Of(h) EXCEPT !.state = "bound", !.port = port] IN
            CASE e # "none" -> Fails(errno2retcode(e))
              [] e = "none" /\ ListenError(bound) = "none" ->
                   Becomes(h, [bound EXCEPT !.state = "listening"])
              [] OTHER -> /\ Returns(errno2retcode(ListenError(bound)))
                          /\ sock' = [sock EXCEPT ![handle[h]] = bound]
                          /\ UNCHANGED <<handle, trying>>

\* accept() waits for a connection, and wants a free descriptor first.
tcs_accept(h, child) ==
  /\ Idle(h) /\ Idle(child)
  /\ IF handle[h] = Null \/ handle[child] # Null THEN Fails("invalid_argument")
     ELSE IF Of(h).state # "listening"
       THEN Fails(IF Of(h).type = "udp" THEN "unknown" ELSE "invalid_argument")
     ELSE IF Free = {} THEN Fails(errno2retcode("EMFILE"))
     ELSE \E f \in Lowest :
          /\ Of(h).waiting > 0
          /\ Returns("success")
          /\ handle' = [handle EXCEPT ![child] = f]
          /\ sock' = [sock EXCEPT ![handle[h]].waiting = @ - 1,
                                  ![f] = [Fresh("tcp") EXCEPT !.state = "connected",
                                                              !.port = Of(h).port]]
          /\ UNCHANGED trying

-----------------------------------------------------------------------------
\* tcs_connect up to the loop: the name is looked up.
ConnectBegin(h, port) ==
  /\ Idle(h)
  /\ \/ handle[h] = Null /\ Fails("invalid_argument")
     \/ /\ handle[h] # Null
        /\ \/ Fails("unknown")
           \/ \E found \in Lookups \ {<<>>} :
                /\ trying' = [trying EXCEPT ![h] = [left |-> found, port |-> port]]
                /\ UNCHANGED <<handle, sock, returned>>

Listeners(port) ==
  {f \in Fds : sock[f].type = "tcp" /\ sock[f].state = "listening" /\ sock[f].port = port}

\* One turn of the loop, a call of tcs_connect_address: it connects, and
\* tcs_connect returns; or it does not, and the next address is tried.
ConnectNext(h) ==
  LET address == Head(trying[h].left)
      rest == Tail(trying[h].left)
      s == Of(h)
      here == Listeners(trying[h].port)
      able == s.type = "udp" \/ s.state \in {"fresh", "bound"}
      connected == [sock EXCEPT ![handle[h]].state = "connected"]
  IN
  /\ ~Idle(h)
  /\ \/ /\ able
        /\ \/ (address = "away" \/ s.type = "udp") /\ sock' = connected
           \/ /\ address = "here" /\ s.type = "tcp"
              /\ \E f \in here :
                   /\ sock[f].waiting < Backlog
                   /\ sock' = [connected EXCEPT ![f].waiting = @ + 1]
        /\ trying' = [trying EXCEPT ![h] = NotTrying]
        /\ Returns("success")
     \/ /\ ~able \/ (s.type = "tcp" /\ (address = "away" \/ here = {}))
        /\ trying' = [trying EXCEPT ![h] = IF rest = <<>> THEN NotTrying
                                           ELSE [@ EXCEPT !.left = rest]]
        /\ IF rest = <<>> THEN Returns("connection_refused")
                          ELSE UNCHANGED returned
        /\ UNCHANGED sock
  /\ UNCHANGED handle

-----------------------------------------------------------------------------
\* In both directions.  A listening socket goes back to being bound.
tcs_shutdown(h) ==
  /\ Idle(h)
  /\ IF handle[h] = Null THEN Fails("invalid_argument")
     ELSE CASE Of(h).state \in {"connected", "shut"} ->
                 Becomes(h, [Of(h) EXCEPT !.state = "shut"])
            [] Of(h).state = "listening" ->
                 Becomes(h, [Of(h) EXCEPT !.state = "bound", !.waiting = 0])
            [] OTHER -> Fails(errno2retcode("ENOTCONN"))

\* Bug: the handle keeps the closed descriptor.
DestroyKeepsHandle(h) ==
  /\ Idle(h)
  /\ IF handle[h] = Null THEN Fails("invalid_argument")
     ELSE /\ Returns("success")
          /\ sock' = [sock EXCEPT ![handle[h]] = Closed]
          /\ UNCHANGED <<handle, trying>>

\* close() of a socket does not fail here.
tcs_destroy(h) ==
  /\ Idle(h)
  /\ IF handle[h] = Null THEN Fails("invalid_argument")
     ELSE /\ Returns("success")
          /\ sock' = [sock EXCEPT ![handle[h]] = Closed]
          /\ handle' = [handle EXCEPT ![h] = Null]
          /\ UNCHANGED trying

SocketsNext ==
  \E h \in Handles :
    \/ \E type \in {"tcp", "udp"} : tcs_create(h, type)
    \/ \E port \in Ports \cup {0} :
         tcs_bind(h, port) \/ tcs_listen_to(h, port)
    \/ tcs_listen(h)
    \/ \E child \in Handles \ {h} : tcs_accept(h, child)
    \/ \E port \in Ports : ConnectBegin(h, port)
    \/ ConnectNext(h)
    \/ tcs_shutdown(h)
    \/ tcs_destroy(h)

SocketsSpec == SocketsInit /\ [][SocketsNext]_socketVars

-----------------------------------------------------------------------------
(***************************************************************************)
(* Over any sequence of calls, the failing ones included: a handle that is *)
(* not null is an open descriptor, no two handles are the same one, and    *)
(* every open descriptor has its handle.  So no call reaches somebody      *)
(* else's socket, and none is left open with nobody to close it.           *)
(***************************************************************************)
HandlesOwn ==
  /\ SocketsTypeOK
  /\ \A h \in Handles : handle[h] # Null => sock[handle[h]].state # "closed"
  /\ \A h, g \in Handles : h # g /\ handle[h] # Null => handle[h] # handle[g]
  /\ \A f \in Fds : sock[f].state # "closed" => \E h \in Handles : handle[h] = f
=============================================================================
