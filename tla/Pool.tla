-------------------------------- MODULE Pool --------------------------------
(***************************************************************************)
(* The socket pool of tinycsocket.h (tcs_pool_*, POSIX): a TdsMap from     *)
(* pollfd to the user's data, used by one thread, over sockets whose       *)
(* readiness changes underneath.                                           *)
(***************************************************************************)
EXTENDS TdsMap, Native, FiniteSets, Bags

CONSTANTS
  PoolSockets,   \* the sockets that may be in the pool
  NullSocket,    \* TCS_NULLSOCKET
  UserData,
  Interests,     \* what tcs_pool_add may ask for: sets of "in", "out", "err"
  Conditions,    \* what poll() may find: sets of those, "hup" and "nval"
  EventCounts,   \* sizes of the caller's array of events
  PollTimeouts,  \* in milliseconds, 64 bits wide
  IntRange,      \* values of an int, 2^32 in the code
  MaxEntries     \* bound on the entries

ASSUME PoolAssumption ==
  /\ NullSocket \notin PoolSockets
  /\ \A i \in Interests : i \subseteq {"in", "out", "err"}
  /\ \A c \in Conditions : c \subseteq {"in", "out", "err", "hup", "nval"}
  /\ EventCounts \subseteq Nat /\ MaxEntries \in Nat
  /\ PollTimeouts \subseteq Int /\ IntRange \in Nat \ {0}

VARIABLES
  exists,     \* the pool has been created
  map,        \* its map
  condition,  \* what is true of each socket
  call,       \* the last call: what, of which socket and data, and what it returned
  asked,      \* of the last poll: the size of the array
  events      \* of the last poll: the events it wrote

vars == <<exists, map, condition, call, asked, events>>

PollFd == [fd : PoolSockets, events : Interests,
           revents : SUBSET {"in", "out", "err", "hup", "nval"}]

Event == [socket : PoolSockets, user_data : UserData,
          can_read : BOOLEAN, can_write : BOOLEAN, error : BOOLEAN]

Operations == {"none", "create", "destroy", "add", "remove", "poll"}
Results == {"success", "memory", "invalid_argument", "timed_out", "unknown"}

TypeOK ==
  /\ exists \in BOOLEAN
  /\ map.count \in 0 .. MaxEntries
  /\ \A i \in 1 .. map.count : map.keys[i] \in PollFd /\ map.values[i] \in UserData
  /\ condition \in [PoolSockets -> Conditions]
  /\ call.op \in Operations /\ call.ret \in Results
  /\ asked \in EventCounts \cup {0}
  /\ events \in Seq(Event)

Called(op, args, ret) == call' = [op |-> op, args |-> args, ret |-> ret]
NoEvents == asked' = 0 /\ events' = <<>>

Init ==
  /\ exists = FALSE
  /\ map = NoMap
  /\ condition \in [PoolSockets -> Conditions]
  /\ call = [op |-> "none", args |-> <<>>, ret |-> "success"]
  /\ asked = 0
  /\ events = <<>>

-----------------------------------------------------------------------------
\* malloc of the pool itself may fail too, with the same result.
tcs_pool_create ==
  /\ IF exists THEN Called("create", <<>>, "invalid_argument") /\ UNCHANGED <<exists, map>>
     ELSE \E r \in MapCreate :
            /\ Called("create", <<>>, IF r.sts = 0 THEN "success" ELSE "memory")
            /\ exists' = (r.sts = 0)
            /\ map' = r.map
  /\ NoEvents
  /\ UNCHANGED condition

tcs_pool_destory ==
  /\ Called("destroy", <<>>, IF exists THEN "success" ELSE "invalid_argument")
  /\ exists' = FALSE
  /\ map' = MapDestroy(map)
  /\ NoEvents
  /\ UNCHANGED condition

\* A socket may be added again, with other data.
tcs_pool_add(s, data, interest) ==
  /\ IF ~exists \/ s = NullSocket
       THEN Called("add", <<s, data>>, "invalid_argument") /\ UNCHANGED map
       ELSE /\ map.count < MaxEntries
            /\ \E r \in MapAdd(map, [fd |-> s, events |-> interest, revents |-> {}], data) :
                 /\ Called("add", <<s, data>>, IF r.sts = 0 THEN "success" ELSE "memory")
                 /\ map' = r.map
  /\ NoEvents
  /\ UNCHANGED <<exists, condition>>

\* The first entry of the socket, in the order of the array.
tcs_pool_remove(s) ==
  LET at == {i \in 1 .. map.count : map.keys[i].fd = s} IN
  /\ IF ~exists \/ s = NullSocket \/ at = {}
       THEN Called("remove", <<s>>, "invalid_argument") /\ UNCHANGED map
       ELSE \E i \in at : /\ \A j \in at : i <= j
                          /\ \E r \in MapRemove(map, i - 1) :
                               /\ Called("remove", <<s>>, IF r.sts = 0 THEN "success" ELSE "memory")
                               /\ map' = r.map
  /\ NoEvents
  /\ UNCHANGED <<exists, condition>>

\* poll() sets every revents; errors need not be asked for.
Polled(key) == condition[key.fd] \cap (key.events \cup {"err", "hup", "nval"})

Ready == {i \in 1 .. map.count : Polled(map.keys[i]) # {}}

\* The first n of the ready entries, in their order.
Fill(ready, n) ==
  {first \in [1 .. n -> ready] :
     /\ \A k, l \in 1 .. n : k < l => first[k] < first[l]
     /\ \A k \in 1 .. n, i \in ready : i < first[k] => \E l \in 1 .. n : first[l] = i}

EventWith(i, r) ==
  [socket |-> map.keys[i].fd, user_data |-> map.values[i],
   can_read |-> "in" \in r, can_write |-> "out" \in r, error |-> "err" \in r]

\* Bug: the event says what was asked for, events where revents should be.
EventAsked(i) == EventWith(i, map.keys[i].events)

EventOf(i) == EventWith(i, Polled(map.keys[i]))

\* The largest int, and what a cast makes of 64 bits.
IntMax == IntRange \div 2 - 1
ToInt(n) == ((n + IntMax + 1) % IntRange) - (IntMax + 1)

\* Without a ready socket poll() waits until the timeout, if there is one.
PollReturns(size, timeout) ==
  LET n == IF Cardinality(Ready) > size THEN size ELSE Cardinality(Ready) IN
  /\ Ready = {} => timeout >= 0
  /\ Called("poll", <<>>, IF Ready = {} THEN "timed_out" ELSE "success")
  /\ asked' = size
  /\ \E first \in Fill(Ready, n) :
       /\ events' = [k \in 1 .. n |-> EventOf(first[k])]
       /\ map' = [map EXCEPT !.keys = [i \in DOMAIN map.keys |->
                    IF i > map.count THEN map.keys[i]
                    ELSE [map.keys[i] EXCEPT !.revents =
                            IF \E k \in 1 .. n : first[k] = i THEN {} ELSE Polled(map.keys[i])]]]

\* A signal, more entries than the process may have descriptors, no memory.
PollErrors == {"EINTR", "EINVAL", "ENOMEM"}

PollFails ==
  /\ \E e \in PollErrors : Called("poll", <<>>, errno2retcode(e))
  /\ NoEvents
  /\ UNCHANGED map

\* Without a place for the number of events it is refused in the same way.
tcs_pool_poll(size, timeout) ==
  /\ IF ~exists \/ size > IntMax \/ timeout > IntMax
       THEN Called("poll", <<>>, "invalid_argument") /\ NoEvents /\ UNCHANGED map
       ELSE PollFails \/ PollReturns(size, ToInt(timeout))
  /\ UNCHANGED <<exists, condition>>

\* Data arrives, a peer closes, somebody closes the descriptor.
Change(s) ==
  /\ \E c \in Conditions \ {condition[s]} : condition' = [condition EXCEPT ![s] = c]
  /\ Called("none", <<>>, "success")
  /\ NoEvents
  /\ UNCHANGED <<exists, map>>

Next ==
  \/ tcs_pool_create \/ tcs_pool_destory
  \/ \E s \in PoolSockets \cup {NullSocket} :
       \/ \E data \in UserData, i \in Interests : tcs_pool_add(s, data, i)
       \/ tcs_pool_remove(s)
  \/ \E s \in PoolSockets : Change(s)
  \/ \E size \in EventCounts, timeout \in PollTimeouts : tcs_pool_poll(size, timeout)

Spec == Init /\ [][Next]_vars

-----------------------------------------------------------------------------
(* Properties                                                                *)

PairAt(m, i) == <<m.keys[i].fd, m.values[i]>>
PlacesOf(m, p) == {i \in 1 .. m.count : PairAt(m, i) = p}

EntriesOf(m) == [p \in {PairAt(m, i) : i \in 1 .. m.count} |-> Cardinality(PlacesOf(m, p))]

Bag == INSTANCE PoolBag WITH entries <- EntriesOf(map)

(***************************************************************************)
(* Through swapping removals, growing, shrinking, and additions of which   *)
(* only one half got memory, each socket stays with its own data, and a    *)
(* call changes one entry at most: the one it was called for.              *)
(***************************************************************************)
ImplementsBag == Bag!BagSpec

(***************************************************************************)
(* The two blocks always have room for what the one recorded capacity      *)
(* says, also after an addition that one list made and the other did not:  *)
(* the next addition does not write behind the smaller block.              *)
(***************************************************************************)
WithinBlocks ==
  /\ map.count <= map.capacity
  /\ map.capacity <= Len(map.keys)
  /\ map.capacity <= Len(map.values)

(***************************************************************************)
(* The map of the pool: its types and its blocks.                          *)
(***************************************************************************)
PoolSound == TypeOK /\ WithinBlocks

\* What an event says is true of its socket now; it may say nothing only of a
\* hang-up or a bad descriptor, which have no member in it.
TrueOfSocket(e) ==
  LET c == condition[e.socket] IN
  /\ e.can_read => "in" \in c
  /\ e.can_write => "out" \in c
  /\ e.error => "err" \in c
  /\ e.can_read \/ e.can_write \/ e.error \/ "hup" \in c \/ "nval" \in c

\* The events that look like e, and the ready entries that e may be of.
EventsLike(e) ==
  {k \in DOMAIN events : events[k].socket = e.socket /\ events[k].user_data = e.user_data}
ReadyLike(e) ==
  {i \in Ready : map.keys[i].fd = e.socket /\ map.values[i] = e.user_data}

(***************************************************************************)
(* A poll that succeeds reports ready entries only, each at most once with *)
(* its own data, what is true of them, and all of them if the array has    *)
(* room; one that timed out had none to report; one that failed, or was    *)
(* refused, reports nothing, and in particular nothing of an earlier one.  *)
(***************************************************************************)
EventsAreReady ==
  call.op = "poll" =>
    /\ call.ret = "success" =>
         /\ Ready # {}
         /\ Len(events) = IF asked >= Cardinality(Ready) THEN Cardinality(Ready) ELSE asked
         /\ \A k \in DOMAIN events :
              /\ Cardinality(EventsLike(events[k])) <= Cardinality(ReadyLike(events[k]))
              /\ TrueOfSocket(events[k])
    /\ call.ret = "timed_out" => Ready = {}
    /\ call.ret # "success" => events = <<>>
=============================================================================
