# A verification of tcp_server_client

This directory holds TLA+ models of the chat server and client in `src/`, of
the program they form together and of the two libraries they are built on,
configurations that check them with TLC on small instances, and proofs that
TLAPS checks for every value of the constants.  All code paths below are
relative to the root of the repository (`src/src/server.c`, ...).  The POSIX
half of the code is modelled, built as `CMakeLists.txt` builds it
(`-g -Wall`, no optimisation: every look at a shared variable is a load).

## 1. Inventory

### The system

One program, two roles.  `main` picks a role, installs a SIGINT handler and runs
`server_*` or `client_*`.  Both roles talk over TCP in *packets*: a
`PacketHeader` (type, flag, length) and a payload of `header.length` bytes.
Every connection, on either side, is a `ThreadCollection`: a socket, a receive
thread that hands each packet to a handler, a send thread, and between the
producers of packets and the send thread a mailbox (`SendData`) that holds ONE
serialized packet.

| component | state | operations | talks to |
|---|---|---|---|
| send path (`threads.c`) | `new_send_data`, `send_lock`, `send_buffer`, `send_buffer_size` | `threads_queue_new_send_data`, `threads_run_send_thread` | producers: server main thread, all other receive threads; client main and receive thread. `tcs_send` |
| receive path (`threads.c`) | `bytes_recieved`, `tmp_recv_buffer`, the header | `threads_run_recv_thread`, `threads_recv_into_buffer` | `tcs_receive`; calls the packet handler |
| thread set-up and tear-down (`threads.c`) | the `ThreadCollection` | `threads_init`, `threads_kill_threads` | called by server, client, and by the signal handler |
| server (`server.c`) | `threads[MAX_CLIENTS]`, `threads_count`, `server_socket`, `running` | `server_init`, `server_run`, `server_handle_packets`, `server_send_to_all`, `server_send_ping_packet`, `server_cleanup` | main thread accepts; receive threads broadcast into the mailboxes of the others |
| client (`client.c`) | `client_socket`, `threads`, `running` | `client_init`, `client_run`, `client_handle_packets`, `client_send_ping_packet`, `client_send_data_packet`, `client_cleanup` | answers each ping with a ping; each typed line is a data packet for all |
| process (`main.c`) | the globals `server` and `client` | `main`, `cleanup_server`, `cleanup_client` | handlers run on whatever thread takes the signal |
| packets (`packets/`) | heap blocks of a packet and of its payload | `packet_create`, `packet_serialize`, `packet_deserialize`, `packet_destory`, `ping_packet_create`, `data_packet_create` | used by server and client |
| tinycsocket (vendored, one header) | handles, pools, the lists and maps under them | sockets (`tcs_create` ... `tcs_destroy`), `tcs_send`/`tcs_receive` and their datagram and line and netstring forms, `tcs_pool_*`, options, name and adapter lookups, address texts | the kernel; this program uses sockets, `tcs_send` and `tcs_receive` |
| cthreads (vendored) | none of its own | one pthreads call each; two of them compute a deadline | pthreads |

### What is hard here

* *Interleaving.*  `new_send_data` is raised before the buffer is filled and read
  without the lock; `threads_count` is read without a lock while `server_run`
  increments it; a slot's threads run before its ping is queued and before it is
  counted; the SIGINT handler tears everything down under running threads.
* *Capacity.*  A mailbox holds one packet, the array `MAX_CLIENTS` slots.
* *Partial failure.*  Nobody looks at the results of `tcs_send`, `tcs_receive`,
  `tcs_accept` or `threads_init`.
* *TCP.*  It cuts the stream where it likes, blocks a writer whose reader is slow,
  and ends at any time.
* *Progress.*  The send threads poll; a broadcast waits for every send in progress;
  a client's receive thread waits for its own send thread.  Composed, these waits
  can close a circle through several processes.
* *In the libraries:* two reallocs of which one fails, bytes that arrive between a
  peek and the read, a descriptor number that is given out again, a count that is
  stale when the array is filled, milliseconds that make a second.

The program itself has no persistence, no retry and no timeout; the libraries have
timeouts (receiving, polling, timed waits), and these are modelled.

### What makes each component correct

* Send path: the stream is a sequence of whole packets in queueing order; what is
  dropped was superseded by a newer packet; whatever was queued last gets out.
* Receive path: the handler gets, packet by packet, what was sent; everything sent
  is handled.
* Server: accepting never waits for clients; a client is greeted first, gets
  other clients' packets in order, at most once each, never its own, and only
  those that were to be forwarded; every broadcast ends; slots stay in the array.
* Shutdown: nothing is used after it was freed or closed, or freed twice, and the
  process that gets a SIGINT ends with its connections closed.
* Client: a ping is answered; typed lines and replies leave in order, none twice,
  and only something newer may replace one.
* The program: every reader gets an in-order selection of what the others typed;
  once every greeting is answered the waits between clients that read never close a
  circle.  (A client that stays and never reads does stall every broadcast; nothing in
  the code is there against it.)
* tinycsocket: handles and descriptors belong to each other one to one; a pool is a
  bag of its entries; receivers of lines, netstrings and datagrams get exactly what
  was sent; arrays of the caller are not overrun; what is set can be read back.
* cthreads: a timed wait waits as long as it was asked to.

## 2. Modules

| module | models | checked in | proofs |
|---|---|---|---|
| `OneSlotChannel` | abstract: what a mailbox promises | `send_slot` (as a property of `SendSlot`) | `ThreadsProofs` |
| `SendSlot` | the send path, one step per memory access | `send_slot` | `SendSlotProofs` |
| `RecvFrame` | the receive path over a cut-up stream | `recv_frame`, `short_read` | `RecvFrameProofs` |
| `Server` | accepting, slots, broadcast | `server`, `server_overrun` | `ServerProofs` |
| `Shutdown` | SIGINT on the server and the tear-down | `shutdown`, `shutdown_heap` | `ShutdownProofs` |
| `Client` | the client after `client_init`, with its SIGINT handler | `client`, `client_cleanup` | `ClientProofs` |
| `ChatRoom` | abstract: what the program is for | `chat_system` (as a property of `ChatSystem`) | `ChatSystemProofs` |
| `ChatSystem` | `Server` and N `Client`s composed, with the connections | `chat_system` | `ChatSystemProofs` |
| `Native` | tinycsocket: error codes, families, addresses | through the modules below | |
| `Sockets` | tinycsocket: the life of a handle | `library` | `TinycsocketProofs` |
| `TdsMap` | tinycsocket: list and map, with failing reallocs | `library`, through `Pool` | `TinycsocketProofs` |
| `PoolBag` | abstract: what a pool promises | `library` (as a property of `Pool`) | `TinycsocketProofs` |
| `Pool` | tinycsocket: `tcs_pool_*` | `library` | `TinycsocketProofs` |
| `LineReader` | tinycsocket: `tcs_receive_line` | `library` | `TinycsocketProofs` |
| `Netstring` | tinycsocket: netstrings, both ends | `library` | `TinycsocketProofs` |
| `SocketOptions` | tinycsocket: options, set and read back | `library` | `TinycsocketProofs` |
| `Lookup` | tinycsocket: host names and adapters | `library`, `interfaces_overrun` | `TinycsocketProofs` |
| `Datagrams` | tinycsocket: `tcs_send_to`, `tcs_sendv`, `tcs_receive_from` | `library` | `TinycsocketProofs` |
| `Addresses` | tinycsocket: addresses and their texts | `library` | `TinycsocketProofs` |
| `Cthreads` | cthreads | `library` | `ThreadsProofs` |

`MC*.tla` give the constants their values for TLC.  Operators under a comment
`Bug:` are wrong variants of the definition that follows them; each property is
tested against one (`"mutants"` in `PROJECT.json`).

**SendSlot** has the fields of `SendData` under their names, `send_lock` as its
owner.  `Call`, `Lock`, `RaiseFlag`, `SetSize`, `Realloc`, `Memcpy`, `Unlock` are
the lines of `threads_queue_new_send_data` in order; `SenderPoll` (the look at the
flag without the lock), `SenderLock`, `SendBegin`, `SendChunk`, `SendError`,
`ClearFlag`, `SenderUnlock` are the loop of `threads_run_send_thread` with the loop
of `tcs_send`.  Buffer contents are the number of the call that filled it; `queued`
and `wire` are histories.  `Channel` maps the state to `OneSlotChannel`: a put
takes effect when the lock is obtained, a delivery with the packet's last byte, a
loss when a send fails.

**RecvFrame** numbers the bytes of the stream, so that a buffer's content says which
bytes it holds.  `Receive` is one turn of the loop in `threads_recv_into_buffer`;
`tcs_receive` stores the count of that `recv()` over `bytes_recieved` (it does not
add), and so does the action.  `ReceiveNothing` is an end of stream or an error,
`ReceiveRefused` the null socket.  After a short read what is in `header` need not
be a header, so `HeaderDone` takes any length.

**Server** has the main thread as `mpc` and per slot the receive thread (`rpc`,
`index`), the mailbox (`mail`) and the send thread (`sending`, true while it is in
`tcs_send` with the lock).  The mailbox is the one-slot channel that `SendSlot` is
proved to implement, so a put is one step that waits for the send in progress.
`InitThreads` ends in one of the four states `threads_init` can leave a slot in.
`index[i] < threads_count` is evaluated in each step, as the loop does.

**Shutdown** has a program counter per thread, the set of cancelled threads, and one
run of `server_cleanup` per thread (the handler) plus the one at the end of `main`.
A handler stops its thread's own work; it never returns.  A cancelled thread dies
only in `recv()`, `send()` or `close()`, and keeps its locks: in `close()` of its own
handler (`DestroyDie`) it stays at the place where the signal found it for good.
`AllocatorHeld` says that some thread took its signal inside `malloc` or `realloc`;
from then on any handler's `free()` may wait for ever (`FreeStuck`).  `DestroySlot` is
the null check, `close()` and the nulling in one step.  The other parts of a thread's
work are left to the modules above; packets that are not for all only return to
`recv()`.

**Client** has the main thread (`mpc`: in `fgets`, or with a packet to queue), the
receive thread (`rpc`: reading, or with a reply to queue) and the send thread on one
mailbox, which is the one-slot channel of `SendSlot`.  `ReadNothing` is what
`client_run` makes of an `fgets` that returns NULL: the zeroed buffer, again and
again.  `CleanupServer` and `Exit` are `cleanup_client`: it calls `server_cleanup` on
the `server` global, which in a client is zeroed, so it closes descriptor 0.

**ChatSystem** composes N clients with the server.  Both ends of each connection have
their mailbox (`cmail`, `smail`) and a `tcs_send` in progress (`csending`,
`ssending`); `toServer` and `toClient` are the connections.  `Forward` is one turn of
the loop in `server_send_to_all`; it waits for the send lock of that slot.
`ClientReceive` waits for the client's own lock before it reads on
(`client_send_ping_packet`).  `Quit` ends a client, whose unread bytes may still
arrive; `ClientSwallow` and `ServerSwallow` are a receive thread after a short read
(`RecvFrame`).  Accepting, which `Server` takes apart, is one step here.
`ImplementsRoom` maps `typed` and what was received to `ChatRoom`.  What a thread
waits for is a guard of its own (`ClientCanSend`, `ServerCanTake`, `CanForward`, ...),
used by the actions and by `Stuck`, the states in which no thread can move.

**The libraries.**  A part of tinycsocket is a module with the state its functions
work on; a call is one step unless the world moves in between: `ConnectNext` is one
address of `tcs_connect`, `LineReader` separates peek, search and read, `Netstring`
the reads of a header, a payload and the comma.  A system call that can fail has its
failures as disjuncts (`PollFails`) or among the outcomes of the call (`ResolveFails`,
`tcs_local_interfaces`); only `close()` of an open socket is taken to succeed.
`TdsMap` gives an operation as the set of its outcomes, since
each realloc may fail; the loop that looks for a capacity is the recursive function
`Doubled`.  `Pool` fills the events from an increasing choice of ready entries
(`Fill`) with what `poll()` finds in `PollReturns`, and refuses what the code refuses,
sizes and timeouts beyond an int among it; `EntriesOf` is the bag of its entries, and
`PoolBag` says per call what may happen to the bag: only the entry the call names may
come or go.  `Lookup` is the caller that counts, makes room and asks again, over the
set of outcomes of each call.  `Cthreads` is two steps for a call that waits.  What the
kernel does is marked external in the map.

## 3. What the runs show

| run | bounds | result |
|---|---|---|
| `send_slot` | 2 producers, 3 calls, packets of 1 and 2 units | `WireWellFramed`, `LatestNotLost`, `FlagStableUntilLocked`, `QueuedIsServed`, `ImplementsChannel` hold |
| `recv_frame` | header 2, payloads 0, 1 and 3 units, 3 packets | `HandledExactly`, `ShortReadIsFinal`, `WholeReadsHandled` hold |
| `short_read` | the same | `SentIsHandled` is violated |
| `server` | 3 slots, 4 accepts, every failure, 1 packet received; or 2 slots, 2 packets | `AcceptNeverWaits`, `PingFirst`, `NoEcho`, `OriginOrder`, `OnlyRequestedForwards`, `BroadcastEnds` hold |
| `server_overrun` | 2 slots, 3 accepts | `SlotInArray` is violated |
| `shutdown` | 1 slot, 2 SIGINTs on any threads, failing accepts; or 2 slots, 1 SIGINT on the main thread | `PassedIsDown`, `NoLateCall`, `MainHandlerEnds` hold |
| `shutdown_heap` | 2 slots, 1 SIGINT on the main thread | `HeapIntact` is violated |
| `client` | 2 lines, 2 pings, 2 SIGINTs on any threads, room for 1 packet, every outcome of `threads_init` | `StreamInOrder`, `LatestKept`, `ReplyQueued`, `SigintEnds` hold |
| `client_cleanup` | 1 line, 1 ping, 1 SIGINT | `HandlerCleansUp` is violated |
| `chat_system` | 2 clients, room for 1 packet; a line each, one quits, one receive thread loses the framing; or 2 lines of one client; or both at the end of their input | `StuckNeedsTwo`, `ImplementsRoom`, `AnsweredDrains` hold |
| `library` | each part at its own small size | `PoolSound`, `EventsAreReady`, `ImplementsBag`, `HandlesOwn`, `LinesExact`, `NetstringsExact`, `OptionsReadBack`, `TwoCallsFill`, `DatagramsWhole`, `AddressesRoundTrip`, `TimedWaits` hold |
| `interfaces_overrun` | the same; up to two adapters | `InterfacesInArray` is violated |

*Scenarios.*  `server`, `shutdown` and `chat_system` each check two or three instances
in one run: the variable `scenario`, chosen at the start, leaves some of the environment's
steps out (an accept, a packet, a signal, a fault, a typed line, the end of an input),
never a step of the program and never one that fairness is about.  In `library` the variable `part` chooses which part
of the libraries moves; the parts share nothing.

*Why the bounds are enough.*  Two producers and the send thread are all the roles a
lock has, and three calls put one packet on the wire, one in the mailbox and one in
front of the lock.  Two units per packet give a send that is cut.  A header of 2 and
payloads of 0 to 3 give an empty, an unsplittable and a split part, and a third
packet follows whatever went wrong with the first two.  Three slots are an origin, a
target and a slot that is being set up; two packets received give two broadcasts at
once or two of one origin.  In the tear-down one slot has been passed, another is
being torn down.  Two lines and two pings give the client's mailbox something of
either kind to overwrite and something of either kind already out.  Two clients are
a writer and a reader in both directions, which is what a circle of full connections
takes; room for one packet makes a connection full at once.  In the libraries: fewer
descriptors than handles, so that they run out; a buffer shorter, as long as and
longer than a line; a payload that looks like framing, and one of twelve bytes, where
the header goes wrong; two reallocs in one addition; sockets that hang up or fail, an array of events shorter
and longer than what is ready, a timeout that an int cuts; two threads and a clock
that passes a second.  The theorems of section 5 do not have these bounds.

*Deadlock.*  `send_slot` checks it: the send thread always polls.  In the other runs
a state without successors is one in which the bounds are used up and everybody
waits for a peer, or in which the process has ended; in the scenario of `chat_system`
in which both inputs end it is the circle of waiting threads itself, which the program
can reach and `StuckNeedsTwo` characterises.

*Findings.*

1. `short_read`: a header or payload that TCP delivers in two pieces is never
   completed.  `tcs_receive` writes the count of the last `recv()` to
   `bytes_recieved`, so the loop asks again for bytes it has, and can only end when
   one `recv()` fills the whole buffer from its start.  From then on the connection
   swallows its input (`ShortReadIsFinal`).
2. `server_overrun`: `server_run` never compares `threads_count` with `MAX_CLIENTS`;
   slots are never reused and a failed accept takes one too.
3. `shutdown_heap`: a broadcast reallocates a `send_buffer` the SIGINT handler has
   freed.  The other ways to it that the module has: a second SIGINT on another
   thread, or `main` leaving its loop after a handler died half-way, free twice.
4. `client_cleanup`: the client's handler cleans up the server's global, which is
   zeroed: standard input is closed under the main thread, the client's socket and
   threads are left to `exit`.
5. `interfaces_overrun`: `tcs_local_interfaces`, built with ioctl as `CMakeLists.txt`
   does by never defining `TCS_HAVE_IFADDRS`, stores every adapter there is and never
   looks at the length of the caller's array, which `tinycsocket.h:756` says is the
   number of elements it can store.  An adapter that comes up between the count and
   the second call is written behind it.

*Seen while modelling,* in the models as the code has it and named here for a reader,
without a run of their own:

* SIGINT on a connection's own thread of the server: the handler cancels itself and
  dies in `close()`; the server stays up.  (`PassedIsDown` says what then still
  holds, `MainHandlerEnds` that a handler on the main thread does end.)
* A circle of waits (reached in `chat_system` when both inputs end): two clients that have not answered their greeting, with
  full connections, and nothing moves again.
* The client leaks the payload of each data packet (`client.c:103`), and at the end of
  its input queues empty packets for ever.
* tinycsocket: a shrinking realloc that fails leaves the map with a wrong count
  (`TdsMap`, `ShrinkFails`); poll conditions without a member in the event wake the
  caller with an empty one; the header of a netstring adds the digits of its length up,
  so only lengths below ten are framed right; a payload cut by a timeout counts as
  success; an empty datagram and a buffer of 0 bytes read as "socket closed";
  `tcs_set_ip_no_delay` and `tcs_get_ip_no_delay` pass TCP's option number to level IP,
  where it is the type of service, so the flag is not set and reads back as 0; a
  negative receive timeout of whole seconds means "do not wait" and reads back as 0;
  the linger time is cut to 16 bits.
* cthreads: a timed wait whose milliseconds carry into the next second is refused
  (EINVAL); `cthreads_thread_join` loses the thread's result.

## 4. Fairness

Weak fairness of a thread's steps says that the scheduler runs it.  Nothing obliges
a producer to call, a client to connect, send or leave, or a user to send SIGINT.

* `SendSlot`: weak fairness of the send thread includes `SendChunk`: a peer that
  stays connected goes on reading.  Weak fairness is enough for `SenderLock` because
  the number of calls is bounded: pthread mutexes promise no order, and a producer
  that never pauses could starve the send thread.
* `RecvFrame`: the receive thread runs, and TCP delivers what was sent on a
  connection that stays open.
* `Server`: the main thread between two accepts, the receive threads in a broadcast,
  the send threads, and `Read`: a client that stays reads.  Without `Read` a
  broadcast can wait for ever behind one client; that is what the code does, and why
  `BroadcastEnds` is conditional on it.
* `Client`: the main thread outside of `fgets`, the receive thread with a reply, the
  send thread, the handlers, and the server reads.  Nobody has to type or ping.
  Weak fairness only: of two threads that want the lock again and again nothing says
  who gets it, so `ReplyQueued` is stated for a main thread that does not flood the
  mailbox at the end of its input.
* `ChatSystem`: the same for each client, for each slot's receive and send thread and
  for the accept loop; nobody has to type or quit.  `AnsweredDrains` is stated for
  behaviours in which the empty packets of clients at the end of their input stop some
  time (`<>[][NoFlood]_vars`): they may fill the program first, but a client that goes
  on for ever leaves it never empty.
* The library parts have no fairness: what is checked of them is safety.
* `Shutdown`: the runs of `server_cleanup`, and nothing else: `MainHandlerEnds` must not
  need any other thread to go on.  A thread that could die at a cancellation point is
  not obliged to.  The property ends in "`or AllocatorHeld`", since `free()` is not
  async-signal-safe and a handler may find the allocator locked for good; a process
  that has corrupted its heap (`process = "corrupt"`) counts as ended.

## 5. What is proved

`tlapm` checks all proof modules; they assume the named `ASSUME` of each module
(numbers are naturals, the send thread is not a producer, ...) and nothing else, but
for the three theorems about the pool, which say so.

* **SendSlotProofs** (`TypeCorrect`, `Framing`, `LatestKept`, `FlagStable`,
  `Refinement`).  The invariant `IInv` adds: who is between lock and unlock owns the
  lock (`LockInv`); the flag is up from the moment the send thread has seen it until
  it clears it, and from a producer's second step on (`FlagInv`); what a producer
  has written so far (`FillInv`); outside of producers a raised flag means the
  buffer is the last call's (`BufferInv`); how far `tcs_send` is (`ProgressInv`,
  `BoundaryInv`); and what still has to go out is newer than everything that went
  (`NewerInv`).  `WireWellFramed` alone is not inductive: it does not know what the
  buffer holds when the send thread gets the lock.  `Refinement` maps every step to
  a step of `OneSlotChannel` or to a stutter.
* **ThreadsProofs** (`ChannelGuarantees`, `WaitsInTime`).  A channel delivers nothing
  twice or out of order, and keeps or delivers the latest packet while it is up.  The
  timed waits of cthreads: `TimedWaits` speaks of calls that have returned and does
  not know when a thread that still waits will give up; `DeadlineInv` says so: an open
  wait ends exactly at the time it began plus what was asked for, although seconds
  and milliseconds are added apart.
* **RecvFrameProofs** (`TypeCorrect`, `Exactly`, `ShortReadFinal`).  As long as no read
  was short, a buffer is empty or complete and holds the bytes of the packet whose
  turn it is (`HeaderInv`, `PayloadInv`, over `StreamInv`: packets are laid end to
  end); after a short read the progress is below the size and not 0, or the stream
  is over (`ShortInv`), so the loop is never left again.
* **ServerProofs** (`TypeCorrect`, `AcceptFree`, `Greeting`, `Echo`, `Order`,
  `Forwards`).  The invariant says that a slot that is not counted is untouched but
  for its ping (`FreshInv`), that a send in progress has a packet (`SendingInv`),
  that what waits and what was delivered is a ping or a forward of something
  received (`MailInv`), and that what waits is newer than what the same origin has
  had delivered (`LatestInv`, `NewerInv`).
* **ShutdownProofs** (`TypeCorrect`, `Passed`, `LateCall`).  A run of `server_cleanup`
  that is at a slot has cancelled its threads before it closes and frees
  (`OrderInv`), so a thread that still holds a closed socket or a freed buffer has
  been cancelled (`HeldInv`) and cannot enter the call; no one re-opens what was
  passed, because `server_run` only writes behind the counted slots (`FreshInv`,
  `AtInv`).

* **ClientProofs** (`Order`, `Latest`, over type correctness).  `StreamInOrder` compares what
  is out with what waits, but not either with what the threads hold and will put:
  `StreamInv` adds that every number in the stream is at most the counter it came
  from (`Counted`) and older than what either thread has in hand (`OldFor`);
  `HeldInv` says who has a packet in hand, and that what waits is what was put last.
* **ChatSystemProofs** (`TypeCorrect`, `Refinement`, `RoomOrder`, `RestTakesTwo`).  The invariant
  follows one author's lines on their way up (mailbox, connection, receive thread)
  and down to one reader (mailbox, connection), oldest last: `UpInv` and `DownInv`;
  `OwnInv` says that nothing of a reader's own is on its way to it, `SendingInv` that
  a send in progress has a packet.  Then every step is a line typed, a line read or a
  stutter of `ChatRoom`, for any number of clients, lines and any room.
  `RestTakesTwo` is `StuckNeedsTwo`: it needs no ENABLED, because the guards are
  predicates of their own.  The argument walks along what waits for what, from a thread
  of the server that waits for a slot, to the client whose receive
  thread waits to reply, to the receive thread of its slot, which waits for a slot that
  is not its own.
* **TinycsocketProofs**, one section per part of the library:
  * `Ownership`.  `HandlesOwn` needs only that a handle on which `tcs_connect` is at
    work is not null (`TryingInv`).  Calls that fail, that change a socket's state, and
    that open one are a lemma each; each call cites them.
  * `LinesWhole`.  What was handed out is the beginning of the stream, what was taken
    from the socket is that and the bytes of the running call (`LineInv`); the bytes a
    call has peeked stand in the stream behind what was read (`Fits`), what it has
    searched has no delimiter (`Searched`), and what it reads it has searched
    (`CaughtUp`).
  * `MessagesWhole`.  `NetInv` is one layout of all messages on the stream, with the
    place where each starts: the sender is somewhere in the last one (`SenderAt`), the
    reader at a border of one or at a known place inside it (`ReaderAt`).  The
    messages are followed until one has ten bytes or more, whose header does not say
    how long it is.
  * `DatagramsStayWhole`: whatever is under way was sent by one call (`DatagramInv`).
  * `OptionsKept`: what the kernel holds is what the last successful set asked for,
    rounded and bounded (`Keeps`), not only at the moment a get returns.  Timeouts and
    linger times take most of it: division and remainder over negative numbers, ticks
    and 16 bits.
  * `AddressesComeBack`: the bytes of a number and its shifts, for any range of a byte.
  * `LookupsFit`: until something has changed, counting again would give the number
    that was given (`LookupInv`), and where all that are counted convert, the loop that
    fills comes to the same number; a failing call writes nothing.
  * `PollReportsReady`: the revents that `poll()` sets are not empty exactly for the
    ready entries (`PollReady`), so what the loop picks in order are the first of them,
    and each event is made from its own entry (`EventFacts`).
  * `PoolStaysSound` and `PoolIsABag`.  `MapOK` says of the map what its operations
    need: two blocks of which each has room for the capacity, which is one the
    doubling loop can give, and entries in the first `count` places of both.  A lemma
    per operation of list and map says what each outcome, also of half an addition,
    leaves where; `FewerEntries` that moving the last entry over a hole takes exactly
    one pair out of the bag.  All three theorems assume `~ShrinkFails`, that realloc does
    not fail to make a block smaller: where it does (`tinycsocket.h:1116`) the code
    returns an error with the map half changed, and the
    invariant of all three, `PoolInv`, would not hold.

What the proofs need of the constants of the library beyond their types: a header of
a netstring has room for a digit and a colon and something behind them, the largest
buffer the kernel keeps fits into an unsigned int, a tick is a whole number of
microseconds, and a line's letters do not include the delimiter.

Only model-checked: the liveness properties (`QueuedIsServed`, `WholeReadsHandled`,
`BroadcastEnds`, `MainHandlerEnds`, `ReplyQueued`, `SigintEnds`, `AnsweredDrains`), which
TLAPS cannot prove, and the findings.  Every invariant and every refinement a passing
run checks is a theorem.  The library's induction theorems take an operator, which the
provers cannot instantiate; where induction is needed (`Doubled`) it is over a set of
numbers instead (`SetInduction`, from the least element of the complement).

## 6. What is not modelled

* The heap blocks of packets (`packet_create`, `packet_destory`): their layout is in
  `RecvFrame`, the leak in `client_send_data_packet` is named above.
* `threads_init` that fails and is then torn down: `pthread_cancel` on a handle that
  was never set has no defined outcome.  The failures themselves are in `Server`.
* A `realloc` or `malloc` that returns NULL in the program: not looked at by the code,
  undefined at once.  In the library, which does look, it is in `TdsMap`.
* `server_init` and `client_init`, which run before there is a second thread: their
  success is the initial state, their failures end the process.
* Two tear-downs of one slot at once, system call by system call: in `Shutdown` the
  null check, `close()` and the nulling of a socket (`tinycsocket.h:1963-1968`) are one
  step.  In the code the second handler may close the number once more before the first
  has nulled it, and a connection accepted in between may have been given that number;
  to show it takes descriptor numbers and their reuse, which `Sockets` has and
  `Shutdown` has not.  Without them the second `close()` is only a refused call.
* tinycsocket: the Windows half, `tcs_pool` on it, the texts of errors, flags of
  `tcs_receive` that no caller here uses; `tcs_local_interfaces` with getifaddrs, which
  this build leaves out; a `close()` that fails (`tinycsocket.h:1971-1974`), which of an
  open socket could only report a late error.
* The multicast memberships of `SocketOptions` are state that no property reads: their
  calls are there because any of them may come between a set and a get.
* cthreads: the Windows half, the destroy functions, `self`, `equal` and `id`,
  attributes besides detached, the texts of errors.
* Printing, and the texts of packets.

## 7. Plan

Done, in this order: `OneSlotChannel`, `SendSlot`, `RecvFrame`, `Server`, `Shutdown`,
`Client`, `ChatRoom` and `ChatSystem`, then the libraries from the containers up
(`TdsMap`, `Pool`), sockets, framing, datagrams, options, lookups, addresses, threads;
then the proofs, of the program's own parts first and of the libraries after.

What is left:

1. `PacketHeap`: ownership of the blocks of `packet_create`, `ping_packet_create` and
   `data_packet_create` through the paths of server and client.
2. SIGINT on a client inside `ChatSystem`, instead of `Quit`.
3. Proofs of the safety half of the liveness properties: what a waiting thread waits
   for exists as long as it waits.
