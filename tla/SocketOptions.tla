---------------------------- MODULE SocketOptions ----------------------------
(***************************************************************************)
(* The options of a socket in tinycsocket.h (POSIX): tcs_set_... and       *)
(* tcs_get_... over setsockopt() and getsockopt() of Linux, which doubles  *)
(* buffer sizes and bounds them, counts a timeout in ticks, keeps the      *)
(* linger time when lingering is switched off, and has a table of          *)
(* multicast memberships.  A call is one step.                             *)
(***************************************************************************)
EXTENDS Native, Integers, FiniteSets

CONSTANTS
  NullCtx, LiveCtx,        \* the handles a caller may pass: TCS_NULLSOCKET, a TCP socket
  BufferSizesAsked,    \* size_t
  UIntRange,           \* unsigned int wraps at this value, 2^32 in the code
  MinKept, MaxKept,    \* the kernel's bounds of a buffer, already doubled; ints
  Timeouts,            \* milliseconds, int
  Hz,                  \* ticks per second
  LingerTimes,         \* seconds, int
  UShortRange,         \* u_short wraps at this value, 2^16 in the code
  Groups, Locals,      \* addresses of the multicast calls
  MaxOptions           \* bound on the options that are set at all

ASSUME OptionsAssumption ==
  /\ NullCtx # LiveCtx
  /\ BufferSizesAsked \subseteq Nat /\ LingerTimes \subseteq Nat /\ Timeouts \subseteq Int
  /\ {UIntRange, UShortRange, MinKept, Hz} \subseteq Nat \ {0}
  /\ {MaxKept, MaxOptions} \subseteq Nat /\ MinKept <= MaxKept /\ MaxKept < UIntRange
  /\ 1000000 % Hz = 0

VARIABLES
  kernel,        \* the socket's options
  wanted,         \* per option set so far: what the last successful call asked for
  answer         \* the last call: its option, its result, the value it gave

optionVars == <<kernel, wanted, answer>>

Flags   == {"broadcast", "keep_alive", "reuse_address", "no_delay", "oob_inline"}
Buffers == {"send_buffer", "receive_buffer"}
NoWait  == -1           \* a receive timeout that has passed at once
Forever == 0

OptionsInit ==
  /\ kernel = [flag |-> [o \in Flags |-> FALSE],
               buffer |-> [o \in Buffers |-> MaxKept],
               ticks |-> Forever,
               linger |-> [on |-> FALSE, time |-> 0],
               member |-> {}]
  /\ wanted = [o \in {} |-> 0]
  /\ answer = [call |-> "none", sts |-> "success"]

Answers(call, sts) == answer' = [call |-> call, sts |-> sts]

\* tcs_set_option with option o: the kernel takes it and is new.
SetOption(ctx, o, value, new) ==
  IF ctx = NullCtx
    THEN Answers("set", "invalid_argument") /\ UNCHANGED <<kernel, wanted>>
    ELSE /\ Cardinality(DOMAIN wanted \cup {o}) <= MaxOptions
         /\ kernel' = new
         /\ wanted' = [x \in DOMAIN wanted \cup {o} |-> IF x = o THEN value ELSE wanted[x]]
         /\ Answers("set", "success")

\* The kernel refuses with errno e.
SetRefused(ctx, e) ==
  /\ Answers("set", IF ctx = NullCtx THEN "invalid_argument" ELSE errno2retcode(e))
  /\ UNCHANGED <<kernel, wanted>>

\* tcs_get_option with option o: the kernel gives value.
GetOption(ctx, o, value) ==
  /\ IF ctx = NullCtx THEN Answers("get", "invalid_argument")
                   ELSE answer' = [call |-> o, sts |-> "success", value |-> value]
  /\ UNCHANGED <<kernel, wanted>>

-----------------------------------------------------------------------------
\* An int that is 0 or 1.  tcs_set_ip_no_delay and tcs_get_ip_no_delay use
\* TCP_NODELAY at level IP, where 1 is IP_TOS: of a TCP socket the kernel drops
\* its lowest bits, so that the flag stays FALSE.
SetFlag(ctx, o, b) ==
  SetOption(ctx, o, b, IF o = "no_delay" THEN kernel ELSE [kernel EXCEPT !.flag[o] = b])
GetFlag(ctx, o) == GetOption(ctx, o, kernel.flag[o])

tcs_set_broadcast(ctx, b) == SetFlag(ctx, "broadcast", b)
tcs_get_broadcast(ctx) == GetFlag(ctx, "broadcast")
tcs_set_keep_alive(ctx, b) == SetFlag(ctx, "keep_alive", b)
tcs_get_keep_alive(ctx) == GetFlag(ctx, "keep_alive")
tcs_set_reuse_address(ctx, b) == SetFlag(ctx, "reuse_address", b)
tcs_get_reuse_address(ctx) == GetFlag(ctx, "reuse_address")
tcs_set_ip_no_delay(ctx, b) == SetFlag(ctx, "no_delay", b)
tcs_get_ip_no_delay(ctx) == GetFlag(ctx, "no_delay")
tcs_set_out_of_band_inline(ctx, b) == SetFlag(ctx, "oob_inline", b)
tcs_get_out_of_band_inline(ctx) == GetFlag(ctx, "oob_inline")

\* The kernel doubles what it is asked, within its bounds.
Kept(b) == CASE 2 * b < MinKept -> MinKept
             [] 2 * b > MaxKept -> MaxKept
             [] OTHER -> 2 * b

SetBuffer(ctx, o, size) ==
  LET b == size % UIntRange IN
  SetOption(ctx, o, size, [kernel EXCEPT !.buffer[o] = Kept(b)])

\* Bug: what the kernel gives is not halved.
GetBufferDoubled(ctx, o) == GetOption(ctx, o, kernel.buffer[o])

\* tcs_get_option halves it again.
GetBuffer(ctx, o) == GetOption(ctx, o, kernel.buffer[o] \div 2)

tcs_set_send_buffer_size(ctx, size) == SetBuffer(ctx, "send_buffer", size)
tcs_get_send_buffer_size(ctx) == GetBuffer(ctx, "send_buffer")
tcs_set_receive_buffer_size(ctx, size) == SetBuffer(ctx, "receive_buffer", size)
tcs_get_receive_buffer_size(ctx) == GetBuffer(ctx, "receive_buffer")

-----------------------------------------------------------------------------
\* / and % of C.
Quotient(a, b) == IF a >= 0 THEN a \div b ELSE -((-a) \div b)
Remainder(a, b) == a - b * Quotient(a, b)

TickMicros == 1000000 \div Hz

\* Bug: the part of a timeout below a second is dropped.
SetTimeoutSeconds(ctx, ms) ==
  SetOption(ctx, "timeout", ms, [kernel EXCEPT !.ticks = Quotient(ms, 1000) * Hz])

\* The kernel refuses negative microseconds, and takes a negative number of
\* seconds for a timeout that has passed.  It rounds up to ticks.
tcs_set_receive_timeout(ctx, ms) ==
  LET sec == Quotient(ms, 1000)
      usec == Remainder(ms, 1000) * 1000
      ticks == IF sec < 0 THEN NoWait
               ELSE sec * Hz + (usec + TickMicros - 1) \div TickMicros
  IN IF usec < 0 THEN SetRefused(ctx, "EDOM")
     ELSE SetOption(ctx, "timeout", ms, [kernel EXCEPT !.ticks = ticks])

tcs_get_receive_timeout(ctx) ==
  LET ticks == IF kernel.ticks = NoWait THEN 0 ELSE kernel.ticks
      usec == (ticks % Hz) * TickMicros
  IN GetOption(ctx, "timeout", (ticks \div Hz) * 1000 + usec \div 1000)

\* Both fields are cast to u_short.
tcs_set_linger(ctx, on, time) ==
  LET new == IF on THEN [on |-> TRUE, time |-> time % UShortRange]
                   ELSE [kernel.linger EXCEPT !.on = FALSE]
  IN SetOption(ctx, "linger", [on |-> on, time |-> time], [kernel EXCEPT !.linger = new])
tcs_get_linger(ctx) == GetOption(ctx, "linger", kernel.linger)

-----------------------------------------------------------------------------
\* The checks common to tcs_set_ip_multicast_add and _drop: what they return
\* before they reach the kernel.  A null local address stands for any.
MulticastCheck(ctx, group, local) ==
  CASE group = NullAddress -> "invalid_argument"
    [] group # NullAddress /\ sockaddr2native(group) # "success" -> sockaddr2native(group)
    [] sockaddr2native(group) = "success" /\ local # NullAddress
       /\ sockaddr2native(local) # "success" -> sockaddr2native(local)
    [] OTHER -> IF ctx = NullCtx THEN "invalid_argument" ELSE "success"

MulticastRefused(sts) == Answers("multicast", sts) /\ UNCHANGED <<kernel, wanted>>

\* One membership of a group per interface; there is one interface.
tcs_set_ip_multicast_add(ctx, group, local) ==
  LET sts == MulticastCheck(ctx, group, local) IN
  IF sts # "success" THEN MulticastRefused(sts)
  ELSE IF \E m \in kernel.member : m.group = group
    THEN MulticastRefused(errno2retcode("EADDRINUSE"))
  ELSE /\ kernel' = [kernel EXCEPT !.member = @ \cup {[group |-> group, local |-> local]}]
       /\ Answers("join", "success")
       /\ UNCHANGED wanted

\* A drop with an address wants the membership added with that address.
tcs_set_ip_multicast_drop(ctx, group, local) ==
  LET sts == MulticastCheck(ctx, group, local)
      gone == {m \in kernel.member : m.group = group /\ local \in {NullAddress, m.local}}
  IN
  IF sts # "success" THEN MulticastRefused(sts)
  ELSE IF gone = {} THEN MulticastRefused(errno2retcode("EADDRNOTAVAIL"))
  ELSE /\ kernel' = [kernel EXCEPT !.member = @ \ gone]
       /\ Answers("leave", "success")
       /\ UNCHANGED wanted

OptionsNext ==
  \E ctx \in {NullCtx, LiveCtx} :
    \/ \E b \in BOOLEAN :
         \/ tcs_set_broadcast(ctx, b) \/ tcs_set_keep_alive(ctx, b)
         \/ tcs_set_reuse_address(ctx, b) \/ tcs_set_ip_no_delay(ctx, b)
         \/ tcs_set_out_of_band_inline(ctx, b)
         \/ \E time \in LingerTimes : tcs_set_linger(ctx, b, time)
    \/ \/ tcs_get_broadcast(ctx) \/ tcs_get_keep_alive(ctx)
       \/ tcs_get_reuse_address(ctx) \/ tcs_get_ip_no_delay(ctx)
       \/ tcs_get_out_of_band_inline(ctx) \/ tcs_get_linger(ctx)
       \/ tcs_get_send_buffer_size(ctx) \/ tcs_get_receive_buffer_size(ctx)
       \/ tcs_get_receive_timeout(ctx)
    \/ \E size \in BufferSizesAsked :
         tcs_set_send_buffer_size(ctx, size) \/ tcs_set_receive_buffer_size(ctx, size)
    \/ \E ms \in Timeouts : tcs_set_receive_timeout(ctx, ms)
    \/ \E group \in Groups, local \in Locals :
         tcs_set_ip_multicast_add(ctx, group, local) \/ tcs_set_ip_multicast_drop(ctx, group, local)

OptionsSpec == OptionsInit /\ [][OptionsNext]_optionVars

-----------------------------------------------------------------------------
\* What a get must give after the last successful set asked for a.
ReadsBack(o, a, value) ==
  CASE o = "no_delay" -> TRUE
    [] o \in Flags \ {"no_delay"} -> value = a
    [] o \in Buffers -> (2 * a >= MinKept /\ 2 * a <= MaxKept) => value = a
    [] o = "timeout" -> IF a < 0 THEN value = 0
                        ELSE value >= a /\ 1000 * (value - a) < TickMicros
    [] o = "linger" -> value.on = a.on /\ (a.on => value.time = a.time % UShortRange)
    [] OTHER -> TRUE

(***************************************************************************)
(* Whatever calls were made in between, the ones that fail included: what  *)
(* tcs_get_... gives is what the last successful tcs_set_... of that       *)
(* option asked for; a buffer size if the kernel allows it, a receive      *)
(* timeout rounded up by less than a tick, a linger time as a u_short.  It *)
(* says nothing of the no-delay option, whose two calls set and read the   *)
(* type of service instead.                                                *)
(***************************************************************************)
OptionsReadBack ==
  answer.call \in DOMAIN wanted => ReadsBack(answer.call, wanted[answer.call], answer.value)
=============================================================================
