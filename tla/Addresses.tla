------------------------------ MODULE Addresses ------------------------------
(***************************************************************************)
(* tcs_util_string_to_address and tcs_util_address_to_string of            *)
(* tinycsocket.h, for IPv4.  A text is the numbers sscanf() reads from it  *)
(* in the order they are written, the four of the address and the one      *)
(* behind the colon; a number may be written in octal or hexadecimal ("%i" *)
(* reads all three), and may lie outside a byte.                           *)
(***************************************************************************)
EXTENDS Native, Integers, Sequences

CONSTANTS
  ByteRange,     \* 256 in the code
  PortRange,     \* 65536 in the code
  Numbers,       \* what may stand in a text
  MaxNumbers     \* bound on the numbers with dots between them

ASSUME AddressesAssumption ==
  /\ {ByteRange, PortRange} \subseteq Nat \ {0}
  /\ Numbers \subseteq Int /\ MaxNumbers \in Nat

\* A text: its numbers between dots, and the port if it has a colon.
Text(numbers, port) == [numbers |-> numbers, port |-> port]
Texts == UNION {[1 .. n -> Numbers] : n \in 1 .. MaxNumbers}
NoPort == <<>>

VARIABLES
  text,          \* the text in the caller's hands
  parsed         \* what was parsed last: result, address and port

addressVars == <<text, parsed>>

Parsed(sts, address, port) == [sts |-> sts, address |-> address, port |-> port]

\* Bug: the bytes are put together the other way round.
BytesReversed(a, b, c, d) == ((d * ByteRange + c) * ByteRange + b) * ByteRange + a

tcs_util_ipv4_args(a, b, c, d) == ((a * ByteRange + b) * ByteRange + c) * ByteRange + d

\* Without a dot the text is taken for something else.  Five conversions, of
\* which the last may be missing; sscanf() does not look behind them, nor
\* at a port behind fewer than four numbers.
tcs_util_string_to_address(t) ==
  LET b == t.numbers
      p == IF t.port = NoPort \/ Len(b) # 4 THEN 0 ELSE t.port[1]
  IN
  CASE Len(b) < 2 -> Parsed("not_implemented", 0, 0)
    [] Len(b) \in 2 .. 3 -> Parsed("invalid_argument", 0, 0)
    [] OTHER ->
         IF (\E i \in 1 .. 4 : b[i] \notin 0 .. ByteRange - 1) \/ p \notin 0 .. PortRange - 1
           THEN Parsed("invalid_argument", 0, 0)
           ELSE Parsed("success", tcs_util_ipv4_args(b[1], b[2], b[3], b[4]), p)

\* Shifts and masks; the port is left out if it is 0.
tcs_util_address_to_string(address, port) ==
  LET byte(shift) == (address \div shift) % ByteRange IN
  Text(<<byte(ByteRange * ByteRange * ByteRange), byte(ByteRange * ByteRange),
         byte(ByteRange), byte(1)>>,
       IF port = 0 THEN NoPort ELSE <<port>>)

AddressesInit ==
  /\ text \in {Text(numbers, port) :
               numbers \in Texts, port \in {NoPort} \cup {<<p>> : p \in Numbers}}
  /\ parsed = Parsed("none", 0, 0)

Parse ==
  /\ parsed' = tcs_util_string_to_address(text)
  /\ UNCHANGED text

\* What the last parse gave, as a text again.
Format ==
  /\ parsed.sts = "success"
  /\ text' = tcs_util_address_to_string(parsed.address, parsed.port)
  /\ UNCHANGED parsed

AddressesNext == Parse \/ Format

AddressesSpec == AddressesInit /\ [][AddressesNext]_addressVars

-----------------------------------------------------------------------------
(***************************************************************************)
(* What is parsed can be formatted and parsed again to the same address    *)
(* and port, the port 0 that is left out included; and the text of an      *)
(* address has the numbers it was parsed from.                             *)
(***************************************************************************)
AddressesRoundTrip ==
  parsed.sts = "success" =>
    LET again == tcs_util_address_to_string(parsed.address, parsed.port) IN
    /\ tcs_util_string_to_address(again) = parsed
    /\ again.numbers = SubSeq(text.numbers, 1, 4)
=============================================================================
