------------------------------- MODULE Lookup -------------------------------
(***************************************************************************)
(* The lookups of tinycsocket.h (POSIX) that fill an array of the caller:  *)
(* tcs_resolve_hostname and tcs_local_interfaces, the latter as            *)
(* CMakeLists.txt builds it, with ioctl(SIOCGIFCONF).  The caller asks for *)
(* the number first, makes room for that many, and asks again; what is     *)
(* looked up may change between the two calls, and either call may fail.   *)
(***************************************************************************)
EXTENDS Native, Sequences, FiniteSets

CONSTANTS
  HostRecords,   \* what a name may resolve to: sequences of families
  AdapterLists,  \* the addresses of the machine's adapters: sequences of families
  IfconfRoom     \* adapters that fit the buffer given to ioctl, 409 in the code

Families == {"AF_INET", "AF_INET6", "AF_PACKET"}

ASSUME LookupAssumption ==
  /\ \A r \in HostRecords : r \in Seq(Families)
  /\ \A a \in AdapterLists : a \in Seq(Families)
  /\ IfconfRoom \in Nat

VARIABLES
  records,       \* what the name resolves to
  adapters,
  lookup,        \* the caller: step, function, family, room, what the second call wrote
  moved          \* records or adapters have changed between the two calls

lookupVars == <<records, adapters, lookup, moved>>

NoLookup == [at |-> "idle", of |-> "none", family |-> "any", room |-> 0, wrote |-> 0, sts |-> "none"]

LookupInit ==
  /\ records \in HostRecords /\ adapters \in AdapterLists
  /\ lookup = NoLookup /\ moved = FALSE

EnvironmentMoves ==
  /\ \/ records' \in HostRecords \ {records} /\ UNCHANGED adapters
     \/ adapters' \in AdapterLists \ {adapters} /\ UNCHANGED records
  /\ moved' = (moved \/ lookup.at = "counted")
  /\ UNCHANGED lookup

Smaller(a, b) == IF a < b THEN a ELSE b

-----------------------------------------------------------------------------
(* A call is the set of its outcomes: the result, and the number of elements *)
(* written, which is also stored behind the caller's pointer.                *)

Failed(sts) == [sts |-> sts, n |-> 0]
Success(n) == [sts |-> "success", n |-> n]

\* getaddrinfo(): the records of the family asked for.
Found(family) ==
  {i \in 1 .. Len(records) : family2native(family) \in {"AF_UNSPEC", records[i]}}

\* Bug: the loop stops one element before the end of the array.
FilledButOne(able, length) == Smaller(Cardinality(able), length - 1)

\* Only the addresses that convert, as long as there is room.
Filled(able, length) == Smaller(Cardinality(able), length)

\* EAI_SYSTEM with an errno, or another error; so does a name without records.
ResolveFails == {Failed(errno2retcode(e)) : e \in {"ENOMEM", "EMFILE"}} \cup {Failed("unknown")}

\* Without an array every record counts, with one only those that convert.
tcs_resolve_hostname(family, array, length) ==
  LET found == Found(family)
      able == {i \in found : native2sockaddr([family |-> records[i]]) = "success"}
      n == IF array THEN Filled(able, length) ELSE Cardinality(found)
  IN
  ResolveFails \cup IF found = {} THEN {}
                    ELSE {IF n = 0 THEN Failed("lookup_failed") ELSE Success(n)}

\* Every adapter that has an IPv4 address, whatever the length; socket() or
\* ioctl() may fail.
tcs_local_interfaces(array, length) ==
  LET able == {i \in 1 .. Len(adapters) : adapters[i] = "AF_INET"} IN
  IF ~array /\ length # 0 THEN {Failed("invalid_argument")}
  ELSE {Failed("unknown"), Success(Smaller(Cardinality(able), IfconfRoom))}

Outcomes(of, family, array, length) ==
  IF of = "resolve" THEN tcs_resolve_hostname(family, array, length)
                    ELSE tcs_local_interfaces(array, length)

\* First call, without an array.
CountCall ==
  /\ lookup.at = "idle"
  /\ \E of \in {"resolve", "interfaces"}, family \in {"any", "ip4"} :
       \E r \in Outcomes(of, family, FALSE, 0) :
         lookup' = [at |-> IF r.sts = "success" THEN "counted" ELSE "idle", of |-> of,
                    family |-> family, room |-> r.n, wrote |-> 0, sts |-> r.sts]
  /\ moved' = FALSE
  /\ UNCHANGED <<records, adapters>>

\* Second call, with an array of as many elements.
FillCall ==
  /\ lookup.at = "counted"
  /\ \E r \in Outcomes(lookup.of, lookup.family, TRUE, lookup.room) :
       lookup' = [lookup EXCEPT !.at = "filled", !.wrote = r.n, !.sts = r.sts]
  /\ UNCHANGED <<records, adapters, moved>>

NextLookup ==
  /\ lookup.at = "filled"
  /\ lookup' = NoLookup /\ moved' = FALSE
  /\ UNCHANGED <<records, adapters>>

LookupNext == EnvironmentMoves \/ CountCall \/ FillCall \/ NextLookup

LookupSpec == LookupInit /\ [][LookupNext]_lookupVars

-----------------------------------------------------------------------------
(***************************************************************************)
(* Two loops that walk the same list by different rules agree on its       *)
(* length: if nothing has changed since the count, a second call that      *)
(* succeeds fills the array exactly, but for the addresses of other        *)
(* families that only the count includes, and tcs_resolve_hostname never   *)
(* writes beyond it, whatever has changed.  A call that fails reports      *)
(* nothing.                                                                *)
(***************************************************************************)
TwoCallsFill ==
  lookup.at = "filled" =>
    /\ lookup.sts = "success" =>
         /\ ~moved /\ (lookup.of = "interfaces" \/ lookup.family = "ip4")
              => lookup.wrote = lookup.room
         /\ lookup.of = "resolve" => lookup.wrote \in 1 .. lookup.room
    /\ lookup.sts # "success" => lookup.wrote = 0

(***************************************************************************)
(* What tinycsocket.h:756 says of found_interfaces_length, "number of      *)
(* elements your found_interfaces array can store": no more than these are *)
(* written.  The loop around tinycsocket.h:2120 never looks at it.         *)
(***************************************************************************)
InterfacesInArray ==
  lookup.at = "filled" /\ lookup.of = "interfaces" => lookup.wrote <= lookup.room
=============================================================================
