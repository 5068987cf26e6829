--------------------------- MODULE OneSlotChannel ---------------------------
(***************************************************************************)
(* What the send side of a ThreadCollection promises to the code that      *)
(* queues packets on it: a place for ONE packet.  Putting a packet         *)
(* replaces the one that is still waiting; the waiting packet is handed to *)
(* the connection whole, at most once, and is lost only when it is         *)
(* replaced or when the connection is down.  Packets are numbered in the   *)
(* order in which they were put.                                           *)
(***************************************************************************)
EXTENDS Naturals

VARIABLES
  puts,       \* packets put so far; the latest one has this number
  pending,    \* the packet that waits, 0 when there is none
  delivered,  \* the packets handed whole to the connection
  up          \* the connection still accepts data

chVars == <<puts, pending, delivered, up>>

ChTypeOK ==
  /\ puts \in Nat
  /\ pending \in Nat
  /\ delivered \subseteq Nat \ {0}
  /\ up \in BOOLEAN

ChInit ==
  /\ puts = 0
  /\ pending = 0
  /\ delivered = {}
  /\ up = TRUE

Put ==
  /\ puts' = puts + 1
  /\ pending' = puts + 1
  /\ UNCHANGED <<delivered, up>>

Deliver ==
  /\ pending # 0
  /\ up
  /\ delivered' = delivered \cup {pending}
  /\ pending' = 0
  /\ UNCHANGED <<puts, up>>

Lose ==
  /\ pending # 0
  /\ ~up
  /\ pending' = 0
  /\ UNCHANGED <<puts, delivered, up>>

GoDown ==
  /\ up
  /\ up' = FALSE
  /\ UNCHANGED <<puts, pending, delivered>>

ChNext == Put \/ Deliver \/ Lose \/ GoDown

ChSpec == ChInit /\ [][ChNext]_chVars

-----------------------------------------------------------------------------
(* Only the latest packet waits, everything delivered is older than it, so   *)
(* no packet is delivered twice or after a newer one.                        *)
ChOrder ==
  /\ pending \in {0, puts}
  /\ \A n \in delivered : n <= puts /\ (pending # 0 => n < pending)

(* While the connection is up the latest packet is waiting or delivered.     *)
ChLatestKept == up /\ puts # 0 => pending = puts \/ puts \in delivered

ChInv == ChTypeOK /\ ChOrder /\ ChLatestKept
=============================================================================
