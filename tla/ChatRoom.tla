------------------------------ MODULE ChatRoom ------------------------------
(***************************************************************************)
(* What the program is for, without mailboxes, threads and connections:    *)
(* each client types numbered lines, and each other client reads some of   *)
(* them.  A line may be missed; what comes is in the order it was typed,   *)
(* never twice, never to its author, and never before it was typed.        *)
(***************************************************************************)
EXTENDS Naturals, Sequences

CONSTANTS
  N,          \* clients
  MaxLines    \* bound on the lines each one types

ASSUME ChatRoomAssumption == N \in Nat /\ MaxLines \in Nat

VARIABLES
  typed,      \* lines each client has typed
  got         \* what each client has read: [from, number] in order

roomVars == <<typed, got>>

Clients == 1 .. N
Line(c, n) == [from |-> c, number |-> n]
Lines == [from : Clients, number : 1 .. MaxLines]

RoomInit ==
  /\ typed = [c \in Clients |-> 0]
  /\ got = [c \in Clients |-> <<>>]

RoomType(c) ==
  /\ typed[c] < MaxLines
  /\ typed' = [typed EXCEPT ![c] = @ + 1]
  /\ UNCHANGED got

\* d reads line n of c: none of c's lines that it has is as new.
RoomRead(c, d, n) ==
  /\ c # d
  /\ n \in 1 .. typed[c]
  /\ \A k \in DOMAIN got[d] : got[d][k].from = c => got[d][k].number < n
  /\ got' = [got EXCEPT ![d] = Append(@, Line(c, n))]
  /\ UNCHANGED typed

RoomNext ==
  \/ \E c \in Clients : RoomType(c)
  \/ \E c, d \in Clients : \E n \in 1 .. MaxLines : RoomRead(c, d, n)

RoomSpec == RoomInit /\ [][RoomNext]_roomVars

-----------------------------------------------------------------------------
RoomTypeOK ==
  /\ typed \in [Clients -> 0 .. MaxLines]
  /\ got \in [Clients -> Seq(Lines)]

(***************************************************************************)
(* Every reader's view of every author: in order, no repetition, nothing   *)
(* that was not typed, nothing of one's own.                               *)
(***************************************************************************)
InTypedOrder ==
  \A d \in Clients : \A k \in DOMAIN got[d] :
    /\ got[d][k].from # d
    /\ got[d][k].number <= typed[got[d][k].from]
    /\ \A l \in DOMAIN got[d] :
         k < l /\ got[d][k].from = got[d][l].from
           => got[d][k].number < got[d][l].number
=============================================================================
