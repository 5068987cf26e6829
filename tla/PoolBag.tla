------------------------------ MODULE PoolBag ------------------------------
(***************************************************************************)
(* What a pool of sockets promises: a bag of entries, each a socket with   *)
(* the user's data.  An addition that succeeds adds the entry it names, a  *)
(* removal that succeeds takes one entry of the socket it names, and is    *)
(* refused for want of one only if there is none; a call that fails, and   *)
(* every call of another kind, leaves all entries as they were.            *)
(***************************************************************************)
EXTENDS Naturals, Bags

CONSTANTS PoolSockets, UserData

VARIABLES
  entries,   \* the bag
  call       \* the call that has just returned: what, of what, and its result

BagInit == entries = EmptyBag /\ call.op = "none"

BagAdd(s, data) ==
  /\ call'.op = "add" /\ call'.args = <<s, data>> /\ call'.ret = "success"
  /\ entries' = entries (+) SetToBag({<<s, data>>})

BagRemove(e) ==
  /\ call'.op = "remove" /\ call'.args = <<e[1]>> /\ call'.ret = "success"
  /\ entries' = entries (-) SetToBag({e})

BagLacks ==
  /\ call'.op = "remove" /\ call'.ret = "invalid_argument"
  /\ \A e \in BagToSet(entries) : call'.args # <<e[1]>>
  /\ UNCHANGED entries

BagDestroy == call'.op = "destroy" /\ call'.ret = "success" /\ entries' = EmptyBag

BagFails ==
  /\ call'.op \in {"add", "destroy"} /\ call'.ret # "success"
  /\ UNCHANGED entries

BagOther == call'.op \notin {"add", "remove", "destroy"} /\ UNCHANGED entries

BagNext ==
  \/ \E s \in PoolSockets, data \in UserData : BagAdd(s, data)
  \/ \E e \in BagToSet(entries) : BagRemove(e)
  \/ BagLacks \/ BagDestroy \/ BagFails \/ BagOther

BagSpec == BagInit /\ [][BagNext]_<<entries, call>>
=============================================================================
