----------------------------- MODULE MCSendSlot -----------------------------
(***************************************************************************)
(* SendSlot for TLC: two producers, a short packet (one send() takes it)   *)
(* and a long one (one or two send()s).                                    *)
(***************************************************************************)
EXTENDS SendSlot, TLC

CONSTANTS p1, p2, ping, data

MCProducers  == {p1, p2}
MCPackets    == {ping, data}
MCPacketSize == ping :> 1 @@ data :> 2
=============================================================================
