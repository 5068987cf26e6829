---------------------------- MODULE MCRecvFrame ----------------------------
(***************************************************************************)
(* RecvFrame for TLC: a header of two units, an empty, a short and a long  *)
(* payload, so that a header or a payload can come in one or more pieces.  *)
(***************************************************************************)
EXTENDS RecvFrame, TLC

CONSTANTS empty, ping, data

MCPackets     == {empty, ping, data}
MCPayloadSize == empty :> 0 @@ ping :> 1 @@ data :> 3
=============================================================================
