------------------------------ MODULE MCServer ------------------------------
(***************************************************************************)
(* Server for TLC.  The inputs are the two packets client.c sends: a ping  *)
(* and a data packet for all.  Two bounds in one instance, chosen at the   *)
(* start: three slots, every failure and one packet received, or two slots *)
(* and two packets received while everything goes well.                    *)
(***************************************************************************)
EXTENDS Server

MCInputs == {[type |-> "ping", flag |-> "none"],
             [type |-> "data", flag |-> "send_to_all"]}

MCOutcomes == AllOutcomes

VARIABLE scenario

\* What is left out; neither Receive, Accept nor Leave is subject to fairness,
\* and InitThreads is not stopped by the want of an outcome.
Failures == Cardinality(AllReceived') <= 1
TwoPackets ==
  /\ \A i \in Slots : slot'[i] = "live" \/ slot'[i] = "unused"
  /\ connected' = connected
  /\ mpc = "accept" => threads_count < 2 \/ UNCHANGED mpc

ScenarioInit == Init /\ scenario \in {"failures", "two packets"}

ScenarioNext ==
  /\ Next
  /\ scenario = "failures" => Failures
  /\ scenario = "two packets" => TwoPackets
  /\ UNCHANGED scenario

ScenarioSpec ==
  ScenarioInit /\ [][ScenarioNext]_<<vars, scenario>> /\ Fairness
=============================================================================
