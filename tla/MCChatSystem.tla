---------------------------- MODULE MCChatSystem ----------------------------
(***************************************************************************)
(* ChatSystem for TLC.  Three bounds in one instance, chosen at the start: *)
(* a line from each client with the faults, two lines of the first client  *)
(* without them, or clients at the end of their input that only flood.     *)
(***************************************************************************)
EXTENDS ChatSystem

Both == {1, 2}

VARIABLE scenario

\* What is left out; neither typing nor a fault is subject to fairness.
Faults   == (\A c \in Clients : typed'[c] <= 1) /\ NoFlood
TwoLines == typed'[2] = 0 /\ faultVars' = faultVars /\ NoFlood
Floods   == typed' = typed /\ faultVars' = faultVars

ScenarioInit ==
  /\ Init
  /\ scenario \in {"faults", "two lines", "flood"}
  /\ scenario = "two lines" => MaxLines = 2

ScenarioNext ==
  /\ Next
  /\ scenario = "faults" => Faults
  /\ scenario = "two lines" => TwoLines
  /\ scenario = "flood" => Floods
  /\ UNCHANGED scenario

ScenarioSpec ==
  ScenarioInit /\ [][ScenarioNext]_<<vars, scenario>> /\ Fairness
=============================================================================
