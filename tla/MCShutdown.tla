----------------------------- MODULE MCShutdown -----------------------------
(***************************************************************************)
(* Shutdown for TLC.  Two bounds in one instance, chosen at the start: one *)
(* slot with two SIGINTs on any threads and accepts that fail, or two      *)
(* slots with one SIGINT, on the main thread.                              *)
(***************************************************************************)
EXTENDS Shutdown

MCOpenNull == {"open", "null"}
MCMain     == {Main}
MCAll      == Threads

VARIABLE scenario

Accepted == pc[Main] = "accept" /\ pc'[Main] = "init"

\* What is left out; neither Accept nor Sigint is subject to fairness.
OneSlot  == Accepted => threads_count = 0
TwoSlots == /\ Accepted => socket'[threads_count] = "open"
            /\ signals' = signals \/ (signals = 0 /\ cleanup'[Main] # "none")

ScenarioInit == Init /\ scenario \in {"one slot", "two slots"}

ScenarioNext ==
  /\ Next
  /\ scenario = "one slot" => OneSlot
  /\ scenario = "two slots" => TwoSlots
  /\ UNCHANGED scenario

ScenarioSpec ==
  ScenarioInit /\ [][ScenarioNext]_<<vars, scenario>> /\ Fairness
=============================================================================
