--------------------------- MODULE MCDemoMessages ---------------------------
(***************************************************************************)
(* DemoMessages for TLC: the scenario whose experiments use the run, and   *)
(* one that fails every third message and whose experiments only suspend   *)
(* the timers.                                                             *)
(***************************************************************************)
EXTENDS DemoMessages

\* Both experiments of the first, any one of the second.
MCMaxExperiments ==
  [id \in ScenarioIds |-> IF id = "partitioning" THEN 2 ELSE 1]
MCNoExperiments == [id \in ScenarioIds |-> 0]
=============================================================================
