----------------------------- MODULE MCLiveUpdates -----------------------------
(* A run whose experiments compete with its timers and its cleanup, and one  *)
(* whose client loses its connection.                                        *)
EXTENDS LiveUpdates, TLC

CONSTANTS e1, e2

MCPrerequisiteOf == e1 :> Null @@ e2 :> e1
MCTransitions == e1 :> 1 @@ e2 :> 1
MCLoads ==
  {[commands |-> 3, ticks |-> 1, messages |-> 2, cleanup |-> TRUE, live |-> FALSE, disconnects |-> 0],
   [commands |-> 1, ticks |-> 0, messages |-> 1, cleanup |-> FALSE, live |-> TRUE, disconnects |-> 2],
   [commands |-> 1, ticks |-> 0, messages |-> 0, cleanup |-> TRUE, live |-> TRUE, disconnects |-> 1]}
================================================================================
