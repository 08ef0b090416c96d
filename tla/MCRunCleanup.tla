---------------------------- MODULE MCRunCleanup ----------------------------
(***************************************************************************)
(* RunCleanup on small instances. The mutations are named after what they  *)
(* do; a run picks its loads.                                              *)
(***************************************************************************)
EXTENDS RunCleanup, TLC

CONSTANTS add1, add2, stop1, crash1, produce1, process1, w1, c1, c2

MCKind == [m \in Mutations |-> CASE m \in {add1, add2} -> "add"
                                 [] m = stop1 -> "stop"
                                 [] m = crash1 -> "crash"
                                 [] m = produce1 -> "produce"
                                 [] OTHER -> "process"]

MCBehavior == [m \in Mutations |-> IF m = process1 THEN "skip" ELSE "reject"]

MCProcessOf == [w \in Works |-> process1]

Load(requests, late, healthy) == [requests |-> requests, late |-> late, healthy |-> healthy]

Always == {"prerequisite", "disconnect", "adapter"}

\* Resets that may miss every deadline while consumers are added, stopped and
\* crashed and a message is processed, and one that is retried until it
\* succeeds (a deletion that is late has a run of its own).
CleanupLoads ==
  {Load({add1, add2, c1, c2}, Always, FALSE),
   Load({add1, stop1, c1, c2}, Always, FALSE),
   Load({add1, crash1, process1, w1, c1}, Always, FALSE),
   Load({add1, process1, w1, c1, c2}, {"prerequisite", "disconnect"}, TRUE)}

\* A consumer that is stopped while it handles a message.
StopLoads == {Load({add1, stop1, process1, w1, c1}, {"prerequisite", "disconnect"}, TRUE)}

\* A deletion that outlasts its deadline.
LateDeletionLoads == {Load({produce1, c1, c2}, {"adapter"}, TRUE)}
=============================================================================
