--------------------------- MODULE MCRunLifecycle ---------------------------
(***************************************************************************)
(* RunLifecycle on a small instance: three calls, one of each behaviour,   *)
(* two cleanups and one promise outside the chain.                         *)
(***************************************************************************)
EXTENDS RunLifecycle, TLC

CONSTANTS m1, m2, m3

MCBehavior == m1 :> "reject" @@ m2 :> "skip" @@ m3 :> "allow"
=============================================================================
