-------------------------- MODULE MCIhaErrorChannel --------------------------
(***************************************************************************)
(* Instances of IhaErrorChannel for TLC.                                   *)
(***************************************************************************)
EXTENDS IhaErrorChannel, TLC

CONSTANTS t1, t2, p1, p2

OneThread    == t1 :> p1
OneProcess   == (t1 :> p1) @@ (t2 :> p1)
TwoProcesses == (t1 :> p1) @@ (t2 :> p2)
=============================================================================
