-------------------------------- MODULE MCIpt --------------------------------
(***************************************************************************)
(* Instances of Ipt for TLC.                                               *)
(***************************************************************************)
EXTENDS Ipt, TLC

CONSTANTS t1, t2, p1

OneProcess == (t1 :> p1) @@ (t2 :> p1)

(* The threads make all kinds of calls between them; or each all kinds.    *)
Divided == (t1 :> {"ipt", "ctl"}) @@ (t2 :> {"msg"})
AnyKind == [t \in {t1, t2} |-> Kind]
=============================================================================
