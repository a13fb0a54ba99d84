---------------------------- MODULE MCKeyDevice ----------------------------
(***************************************************************************)
(* Instances of KeyDevice for TLC.                                         *)
(***************************************************************************)
EXTENDS KeyDevice, TLC

CONSTANTS t1, t2, t3, p1

OneProcess == [t \in {t1, t2, t3} |-> p1]

Arg(id, data, legal, blob, rsp) ==
  [id |-> id, whole |-> TRUE, data |-> data, legal |-> legal, blob |-> blob, rsp |-> rsp]

(* What t1 sends the firmware takes.  t2 has a header too small, room for  *)
(* one of two sizes of signature, and room for no size at all.  A blob of  *)
(* 40 bytes is an error only while the size of a key is not known.         *)
Sender == {Arg("verify", 12, TRUE, 40, 16)}
Checker ==
  {Arg("generate", 20, TRUE, 0, 11), Arg("sign", 8, TRUE, 40, 44),
   Arg("sign", 8, TRUE, 40, 12)}

TwoSenders == (t1 :> Sender) @@ (t2 :> Checker)
=============================================================================
