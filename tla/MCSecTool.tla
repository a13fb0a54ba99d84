----------------------------- MODULE MCSecTool -----------------------------
(***************************************************************************)
(* Instances of SecTool for TLC.                                           *)
(***************************************************************************)
EXTENDS SecTool, TLC

CONSTANTS t1, t2, p1, p2

TwoProcesses == (t1 :> p1) @@ (t2 :> p2)

Line(cmd, args, i, n, m, file) ==
  [cmd |-> cmd, args |-> args, index |-> i, size |-> n, max |-> m, file |-> file]

(* The numbers of acd-write wrap around to 1, 2 and 2; MaxData is 2.       *)
Write == Line("acd-write", TRUE, 257, 65538, 2, 2)
Prov(file) == Line("acd-prov", TRUE, 1, 0, 0, file)

(* One shell runs commands on the customer data, with a file too large, a  *)
(* size that is not the file's and sizes in the wrong order, and protects  *)
(* the softfuses; the other one locks the data at any time in between, and *)
(* selects in the same driver to look at the protection.                   *)
Working ==
  {Write, Prov(1), Prov(3), Line("acd-write", TRUE, 1, 0, 2, 2),
   Line("acd-write", TRUE, 1, 2, 1, 2), Line("acd-read", TRUE, 1, 0, 0, 0),
   Line("gpp-wp-lock", TRUE, 0, 0, 0, 0), Line("none", TRUE, 0, 0, 0, 0)}
Locking == {Line("acd-lock", TRUE, 0, 0, 0, 0), Line("gpp-wp-status", TRUE, 0, 0, 0, 0)}

TwoShells == (t1 :> Working) @@ (t2 :> Locking)
Made ==
  {CallOf(l) : l \in {k \in Working \cup Locking : k.cmd \in Callers /\ LineOk(k)}}
=============================================================================
