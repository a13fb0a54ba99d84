---------------------------- MODULE MCUmipAccess ----------------------------
(***************************************************************************)
(* Instances of UmipAccess for TLC.                                        *)
(***************************************************************************)
EXTENDS UmipAccess, TLC

CONSTANTS t1, t2, p1, p2

OneProcess   == (t1 :> p1) @@ (t2 :> p1)
TwoProcesses == (t1 :> p1) @@ (t2 :> p2)
OneThread    == t1 :> p1

Arg(op, i, n, m, b, o) ==
  [op |-> op, index |-> i, size |-> n, max |-> m, buf |-> b, out |-> o]

SetOf(n)   == Arg("set", 1, n, 2, TRUE, FALSE)
GetOf(i)   == Arg("get", i, 0, 0, TRUE, TRUE)
LockCall   == Arg("lock", 0, 0, 0, TRUE, TRUE)
WipeCall   == Arg("wipe", 0, 0, 0, TRUE, TRUE)
ProvOf(s, o) == Arg("prov", s, 1, 0, TRUE, o)

(* Writers, a reader and a locker.                                         *)
Mixed == {SetOf(1), SetOf(2), GetOf(1), LockCall}
(* Every kind of call, and one of each kind of illegal argument.           *)
All == Mixed \cup
  {WipeCall, ProvOf(0, TRUE), ProvOf(1, FALSE), ProvOf(0, FALSE), GetOf(0), Arg("set", 1, 3, 3, TRUE, FALSE),
   Arg("set", 1, 2, 1, TRUE, FALSE), Arg("set", 1, 1, 1, FALSE, FALSE)}
Few       == {SetOf(2), GetOf(1), LockCall}
Effective == {SetOf(2), GetOf(1), ProvOf(1, FALSE)}
LegalSets == {SetOf(1), SetOf(2)}
Locks     == {LockCall}

Threads2  == Permutations({t1, t2})
=============================================================================
