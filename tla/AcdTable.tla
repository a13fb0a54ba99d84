------------------------------ MODULE AcdTable ------------------------------
(***************************************************************************)
(* Calls of the ACD library, and the table of customer data they act on.   *)
(* The table is kept by the firmware, which is not part of the repository: *)
(* Accept, CanAccept and Answers model it from the commands, answers and   *)
(* status codes of umip_access.c and acds_module_error.h.                  *)
(***************************************************************************)
EXTENDS Integers

CONSTANTS
  MaxIndex,   (* ACD_MAX_FIELD_INDEX                                       *)
  MaxData,    (* ACD_MAX_DATA_SIZE_IN_BYTES                                *)
  Calls       (* the calls the threads make                                *)

Ops == {"lock", "wipe", "set", "get", "prov"}

(* The arguments of a call: the field index or provisioning schema, the    *)
(* data size and maximum size, whether the input and size pointers and     *)
(* whether the output pointer are non-NULL.  A field's data are            *)
(* represented by their size.                                              *)
CallSpace ==
  [op : Ops, index : Nat, size : Nat, max : Nat, buf : BOOLEAN, out : BOOLEAN]

NoCall ==
  [op |-> "none", index |-> 0, size |-> 0, max |-> 0, buf |-> FALSE, out |-> FALSE]

ASSUME AcdAssumption ==
  /\ MaxIndex \in Nat \ {0}
  /\ MaxData \in Nat \ {0}
  /\ Calls \subseteq CallSpace

Index == 1 .. MaxIndex
Table == [locked : BOOLEAN, data : [Index -> 0 .. MaxData], keys : SUBSET Nat]

EmptyTable == [locked |-> FALSE, data |-> [i \in Index |-> 0], keys |-> {}]

(* A locked table is neither locked again nor written, and an empty field  *)
(* is not read.                                                            *)
CanAccept(acd, c) ==
  /\ c.op \in {"lock", "set"} => ~acd.locked
  /\ c.op = "get" => c.index \in Index /\ acd.data[c.index] # 0

(* The table once command c is carried out.                                *)
Accept(acd, c) ==
  CASE c.op = "lock" -> [acd EXCEPT !.locked = TRUE]
    [] c.op = "wipe" -> [EmptyTable EXCEPT !.locked = acd.locked]
    [] c.op = "set"  -> [acd EXCEPT !.data[c.index] = c.size]
    [] c.op = "prov" -> [acd EXCEPT !.keys = @ \cup {c.index}]
    [] OTHER         -> acd

(* The numbers of bytes that may be returned then: a field is returned     *)
(* whole or, when it is write-only, not at all; provisioning may return    *)
(* data of its own.                                                        *)
Returns(acd, c) ==
  CASE c.op = "get"  -> {acd.data[c.index], 0}
    [] c.op = "prov" -> 0 .. MaxData
    [] OTHER         -> {0}

=============================================================================
