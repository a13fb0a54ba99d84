---------------------------- MODULE AcdCommands -----------------------------
(***************************************************************************)
(* What the commands of the tool can be relied upon to do, without         *)
(* processes, connections or ints: a command has at most one call made to  *)
(* the firmware, which decides about it before the command ends, and what  *)
(* its end tells is true.  Unlike a call of the library (AcdService), it   *)
(* leaves nothing behind that may yet be carried out: the table changes    *)
(* for commands under way only.                                            *)
(***************************************************************************)
EXTENDS AcdTable

CONSTANT Shell     (* where commands are run from, one at a time           *)

VARIABLES
  acd,       (* the table                                                  *)
  busy,      (* the shells that run a command                              *)
  job,       (* job[t]: the call that the command of t amounts to, if any  *)
  decided,   (* decided[t]: what became of it                              *)
  told       (* told[t]: what may have become of it, going by its end      *)

vars == <<acd, busy, job, decided, told>>

(* A command is an exchange with the firmware.                             *)
E == INSTANCE Exchange WITH
  Caller <- Shell, Decision <- {"done", "refused"}, Undecided <- "none"

Init ==
  /\ E!Init
  /\ acd = EmptyTable
  /\ job = [t \in Shell |-> NoCall]

Begin(t) ==
  /\ E!Begin(t)
  /\ \E c \in Calls \cup {NoCall} : job' = [job EXCEPT ![t] = c]
  /\ UNCHANGED acd

(* A command line that is turned down amounts to nothing.                  *)
Reject(t) ==
  /\ E!Reject(t)
  /\ job' = [job EXCEPT ![t] = NoCall]
  /\ UNCHANGED acd

Apply(t) ==
  /\ E!Decide(t)
  /\ decided'[t] = "done"
  /\ job[t] # NoCall
  /\ CanAccept(acd, job[t])
  /\ acd' = Accept(acd, job[t])
  /\ UNCHANGED job

Refuse(t) ==
  /\ E!Decide(t)
  /\ decided'[t] = "refused"
  /\ job[t] # NoCall
  /\ UNCHANGED <<acd, job>>

Return(t) ==
  /\ E!Return(t)
  /\ UNCHANGED <<acd, job>>

Next ==
  \E t \in Shell : Begin(t) \/ Reject(t) \/ Apply(t) \/ Refuse(t) \/ Return(t)

Spec == Init /\ [][Next]_vars
=============================================================================
