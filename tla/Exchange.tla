------------------------------ MODULE Exchange ------------------------------
(***************************************************************************)
(* What a caller can rely on that has the firmware decide about a command, *)
(* one per call: no connections, no buffers, no codes.  The firmware       *)
(* decides at most once, between the begin of the call and its return.     *)
(* The return leaves some decisions possible, the one that was made among  *)
(* them, and once the call is over nothing is decided any more.            *)
(***************************************************************************)
CONSTANTS
  Caller,     (* the threads that make calls                               *)
  Decision,   (* what the firmware may decide about a command              *)
  Undecided   (* it has not seen the command                               *)

VARIABLES
  busy,      (* the callers that are in a call                             *)
  decided,   (* decided[t]: what became of the latest command of t         *)
  told       (* told[t]: what may have become of it, going by the return   *)

vars == <<busy, decided, told>>

Anything == Decision \cup {Undecided}

Init ==
  /\ busy = {}
  /\ decided = [t \in Caller |-> Undecided]
  /\ told = [t \in Caller |-> Anything]

(* Caller t concludes something that is true of decision d.                *)
Conclude(t, d) ==
  /\ told' = [told EXCEPT ![t] = told'[t]]
  /\ told'[t] \subseteq Anything
  /\ d \in told'[t]

(* Until the call returns, nothing is known of the command.                *)
Begin(t) ==
  /\ t \notin busy
  /\ busy' = busy \cup {t}
  /\ decided' = [decided EXCEPT ![t] = Undecided]
  /\ told' = [told EXCEPT ![t] = Anything]

(* A call that is turned down at once: the command is not sent.            *)
Reject(t) ==
  /\ t \notin busy
  /\ decided' = [decided EXCEPT ![t] = Undecided]
  /\ Conclude(t, Undecided)
  /\ UNCHANGED busy

Decide(t) ==
  /\ t \in busy /\ decided[t] = Undecided
  /\ \E d \in Decision : decided' = [decided EXCEPT ![t] = d]
  /\ UNCHANGED <<busy, told>>

Return(t) ==
  /\ t \in busy
  /\ busy' = busy \ {t}
  /\ Conclude(t, decided[t])
  /\ UNCHANGED decided

Next == \E t \in Caller : Begin(t) \/ Reject(t) \/ Decide(t) \/ Return(t)

Spec == Init /\ [][Next]_vars
=============================================================================
