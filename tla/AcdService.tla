----------------------------- MODULE AcdService -----------------------------
(***************************************************************************)
(* What the ACD library can be relied upon to do, without connections,     *)
(* buffers or error codes: a call takes effect on the table at one instant *)
(* between its begin and its return, and the caller is told one of three   *)
(* things.                                                                 *)
(*                                                                         *)
(*   "ok"       the command was carried out (and these data were read);    *)
(*   "no"       it was not, and never will be;                             *)
(*   "unknown"  anything may have happened, and a command still under way  *)
(*              may yet be carried out, long after the return.             *)
(***************************************************************************)
EXTENDS AcdTable

CONSTANT Thread

VARIABLES
  acd,      (* the table                                                   *)
  call,     (* call[t]: the latest call of thread t                        *)
  stage,    (* stage[t]: "idle", or what became of the call so far         *)
  got,      (* got[t]: the data its command returned                       *)
  verdict,  (* verdict[t]: what the latest return told thread t            *)
  limbo     (* the commands whose calls have returned without a decision   *)

vars == <<acd, call, stage, got, verdict, limbo>>

Verdict(kind, n) == [kind |-> kind, data |-> n]

Init ==
  /\ acd = EmptyTable
  /\ call = [t \in Thread |-> NoCall]
  /\ stage = [t \in Thread |-> "idle"]
  /\ got = [t \in Thread |-> 0]
  /\ verdict = [t \in Thread |-> Verdict("unknown", 0)]
  /\ limbo = {}

(* Until the next return there is no verdict on the call just begun.       *)
Begin(t) ==
  /\ stage[t] = "idle"
  /\ stage' = [stage EXCEPT ![t] = "pending"]
  /\ \E c \in Calls : call' = [call EXCEPT ![t] = c]
  /\ verdict' = [verdict EXCEPT ![t] = Verdict("unknown", 0)]
  /\ UNCHANGED <<acd, got, limbo>>

(* A call whose arguments are turned down has no effect.                   *)
Reject(t) ==
  /\ stage[t] = "idle"
  /\ \E c \in Calls : call' = [call EXCEPT ![t] = c]
  /\ \E k \in {"no", "unknown"} : verdict' = [verdict EXCEPT ![t] = Verdict(k, 0)]
  /\ UNCHANGED <<acd, stage, got, limbo>>

Apply(t) ==
  /\ stage[t] = "pending"
  /\ CanAccept(acd, call[t])
  /\ acd' = Accept(acd, call[t])
  /\ \E n \in Returns(acd, call[t]) : got' = [got EXCEPT ![t] = n]
  /\ stage' = [stage EXCEPT ![t] = "done"]
  /\ UNCHANGED <<call, verdict, limbo>>

Refuse(t) ==
  /\ stage[t] = "pending"
  /\ stage' = [stage EXCEPT ![t] = "refused"]
  /\ UNCHANGED <<acd, call, got, verdict, limbo>>

Return(t, v) ==
  /\ stage' = [stage EXCEPT ![t] = "idle"]
  /\ got' = [got EXCEPT ![t] = 0]
  /\ verdict' = [verdict EXCEPT ![t] = v]
  /\ UNCHANGED <<acd, call>>

ReturnOk(t) ==
  /\ stage[t] = "done"
  /\ Return(t, Verdict("ok", IF call[t].op = "get" THEN got[t] ELSE 0))
  /\ UNCHANGED limbo

ReturnNo(t) ==
  /\ stage[t] \in {"pending", "refused"}
  /\ Return(t, Verdict("no", 0))
  /\ UNCHANGED limbo

ReturnUnknown(t) ==
  /\ stage[t] # "idle"
  /\ Return(t, Verdict("unknown", 0))
  /\ \/ UNCHANGED limbo
     \/ stage[t] = "pending" /\ limbo' = limbo \cup {call[t]}

(* A command in limbo is carried out or refused; limbo may hold it twice.  *)
Late(c) ==
  /\ \/ CanAccept(acd, c) /\ acd' = Accept(acd, c)
     \/ UNCHANGED acd
  /\ limbo' \in {limbo, limbo \ {c}}
  /\ UNCHANGED <<call, stage, got, verdict>>

Next ==
  \/ \E t \in Thread :
       \/ Begin(t)
       \/ Reject(t)
       \/ Apply(t)
       \/ Refuse(t)
       \/ ReturnOk(t)
       \/ ReturnNo(t)
       \/ ReturnUnknown(t)
  \/ \E c \in limbo : Late(c)

Spec == Init /\ [][Next]_vars
=============================================================================
