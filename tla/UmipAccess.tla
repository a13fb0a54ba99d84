----------------------------- MODULE UmipAccess -----------------------------
(***************************************************************************)
(* The Android Customer Data (ACD) library of the security tools           *)
(* (Lib/sec_tool_lib/src/umip_access.c, built with BAYTRAIL and            *)
(* ACD_WIPE_TEST): lock, wipe, set, get and provision.  Every call opens a *)
(* connection of its own, has one command processed, and returns an int.   *)
(*                                                                         *)
(* The firmware at the other end is external: see AcdTable.                *)
(***************************************************************************)
EXTENDS TeeIf, AcdTable

CONSTANTS
  FwError,    (* the acd_status values the firmware refuses a command with *)
  WriteOnly,  (* ACD_READ_SECURE_DATA_PROVISIONED_AND_WRITE_ONLY           *)
  Illegal,    (* ACD_{READ,WRITE,PROV}_ERROR_ILLEGAL_...PARAMETER          *)
  TooLarge,   (* ACD_WRITE_ERROR_DATA_SIZE_TOO_LARGE                       *)
  NoMemory    (* the codes for a failed calloc of the output buffer        *)

(* The codes of acds_module_error.h are positive, and far above any size.  *)
Codes == FwError \cup {WriteOnly, Illegal, TooLarge, NoMemory}

ASSUME UmipAssumption ==
  /\ FwError # {} /\ WriteOnly \notin FwError
  /\ \A e \in Codes : e \in Nat /\ e > MaxData /\ 2 * e < Word

VARIABLES
  call,    (* call[t]: the call thread t is in, or made last               *)
  result,  (* result[t]: the int it returned                               *)
  acd,     (* the table in the firmware                                    *)
  fate     (* fate[t]: what the firmware did about call[t] (a history      *)
           (* variable: "none", "done" or "refused")                       *)

vars == <<teeVars, call, result, acd, fate>>

(* The answers that can be on a connection.                                *)
Rsp == [status : Codes \cup {0, -1}, bytes : 0 .. MaxData]

Init ==
  /\ TeeInit(ClearResp)
  /\ call = [t \in Thread |-> NoCall]
  /\ result = [t \in Thread |-> 0]
  /\ acd = EmptyTable
  /\ fate = [t \in Thread |-> "none"]

-----------------------------------------------------------------------------
(* Argument checks.  set and provision make theirs before connecting.      *)

(* Mutant: no upper bound.                                                 *)
LegalSizeUnbounded(n) == n # 0

LegalSize(n) == n # 0 /\ n <= MaxData

SetError(c) ==
  IF c.index \notin Index \/ ~LegalSize(c.size) \/ ~LegalSize(c.max) THEN Illegal
  ELSE IF c.size > c.max THEN TooLarge
  ELSE IF ~c.buf THEN Illegal
  ELSE 0

ProvError(c) ==
  IF LegalSize(c.size) /\ c.buf /\ ~(~c.out /\ c.index = 0) THEN 0 ELSE Illegal

GetError(c) == IF c.index \in Index /\ c.out THEN 0 ELSE Illegal

EarlyError(c) ==
  CASE c.op = "set"  -> SetError(c)
    [] c.op = "prov" -> ProvError(c)
    [] OTHER         -> 0

(* A call begins: its arguments pass, and it goes on to connect.           *)
Begin(t) ==
  /\ pc[t] = "idle"
  /\ \E c \in Calls :
       /\ EarlyError(c) = 0
       /\ call' = [call EXCEPT ![t] = c]
  /\ Goto(t, "connect")
  /\ ForgetHandle(t)
  /\ fate' = [fate EXCEPT ![t] = "none"]
  /\ UNCHANGED <<ret, resp, result, acd>>

(* set_customer_data and provision_customer_data return the error code of  *)
(* an illegal argument.                                                    *)
Reject(t) ==
  /\ pc[t] = "idle"
  /\ \E c \in Calls :
       /\ EarlyError(c) # 0
       /\ call' = [call EXCEPT ![t] = c]
       /\ result' = [result EXCEPT ![t] = EarlyError(c)]
  /\ ForgetHandle(t)
  /\ fate' = [fate EXCEPT ![t] = "none"]
  /\ UNCHANGED <<pc, ret, resp, acd>>

(* acd_init: the session is opened, or its failure is returned.            *)
Connect(t) ==
  /\ TeeOpen(t)
  /\ UNCHANGED <<call, result, acd, fate>>

ConnectFails(t) ==
  /\ TeeOpenFails(t)
  /\ result' = [result EXCEPT ![t] = AsInt(TEE_FAILURE)]
  /\ UNCHANGED <<call, acd, fate>>

(* The call returns v having closed its connection with acd_deinit ...     *)
ReturnClosing(t, v) ==
  /\ MeiDisconnect(t)
  /\ Goto(t, "idle")
  /\ result' = [result EXCEPT ![t] = v]
  /\ UNCHANGED <<ret, resp, call, acd, fate>>

(* ... or by "ptrHandle = NULL; return": the connection stays open.        *)
ReturnLeaking(t, v) ==
  /\ Goto(t, "idle")
  /\ result' = [result EXCEPT ![t] = v]
  /\ UNCHANGED <<txeiVars, ret, resp, call, acd, fate>>

(* get_customer_data checks its arguments once connected.                  *)
GetReject(t) ==
  /\ pc[t] = "send"
  /\ call[t].op = "get" /\ GetError(call[t]) # 0
  /\ ReturnClosing(t, Illegal)

(* process_cmd, for the call's command.                                    *)
Process_cmd(t) ==
  /\ ~(call[t].op = "get" /\ GetError(call[t]) # 0)
  /\ ProcessCmd(t, call[t])
  /\ UNCHANGED <<call, result, acd, fate>>

-----------------------------------------------------------------------------
(* What each call makes of the return value and the response.              *)

(* lock_customer_data and wipe_customer_data: the status of the firmware   *)
(* is printed and not looked at again.                                     *)
LockReturn(t) ==
  /\ pc[t] = "check" /\ call[t].op \in {"lock", "wipe"}
  /\ IF ret[t] # 0 THEN ReturnLeaking(t, AsInt(ret[t]))
                   ELSE ReturnClosing(t, AsInt(Minus(ret[t])))

(* Mutant: a failed read is returned as the -1 it was.                     *)
SetReturnMinusOne(t) ==
  /\ pc[t] = "check" /\ call[t].op = "set"
  /\ IF ret[t] # 0 THEN ReturnLeaking(t, AsInt(ret[t]))
     ELSE IF resp[t].status # 0
          THEN ReturnLeaking(t, AsInt(Minus(resp[t].status)))
          ELSE ReturnClosing(t, call[t].size)

(* Mutant: the status is not looked at, as in lock_customer_data.          *)
SetReturnUnchecked(t) ==
  /\ pc[t] = "check" /\ call[t].op = "set"
  /\ IF ret[t] # 0 THEN ReturnLeaking(t, AsInt(Minus(ret[t])))
                   ELSE ReturnClosing(t, call[t].size)

SetReturn(t) ==
  /\ pc[t] = "check" /\ call[t].op = "set"
  /\ IF ret[t] # 0 THEN ReturnLeaking(t, AsInt(Minus(ret[t])))
     ELSE IF resp[t].status # 0
          THEN ReturnLeaking(t, AsInt(Minus(resp[t].status)))
          ELSE ReturnClosing(t, call[t].size)

(* Mutant: the connection is forgotten when the read failed.               *)
GetReturnForgetful(t) ==
  /\ pc[t] = "check" /\ call[t].op = "get"
  /\ IF ret[t] # 0 THEN ReturnLeaking(t, AsInt(Minus(ret[t])))
                   ELSE ReturnClosing(t, resp[t].bytes)

(* get_customer_data closes on every path; the buffer for the bytes read   *)
(* may not be allocated.                                                   *)
GetReturn(t) ==
  /\ pc[t] = "check" /\ call[t].op = "get"
  /\ IF ret[t] # 0 THEN ReturnClosing(t, AsInt(Minus(ret[t])))
     ELSE IF resp[t].status \notin {0, WriteOnly}
          THEN ReturnClosing(t, AsInt(Minus(resp[t].status)))
          ELSE \/ ReturnClosing(t, resp[t].bytes)
               \/ "alloc" \in Faults /\ ReturnClosing(t, NoMemory)

(* Mutant: the return value of process_cmd is ignored.                     *)
ProvReturnUnread(t) ==
  /\ pc[t] = "check" /\ call[t].op = "prov"
  /\ IF resp[t].status # 0
     THEN ReturnLeaking(t, AsInt(Minus(resp[t].status)))
     ELSE ReturnClosing(t, 0)

ProvReturn(t) ==
  /\ pc[t] = "check" /\ call[t].op = "prov"
  /\ IF ret[t] # 0 THEN ReturnLeaking(t, AsInt(Minus(ret[t])))
     ELSE IF resp[t].status # 0
          THEN ReturnLeaking(t, AsInt(Minus(resp[t].status)))
     ELSE IF resp[t].bytes = 0 THEN ReturnClosing(t, 0)
     ELSE IF ~call[t].out THEN ReturnLeaking(t, Illegal)
     ELSE \/ ReturnClosing(t, 0)
          \/ "alloc" \in Faults /\ ReturnLeaking(t, NoMemory)

-----------------------------------------------------------------------------
(* The firmware (external): it takes the commands of all connections in    *)
(* any order, also those nobody waits for any more.                        *)

(* The answers to a command that is carried out; a field that is           *)
(* write-only is answered with a status of its own.                        *)
Answers(c) ==
  {r \in [status : {0, WriteOnly}, bytes : Returns(acd, c)] :
     r.status = 0 <=> ~(c.op = "get" /\ r.bytes = 0)}

(* A reply of no bytes, where the environment has them.                    *)
Mute == IF "empty" \in Faults THEN {EmptyRead} ELSE {}

(* Whose call travels on descriptor f of process p: nobody's once its      *)
(* thread made another call.                                               *)
Waiting(p, f) == {t \in Thread : ProcOf[t] = p /\ fd[t] = f}

FwAccepts(p, f) ==
  \E c \in link[p][f].req :
    /\ CanAccept(acd, c)
    /\ acd' = Accept(acd, c)
    /\ \E r \in Answers(c) \cup Mute : MeiAnswer(p, f, r)
    /\ fate' = [t \in Thread |-> IF t \in Waiting(p, f) THEN "done" ELSE fate[t]]
    /\ UNCHANGED <<pc, ret, resp, call, result>>

FwRefuses(p, f) ==
  \E c \in link[p][f].req :
    /\ \E r \in [status : FwError, bytes : {0}] \cup Mute : MeiAnswer(p, f, r)
    /\ fate' = [t \in Thread |-> IF t \in Waiting(p, f) THEN "refused" ELSE fate[t]]
    /\ UNCHANGED <<pc, ret, resp, call, result, acd>>

FwStep(p, f) == FwAccepts(p, f) \/ FwRefuses(p, f)

-----------------------------------------------------------------------------
Return(t) ==
  \/ GetReject(t)
  \/ LockReturn(t)
  \/ SetReturn(t)
  \/ GetReturn(t)
  \/ ProvReturn(t)

(* The steps of a call once it has begun.                                  *)
CallStep(t) ==
  \/ Connect(t)
  \/ ConnectFails(t)
  \/ Process_cmd(t)
  \/ Return(t)

Next ==
  \/ \E t \in Thread : Begin(t) \/ Reject(t) \/ CallStep(t)
  \/ \E p \in Process, f \in Fd : FwStep(p, f)

Spec == Init /\ [][Next]_vars

(* Scheduling: a thread that can go on does, with one exception: nobody    *)
(* expects a blocked read() to fail.  The firmware gets to every command.  *)
CanGoOn(t) == pc[t] = "recv" /\ fd[t] > 0 => MeiReadable(t)

Fairness ==
  /\ \A t \in Thread : WF_vars(CanGoOn(t) /\ CallStep(t))
  /\ \A p \in Process, f \in Fd : WF_vars(FwStep(p, f))

LiveSpec == Spec /\ Fairness

-----------------------------------------------------------------------------
TypeOK ==
  /\ TxeiTypeOK(Calls, Rsp)
  /\ pc \in [Thread -> Places]
  /\ ret \in [Thread -> {TEE_SUCCESSFUL, TEE_FAILURE}]
  /\ resp \in [Thread -> Rsp]
  /\ call \in [Thread -> Calls \cup {NoCall}]
  /\ result \in [Thread -> Int]
  /\ acd \in Table
  /\ fate \in [Thread -> {"none", "done", "refused"}]

(* What each call documents as success (umip_access.h:160-226), with the   *)
(* size that set_customer_data really returns.                             *)
Succeeded(t) ==
  \/ call[t].op \in {"lock", "wipe", "prov"} /\ result[t] = 0
  \/ call[t].op = "set" /\ result[t] = call[t].size /\ result[t] \in 2 .. MaxData

Returned(t) == pc[t] = "idle" /\ call[t] # NoCall

(* A connection outlives its call only when the call failed: never after   *)
(* get_customer_data, whose exits all pass through acd_deinit, and never   *)
(* after a success of the others, whose error exits drop the handle.       *)
LeakOnlyOnFailure ==
  \A t \in Thread :
    Returned(t) /\ fd[t] # NoFd => call[t].op # "get" /\ ~Succeeded(t)

(* A negative int from set_customer_data or provision_customer_data is     *)
(* final: the firmware did not carry the command out, and no copy of it is *)
(* left on an abandoned connection to be carried out later.  The caller    *)
(* may repeat the call.                                                    *)
NegativeIsFinal ==
  \A t \in Thread :
    Returned(t) /\ call[t].op \in {"set", "prov"} /\ result[t] < 0 =>
      /\ fate[t] # "done"
      /\ fd[t] # NoFd => LinkOf(t).req = {}

(* A reply of no bytes is taken for an answer, whatever the firmware did.  *)
Answered(f) == f = "done" \/ (f = "refused" /\ "empty" \in Faults)

(* The answer may stay unread: read() fails, or the descriptor is 0.       *)
Unreadable(t) == "read" \in Faults \/ ProcOf[t] \in NoStdin

(* What int v from call c of thread t says of the fate f of its command.   *)
(* For set, get and provision 1 is a failed read, whatever else it is.     *)
Tells(t, c, v, f) ==
  IF EarlyError(c) # 0 THEN v = EarlyError(c) /\ f = "none"
  ELSE \/ v = -1 /\ f = "none"
       \/ /\ c.op \in {"lock", "wipe"}
          /\ \/ v = 0 /\ f # "none"
             \/ v = -1 /\ Unreadable(t)
       \/ /\ c.op \in {"set", "get", "prov"}
          /\ \/ v = 1 /\ Unreadable(t)
             \/ -v \in FwError /\ f = "refused"
       \/ c.op = "set" /\ v = c.size /\ Answered(f)
       \/ /\ c.op = "get"
          /\ \/ v = Illegal /\ GetError(c) # 0 /\ f = "none"
             \/ v \in {0, NoMemory} /\ Answered(f)
             \/ v \in 1 .. MaxData /\ f = "done"
       \/ /\ c.op = "prov"
          /\ \/ v = 0 /\ Answered(f)
             \/ v = Illegal /\ ~c.out /\ f = "done"
             \/ v = NoMemory /\ f = "done"

(* Every int a call returns says what Tells makes of it: in particular the *)
(* size from set_customer_data and 0 from provision_customer_data mean     *)
(* that the command was carried out, unless replies may have no bytes.     *)
(* Only the returns of a failed read leave a command to be carried out.    *)
ReturnTells ==
  \A t \in Thread :
    Returned(t) =>
      /\ Tells(t, call[t], result[t], fate[t])
      /\ fd[t] # NoFd /\ LinkOf(t).req # {} =>
           Unreadable(t) /\ result[t] = IF call[t].op \in {"lock", "wipe"} THEN -1 ELSE 1

(* process_cmd goes on to a blocking read although the write failed: only  *)
(* then can a call wait for an answer that nobody will send.               *)
NoHang == "write" \notin Faults => \A t \in Thread : ~Hung(t)

(* Every call returns, or is blocked as described by NoHang.               *)
CallsReturn == \A t \in Thread : pc[t] # "idle" ~> (pc[t] = "idle" \/ Hung(t))

-----------------------------------------------------------------------------
(* Why the invariants above hold: where a thread is determines what is on  *)
(* its connection.                                                         *)

(* An answer says what the firmware did.                                   *)
Truthful(t, r) ==
  /\ fate[t] = "done" => r.status \in {0, WriteOnly, -1}
  /\ r.status = WriteOnly => call[t].op = "get"
  /\ fate[t] = "refused" => r.status \in FwError \cup {-1}
  /\ r.status = -1 => r = EmptyRead /\ "empty" \in Faults

(* No command was sent; it was sent and is not answered, or its answer is  *)
(* not read; its answer was read.                                          *)
Unsent(t) == LinkOf(t) = NoTraffic /\ fate[t] = "none"

InFlight(t) ==
  \/ LinkOf(t) = [req |-> {call[t]}, rsp |-> {}] /\ fate[t] = "none"
  \/ /\ fate[t] # "none"
     /\ \E r \in Rsp : LinkOf(t) = [req |-> {}, rsp |-> {r}] /\ Truthful(t, r)

Taken(t) ==
  /\ LinkOf(t) = NoTraffic
  /\ fate[t] # "none"
  /\ resp[t].status # -1
  /\ \/ Truthful(t, resp[t])
     \/ resp[t] = ClearResp /\ "empty" \in Faults

InCall(t) == pc[t] # "idle" => call[t] \in Calls /\ EarlyError(call[t]) = 0

OnConnection(t) ==
  /\ fd[t] = 0 => ProcOf[t] \in NoStdin
  /\ pc[t] = "connect" => fd[t] = NoFd /\ fate[t] = "none"
  /\ pc[t] \in {"send", "select", "recv", "check"} => fd[t] # NoFd
  /\ pc[t] \in {"send", "select", "recv"} => resp[t] = ClearResp
  /\ pc[t] = "send" => Unsent(t)
  /\ pc[t] = "select" => fd[t] > 0 /\ InFlight(t)
  /\ pc[t] = "recv" =>
       \/ fd[t] > 0 /\ InFlight(t)
       \/ (fd[t] <= 0 \/ "write" \in Faults) /\ Unsent(t)
  /\ pc[t] = "check" =>
       \/ ret[t] = TEE_FAILURE /\ Unreadable(t) /\ (InFlight(t) \/ Unsent(t))
       \/ ret[t] = TEE_SUCCESSFUL /\ Taken(t)

(* Only calls whose arguments passed the checks are ever sent.             *)
LegalRequests ==
  \A p \in Process, f \in Fd : \A c \in link[p][f].req : EarlyError(c) = 0

(* The inductive invariant: a thread's place fixes the traffic on its      *)
(* connection, and what it has been told fits what the firmware did.       *)
IInv ==
  /\ TypeOK
  /\ LegalRequests
  /\ HandlesExclusive
  /\ \A t \in Thread : InCall(t) /\ OnConnection(t)
  /\ LeakOnlyOnFailure
  /\ NegativeIsFinal
  /\ ReturnTells

-----------------------------------------------------------------------------
(* UmipAccess implements AcdService: how the ints that the code returns    *)
(* are to be read for that.  1 is what a failed read turns into, and 0     *)
(* from lock and wipe is no more than "an answer came"; success of set and *)
(* provision means nothing where reads may return no bytes.                *)
VerdictOf(c, v) ==
  CASE \/ c.op = "set" /\ v = c.size /\ v \in 2 .. MaxData /\ "empty" \notin Faults
       \/ c.op = "prov" /\ v = 0 /\ "empty" \notin Faults ->
         [kind |-> "ok", data |-> 0]
    [] c.op = "get"  /\ v \in 2 .. MaxData  -> [kind |-> "ok", data |-> v]
    [] c.op \in {"set", "get", "prov"} /\ v < 0 -> [kind |-> "no", data |-> 0]
    [] OTHER -> [kind |-> "unknown", data |-> 0]

Stage(t) ==
  IF pc[t] = "idle" THEN "idle" ELSE IF fate[t] = "none" THEN "pending" ELSE fate[t]

(* The data returned to a command under way: in its answer, read or not.   *)
Got(t) ==
  IF pc[t] = "idle" \/ fate[t] # "done" THEN 0
  ELSE IF MeiReadable(t) THEN (CHOOSE r \in LinkOf(t).rsp : TRUE).bytes
  ELSE resp[t].bytes

(* The commands left on connections whose call is over.                    *)
Limbo ==
  LET abandoned == {x \in Process \X Fd : \A t \in Waiting(x[1], x[2]) : pc[t] = "idle"}
  IN  UNION {link[x[1]][x[2]].req : x \in abandoned}

(* The verdict on the latest call: none while it is under way.             *)
VerdictFor(t) ==
  IF pc[t] = "idle" THEN VerdictOf(call[t], result[t])
                    ELSE [kind |-> "unknown", data |-> 0]

StageMap   == [t \in Thread |-> Stage(t)]
GotMap     == [t \in Thread |-> Got(t)]
VerdictMap == [t \in Thread |-> VerdictFor(t)]

Service == INSTANCE AcdService WITH
  stage <- StageMap, got <- GotMap, verdict <- VerdictMap, limbo <- Limbo

(* Whatever the threads, the connections and the firmware do, the library  *)
(* behaves as AcdService promises.                                         *)
ImplementsService == Service!Spec

-----------------------------------------------------------------------------
(* lock_customer_data "returns: 0 on success; negative value on failure"   *)
(* (umip_access.h:162).                                                    *)
LockFailureIsNegative ==
  \A t \in Thread :
    Returned(t) /\ call[t].op = "lock" /\ fate[t] # "done" => result[t] < 0

(* set_customer_data "returns: 0 on success; negative value on failure"    *)
(* (umip_access.h:199).                                                    *)
SetFailureIsNegative ==
  \A t \in Thread :
    Returned(t) /\ call[t].op = "set" /\ fate[t] # "done" => result[t] < 0

=============================================================================
