--------------------------------- MODULE Ipt ---------------------------------
(***************************************************************************)
(* libipt (Lib/IPT_OTP/libipt/src): commands to the IPT applet of the      *)
(* firmware.  The calls come in three kinds that the code treats alike:    *)
(*                                                                         *)
(*   ipt   ipt_send_message                                                *)
(*   msg   mvsepfw_sendmessage                                             *)
(*   ctl   mvsepfw_initialize, _deinitialize, _connect and _disconnect     *)
(*                                                                         *)
(* Every call opens a connection of its own, but the request it sends and  *)
(* the answer it reads are the globals g_req_param and g_resp_param, which *)
(* all threads of a process fill and read without a lock: each statement   *)
(* that touches one of them is a step.                                     *)
(***************************************************************************)
EXTENDS Txei

CONSTANTS
  Uses,      (* Uses[t]: the kinds of calls thread t makes                 *)
  FwError,   (* the status codes the applet refuses a command with         *)
  None,      (* a zeroed field                                             *)
  Caller     (* what the caller left in its own out_data, out_data_length  *)

Kind == {"ipt", "msg", "ctl"}

VARIABLES
  pc,      (* pc[t]: where thread t is                                     *)
  kind,    (* kind[t]: the kind of its latest call, None before the first  *)
  ret,     (* ret[t]: the local ret, and in the end the result             *)
  out,     (* out[t]: its out_data and *out_data_length                    *)
  req,     (* req[p]: g_req_param in process p                             *)
  rsp,     (* rsp[p]: g_resp_param in process p                            *)
  fate,    (* fate[t]: what the firmware did about the call (history)      *)
  alone    (* alone[t]: no call of its process overlapped (history)        *)

vars == <<txeiVars, pc, kind, ret, out, req, rsp, fate, alone>>

(* A message and an answer, field by field.  A length or a text in a       *)
(* message stands for whose it is; in an answer, for the message that it   *)
(* answers.                                                                *)
Msg      == [cmd : Kind \cup {None}, len : Thread \cup {None}, data : Thread \cup {None}]
Answered == Msg \cup {None, Caller}
Rsp      == [status : FwError \cup {0}, len : Answered, data : Answered]

ZeroReq == [cmd |-> None, len |-> None, data |-> None]
ZeroRsp == [status |-> 0, len |-> None, data |-> None]

(* What a read without bytes finds.                                        *)
NoBytes == [status |-> None, len |-> None, data |-> None]
Answer  == Rsp \cup {NoBytes}

IPT_SUCCESS   == 0
INVALID_PARAM == 1
NULL_PARAM    == 2
TEE_FAILURE   == -1   (* 0xFFFFFFFF                                        *)

(* The codes of the argument checks.  The applet's own status codes share  *)
(* their numbers: the headers list the same enumeration for both.          *)
ArgError == [ipt |-> {NULL_PARAM, INVALID_PARAM}, msg |-> {INVALID_PARAM}, ctl |-> {}]

ASSUME IptAssumption ==
  /\ Uses \in [Thread -> SUBSET Kind]
  /\ FwError \subseteq Int \ {0}
  /\ None \notin Thread \cup Kind \cup Msg /\ None \notin Int
  /\ Caller \notin Msg \cup {None}

Places == {"idle", "connect", "clearReq", "clearRsp", "cmd", "status", "len", "data",
           "room", "send", "select", "recv", "check", "copyLen", "copyData", "close"}

Init ==
  /\ TxeiInit
  /\ pc = [t \in Thread |-> "idle"]
  /\ kind = [t \in Thread |-> None]
  /\ ret = [t \in Thread |-> IPT_SUCCESS]
  /\ out = [t \in Thread |-> [len |-> Caller, data |-> Caller]]
  /\ req = [p \in Process |-> ZeroReq]
  /\ rsp = [p \in Process |-> ZeroRsp]
  /\ fate = [t \in Thread |-> "none"]
  /\ alone = [t \in Thread |-> TRUE]

Peers(t) == {u \in Thread \ {t} : ProcOf[u] = ProcOf[t]}

(* The message thread t means to send.                                     *)
Own(t) ==
  LET mine == IF kind[t] = "ctl" THEN None ELSE t
  IN  [cmd |-> kind[t], len |-> mine, data |-> mine]

Req(t) == req[ProcOf[t]]
Resp(t) == rsp[ProcOf[t]]

Goto(t, here, there) == pc[t] = here /\ pc' = [pc EXCEPT ![t] = there]

-----------------------------------------------------------------------------
(* A call with legal arguments.  mvsepfw_sendmessage clears the caller's   *)
(* buffer at once.                                                         *)
Begin(t, k) ==
  /\ Goto(t, "idle", "connect")
  /\ kind' = [kind EXCEPT ![t] = k]
  /\ out' = [out EXCEPT ![t] = [len |-> Caller, data |-> IF k = "msg" THEN None ELSE Caller]]
  /\ fate' = [fate EXCEPT ![t] = "none"]
  /\ alone' = [u \in Thread |->
                 IF u = t THEN \A v \in Peers(t) : pc[v] = "idle"
                          ELSE alone[u] /\ (u \in Peers(t) => pc[u] = "idle")]
  /\ UNCHANGED <<txeiVars, ret, req, rsp>>

(* Illegal arguments; a message that is too long is found out after the    *)
(* caller's buffer was cleared.                                            *)
Reject(t, k) ==
  /\ pc[t] = "idle"
  /\ kind' = [kind EXCEPT ![t] = k]
  /\ \E e \in ArgError[k] : ret' = [ret EXCEPT ![t] = e]
  /\ \E b \in IF k = "msg" THEN {Caller, None} ELSE {Caller} :
       out' = [out EXCEPT ![t] = [len |-> Caller, data |-> b]]
  /\ fate' = [fate EXCEPT ![t] = "none"]
  /\ alone' = [alone EXCEPT ![t] = TRUE]
  /\ UNCHANGED <<txeiVars, pc, req, rsp>>

(* ipt_tee_intf_init; ipt_send_message clears the caller's buffer now.     *)
Connect(t) ==
  /\ Goto(t, "connect", "clearReq")
  /\ MeiConnect(t)
  /\ out' = IF kind[t] = "ipt" THEN [out EXCEPT ![t].data = None] ELSE out
  /\ UNCHANGED <<kind, ret, req, rsp, fate, alone>>

(* Mutant: the errno of mei_connect is returned.                           *)
ConnectFailsErrno(t) ==
  /\ Goto(t, "connect", "idle")
  /\ MeiConnectFails(t)
  /\ ret' = [ret EXCEPT ![t] = -12]
  /\ UNCHANGED <<kind, out, req, rsp, fate, alone>>

ConnectFails(t) ==
  /\ Goto(t, "connect", "idle")
  /\ MeiConnectFails(t)
  /\ ret' = [ret EXCEPT ![t] = TEE_FAILURE]
  /\ UNCHANGED <<kind, out, req, rsp, fate, alone>>

-----------------------------------------------------------------------------
(* The statements that prepare the globals.                                *)
SetReq(t, r) ==
  /\ req' = [req EXCEPT ![ProcOf[t]] = r]
  /\ UNCHANGED <<txeiVars, kind, ret, out, rsp, fate, alone>>

SetRsp(t, r) ==
  /\ rsp' = [rsp EXCEPT ![ProcOf[t]] = r]
  /\ UNCHANGED <<txeiVars, kind, ret, out, req, fate, alone>>

(* memset(&g_req_param, 0, sizeof(g_req_param));                           *)
ClearReq(t) == Goto(t, "clearReq", "clearRsp") /\ SetReq(t, ZeroReq)

(* Mutant: the answer buffer is not cleared.                               *)
ClearRspOmitted(t) == Goto(t, "clearRsp", "cmd") /\ SetRsp(t, Resp(t))

(* memset(&g_resp_param, 0, sizeof(g_resp_param));                         *)
ClearRsp(t) == Goto(t, "clearRsp", "cmd") /\ SetRsp(t, ZeroRsp)

(* g_req_param.header.cmd_id = cmd_id;                                     *)
FillCmd(t) ==
  /\ Goto(t, "cmd", IF kind[t] = "ipt" THEN "len" ELSE "status")
  /\ SetReq(t, [Req(t) EXCEPT !.cmd = kind[t]])

(* mvfw_cmd: g_resp_param.header.status = MVFW_SUCCESS;                    *)
FillStatus(t) ==
  /\ Goto(t, "status", IF kind[t] = "msg" THEN "len" ELSE "send")
  /\ SetRsp(t, [Resp(t) EXCEPT !.status = IPT_SUCCESS])

(* The lengths go into the request ...                                     *)
FillLen(t) ==
  /\ Goto(t, "len", "data")
  /\ SetReq(t, [Req(t) EXCEPT !.len = t])

(* Mutant: the text is copied before the request is cleared.               *)
FillDataLost(t) ==
  /\ Goto(t, "data", IF kind[t] = "msg" THEN "room" ELSE "send")
  /\ SetReq(t, Req(t))

(* ... then the text: memcpy(g_req_param.in_data, in_data, ...);           *)
FillData(t) ==
  /\ Goto(t, "data", IF kind[t] = "msg" THEN "room" ELSE "send")
  /\ SetReq(t, [Req(t) EXCEPT !.data = t])

(* mvfw_cmd: g_resp_param.out_data_length = *out_data_length;              *)
FillRoom(t) ==
  /\ Goto(t, "room", "send")
  /\ SetRsp(t, [Resp(t) EXCEPT !.len = Caller])

Prepare(t) ==
  \/ ClearReq(t)
  \/ ClearRsp(t)
  \/ FillCmd(t)
  \/ FillStatus(t)
  \/ FillLen(t)
  \/ FillData(t)
  \/ FillRoom(t)

-----------------------------------------------------------------------------
(* process_cmd, as in TeeIf, but on the globals.                           *)

(* What is in g_req_param by now is written.                               *)
SendCmd(t) ==
  /\ Goto(t, "send", "select")
  /\ MeiWrite(t, Req(t))
  /\ UNCHANGED <<kind, ret, out, req, rsp, fate, alone>>

SendCmdFails(t) ==
  /\ Goto(t, "send", "recv")
  /\ MeiWriteFails(t)
  /\ UNCHANGED <<kind, ret, out, req, rsp, fate, alone>>

(* select ends, with or without an answer to be read: recv_cmd follows.    *)
SelectEnds(t) ==
  /\ Goto(t, "select", "recv")
  /\ UNCHANGED <<txeiVars, kind, ret, out, req, rsp, fate, alone>>

RecvCmd(t) ==
  /\ Goto(t, "recv", "check")
  /\ \E r \in LinkOf(t).rsp :
       /\ MeiRead(t, r)
       /\ rsp' = IF r = NoBytes THEN rsp ELSE [rsp EXCEPT ![ProcOf[t]] = r]
  /\ UNCHANGED <<kind, ret, out, req, fate, alone>>

(* Mutant: the error exit does not pass through ipt_tee_intf_deinit.       *)
RecvCmdLeaking(t) ==
  /\ Goto(t, "recv", "idle")
  /\ MeiReadFails(t)
  /\ ret' = [ret EXCEPT ![t] = TEE_FAILURE]
  /\ UNCHANGED <<kind, out, req, rsp, fate, alone>>

RecvCmdFails(t) ==
  /\ Goto(t, "recv", "close")
  /\ MeiReadFails(t)
  /\ ret' = [ret EXCEPT ![t] = TEE_FAILURE]
  /\ UNCHANGED <<kind, out, req, rsp, fate, alone>>

ProcessCmd(t) ==
  \/ SendCmd(t)
  \/ SendCmdFails(t)
  \/ SelectEnds(t)
  \/ RecvCmd(t)
  \/ RecvCmdFails(t)

-----------------------------------------------------------------------------
(* Mutant: the status in the answer is not looked at.                      *)
CheckUnread(t) ==
  /\ Goto(t, "check", IF kind[t] = "ctl" THEN "close" ELSE "copyLen")
  /\ ret' = [ret EXCEPT ![t] = IPT_SUCCESS]
  /\ UNCHANGED <<txeiVars, kind, out, req, rsp, fate, alone>>

(* ret = g_resp_param.header.status;                                       *)
Check(t) ==
  /\ Goto(t, "check", IF kind[t] = "ctl" \/ Resp(t).status # IPT_SUCCESS
                      THEN "close" ELSE "copyLen")
  /\ ret' = [ret EXCEPT ![t] = Resp(t).status]
  /\ UNCHANGED <<txeiVars, kind, out, req, rsp, fate, alone>>

(* *out_data_length = g_resp_param.out_data_length;                        *)
CopyLen(t) ==
  /\ Goto(t, "copyLen", "copyData")
  /\ out' = [out EXCEPT ![t].len = Resp(t).len]
  /\ UNCHANGED <<txeiVars, kind, ret, req, rsp, fate, alone>>

(* if (g_resp_param.out_data_length != 0) memcpy(out_data, ...);           *)
CopyData(t) ==
  /\ Goto(t, "copyData", "close")
  /\ out' = IF Resp(t).len = None THEN out ELSE [out EXCEPT ![t].data = Resp(t).data]
  /\ UNCHANGED <<txeiVars, kind, ret, req, rsp, fate, alone>>

(* ipt_tee_intf_deinit, which always succeeds; ipt_send_message returns    *)
(* what that returned, the others ret.                                     *)
Close(t) ==
  /\ Goto(t, "close", "idle")
  /\ MeiDisconnect(t)
  /\ ret' = IF kind[t] = "ipt" THEN [ret EXCEPT ![t] = IPT_SUCCESS] ELSE ret
  /\ UNCHANGED <<kind, out, req, rsp, fate, alone>>

-----------------------------------------------------------------------------
(* The applet (external) carries a command out or refuses it; its reply    *)
(* may have no bytes where the environment has such reads.                 *)
Answers(m) ==
  {[status |-> 0, len |-> x, data |-> x] : x \in IF m.cmd = "ctl" THEN {None} ELSE {None, m}}

Refusals == {[status |-> e, len |-> None, data |-> None] : e \in FwError}

FwReplies(p, f, r, what) ==
  /\ MeiAnswer(p, f, r)
  /\ fate' = [t \in Thread |-> IF ProcOf[t] = p /\ fd[t] = f THEN what ELSE fate[t]]
  /\ UNCHANGED <<pc, kind, ret, out, req, rsp, alone>>

FwStep(p, f) ==
  \E m \in link[p][f].req :
    \/ \E r \in Answers(m) : FwReplies(p, f, r, "done")
    \/ \E r \in Refusals : FwReplies(p, f, r, "refused")
    \/ "empty" \in Faults /\ FwReplies(p, f, NoBytes, "mute")

Next ==
  \/ \E t \in Thread :
       \/ \E k \in Uses[t] : Begin(t, k) \/ Reject(t, k)
       \/ Connect(t)
       \/ ConnectFails(t)
       \/ Prepare(t)
       \/ ProcessCmd(t)
       \/ Check(t)
       \/ CopyLen(t)
       \/ CopyData(t)
       \/ Close(t)
  \/ \E p \in Process, f \in Fd : FwStep(p, f)

Spec == Init /\ [][Next]_vars

-----------------------------------------------------------------------------
TypeOK ==
  /\ TxeiTypeOK(Msg, Answer)
  /\ pc \in [Thread -> Places]
  /\ kind \in [Thread -> Kind \cup {None}]
  /\ ret \in [Thread -> FwError \cup {IPT_SUCCESS, TEE_FAILURE, INVALID_PARAM, NULL_PARAM}]
  /\ out \in [Thread -> [len : Answered, data : Answered]]
  /\ req \in [Process -> Msg]
  /\ rsp \in [Process -> Rsp]
  /\ fate \in [Thread -> {"none", "done", "refused", "mute"}]
  /\ alone \in [Thread -> BOOLEAN]

Ended(t) == pc[t] = "idle" /\ kind[t] # None

(* No connection outlives its call, whichever way the call ends: what a    *)
(* process has open is exactly what its calls under way work on.           *)
ConnectionsClosed ==
  /\ \A t \in Thread : pc[t] = "idle" => fd[t] = NoFd
  /\ \A p \in Process : \A f \in files[p] : \E t \in Thread : ProcOf[t] = p /\ fd[t] = f

(* A call that no other call of its process overlapped with gets the       *)
(* answer to its own message or none, with the length of that answer, and  *)
(* nothing from an answer that was read before.                            *)
OwnAnswer ==
  \A t \in Thread :
    Ended(t) /\ alone[t] =>
      /\ out[t].data \in {Caller, None, Own(t)}
      /\ out[t].len = Own(t) <=> out[t].data = Own(t)
      /\ out[t].data = Own(t) => fate[t] = "done"

(* What the status that an MVFW command returns, when nobody overlaps with *)
(* it, says of the applet's decision d: success, that the applet did not   *)
(* refuse; any other code, unless it is TEE_FAILURE, that the command was  *)
(* not carried out; and that the applet refused it if the library has no   *)
(* such code of its own.                                                   *)
Tells(t, d) ==
  /\ ret[t] = IPT_SUCCESS => d \in {"done", "mute"}
  /\ ret[t] \notin {IPT_SUCCESS, TEE_FAILURE} => d \in {"none", "refused"}
  /\ ret[t] \notin {IPT_SUCCESS, TEE_FAILURE} \cup ArgError[kind[t]] => d = "refused"

(* What the status of an MVFW command says is what the applet did with it: *)
(* a success was not refused, and a call that returns an error other than  *)
(* TEE_FAILURE changed nothing and may be repeated.  It cannot say more:   *)
(* the applet has the codes of the argument checks too.                    *)
StatusIsOwn ==
  \A t \in Thread :
    Ended(t) /\ alone[t] /\ kind[t] # "ipt" => Tells(t, fate[t])

-----------------------------------------------------------------------------
(* Ipt implements Exchange: what the end of a call tells the caller.       *)

(* Whatever fails later, ipt_send_message returns what the deinit does: it *)
(* returns an error only if nothing was sent.                              *)
Unheard(t) == kind[t] = "ipt" /\ ret[t] # IPT_SUCCESS

(* Decision d is not at odds with what the call of t returned: output is   *)
(* of a command that was carried out, and the status of an MVFW command    *)
(* tells of d, unless calls overlapped.                                    *)
Compatible(t, d) ==
  /\ Unheard(t) => d = "none"
  /\ alone[t] =>
       /\ out[t].data = Own(t) => d = "done"
       /\ kind[t] # "ipt" => Tells(t, d)

Fates == {"done", "refused", "mute"}

Learnt(t) == {d \in Fates \cup {"none"} : Ended(t) => Compatible(t, d)}

Busy    == {t \in Thread : pc[t] # "idle"}
ToldMap == [t \in Thread |-> Learnt(t)]

Commands == INSTANCE Exchange WITH
  Caller <- Thread, Decision <- Fates, Undecided <- "none",
  busy <- Busy, decided <- fate, told <- ToldMap

(* Even where threads overwrite each other's messages, the applet decides  *)
(* once at most about what a call has sent, before the call returns, and   *)
(* what the call returns is not at odds with that.                         *)
ImplementsExchange == Commands!Spec

-----------------------------------------------------------------------------
(* Why they hold: what the globals and the connection of a call are, place *)
(* by place, when nobody overlaps with it.                                 *)
Secluded(t) ==
  alone[t] /\ pc[t] # "idle" => \A u \in Peers(t) : pc[u] = "idle"

(* g_resp_param as it is before the read.                                  *)
Blank(t) == [ZeroRsp EXCEPT !.len = IF kind[t] = "msg" THEN Caller ELSE None]

(* Answer r says what became of the call.                                  *)
Truthful(t, r) ==
  \/ fate[t] = "done" /\ r \in {ZeroRsp, [status |-> 0, len |-> Own(t), data |-> Own(t)]}
  \/ fate[t] = "refused" /\ r \in Refusals

(* Nothing was sent; or the message waits, or its answer.                  *)
Unsent(t) == LinkOf(t) = NoTraffic /\ fate[t] = "none"

InFlight(t) ==
  \/ LinkOf(t) = [req |-> {Own(t)}, rsp |-> {}] /\ fate[t] = "none"
  \/ \E r \in Answer :
       /\ LinkOf(t) = [req |-> {}, rsp |-> {r}]
       /\ Truthful(t, r) \/ (fate[t] = "mute" /\ r = NoBytes)

(* g_req_param and g_resp_param.                                           *)
Globals(t) ==
  /\ pc[t] = "clearRsp" => Req(t) = ZeroReq
  /\ pc[t] \in {"cmd", "status", "len", "data", "room"} => Resp(t) = ZeroRsp
  /\ pc[t] = "cmd" => Req(t) = ZeroReq
  /\ pc[t] \in {"status", "len"} => Req(t) = [cmd |-> kind[t], len |-> None, data |-> None]
  /\ pc[t] = "data" => Req(t) = [cmd |-> kind[t], len |-> t, data |-> None]
  /\ pc[t] \in {"room", "send"} => Req(t) = Own(t)
  /\ pc[t] \in {"send", "select", "recv"} => Resp(t) = Blank(t)
  /\ pc[t] \in {"check", "copyLen", "copyData"} =>
       Truthful(t, Resp(t)) \/ (fate[t] = "mute" /\ Resp(t) = Blank(t))
  /\ pc[t] \in {"copyLen", "copyData"} => Resp(t).status = 0
  /\ pc[t] = "copyData" => out[t].len = Resp(t).len

(* The connection.                                                         *)
Traffic(t) ==
  /\ pc[t] \in {"connect", "clearReq", "clearRsp", "cmd", "status", "len", "data", "room"} =>
       fate[t] = "none"
  /\ pc[t] \in {"clearReq", "clearRsp", "cmd", "status", "len", "data", "room", "send"} =>
       Unsent(t)
  /\ pc[t] = "select" => InFlight(t)
  /\ pc[t] = "recv" => Unsent(t) \/ InFlight(t)
  /\ pc[t] \in {"check", "copyLen", "copyData"} => LinkOf(t) = NoTraffic
  /\ pc[t] = "close" => \/ LinkOf(t).req = {}
                        \/ ret[t] = TEE_FAILURE /\ out[t].data # Own(t)

(* The caller's buffer and the result.                                     *)
Told(t) ==
  /\ pc[t] \notin {"idle", "copyData", "close"} =>
       out[t].len = Caller /\ out[t].data \in {Caller, None}
  /\ \/ pc[t] \notin {"idle", "connect"} /\ kind[t] # "ctl"
     \/ pc[t] = "connect" /\ kind[t] = "msg"
     => out[t].data # Caller
  /\ pc[t] = "copyData" => out[t].data \in {Caller, None}
  /\ pc[t] \in {"copyLen", "copyData"} => kind[t] # "ctl" /\ ret[t] = IPT_SUCCESS
  /\ pc[t] \in {"idle", "close"} /\ kind[t] # None =>
       /\ out[t].data \in {Caller, None, Own(t)}
       /\ out[t].len = Own(t) <=> out[t].data = Own(t)
       /\ out[t].data = Own(t) => fate[t] = "done"
       /\ kind[t] # "ipt" => Tells(t, fate[t])

(* A thread has a connection from its connect to its close.                *)
Connected(t) ==
  /\ pc[t] \in {"idle", "connect"} <=> fd[t] = NoFd
  /\ pc[t] # "idle" => kind[t] # None
  /\ pc[t] \in {"status"} => kind[t] # "ipt"
  /\ pc[t] \in {"len", "data"} => kind[t] # "ctl"
  /\ pc[t] = "room" => kind[t] = "msg"

(* What is known of a call whoever overlaps with it: the firmware has      *)
(* decided nothing before the one write of the call, nor while a message   *)
(* waits on its connection, and nothing at all of an ipt_send_message that *)
(* returns an error.                                                       *)
Undecided(t) ==
  \/ pc[t] = "idle" /\ kind[t] # None /\ Unheard(t)
  \/ pc[t] \in {"connect", "clearReq", "clearRsp", "cmd", "status", "len", "data", "room", "send"}
  \/ pc[t] \notin {"idle", "connect"} /\ LinkOf(t).req # {}

Fated(t) ==
  /\ Undecided(t) => fate[t] = "none"
  /\ pc[t] \in {"clearReq", "clearRsp", "cmd", "status", "len", "data", "room", "send"} =>
       LinkOf(t) = NoTraffic

Core ==
  /\ TypeOK
  /\ HandlesExclusive
  /\ ConnectionsClosed
  /\ \A t \in Thread : Connected(t) /\ Secluded(t)
  /\ \A t \in Thread : alone[t] => Globals(t) /\ Traffic(t) /\ Told(t)

(* The inductive invariant.                                                *)
IInv == Core /\ \A t \in Thread : Fated(t)

-----------------------------------------------------------------------------
(* "The return status from the firmware is carried back in                 *)
(* g_resp_param.header" (mvfw_api.c:119): an MVFW command that returns     *)
(* success was not refused.                                                *)
StatusIsCarriedBack ==
  \A t \in Thread :
    Ended(t) /\ kind[t] # "ipt" /\ ret[t] = IPT_SUCCESS => fate[t] # "refused"

=============================================================================
