----------------------------- MODULE KeyDevice -----------------------------
(***************************************************************************)
(* A process that uses libsepkeymaster and, on other threads, the memory   *)
(* shared with the firmware: the two libraries know nothing of each other  *)
(* and have only the descriptor table of the process in common.            *)
(***************************************************************************)
EXTENDS Keymaster, Meimm

ASSUME KeyDeviceAssumption == KeyThread # {}

vars == <<txeiVars, keyVars, mmVars>>

MmThread == Thread \ KeyThread

Init == TxeiInit /\ KeyInit /\ MmInit

Next ==
  \/ \E t \in KeyThread : KeyStep(t) /\ UNCHANGED mmVars
  \/ \E t \in MmThread : MmStep(t) /\ UNCHANGED keyVars
  \/ \E p \in Process, f \in Fd : KeyAnswer(p, f) /\ UNCHANGED mmVars

Spec == Init /\ [][Next]_vars

(* Scheduling: a thread in a call goes on.  The firmware owes nothing: the *)
(* select of mei_sndmsg gives up after ten seconds.                        *)
Fairness == \A t \in KeyThread : WF_vars(KeyCallStep(t) /\ UNCHANGED mmVars)

LiveSpec == Spec /\ Fairness

-----------------------------------------------------------------------------
TypeOK ==
  /\ TxeiTypeOK(Cmd \cup {"caps"}, ReplySpace)
  /\ MmTypeOK
  /\ KeyTypeOK

Returned(t) == at[t] = "idle" /\ cmd[t] # NoCall

(* Where send_req_to_fw has a connection.                                  *)
Exchanging(t) == t \in KeyThread /\ at[t] \in {"write", "wait", "close"}

(* Each exchange closes its connection, whichever way it ends: what the    *)
(* process has open is the connection of an exchange under way, or is of   *)
(* the shared memory, in a handle or lost there.                           *)
ConnectionsClosed ==
  /\ \A t \in KeyThread : fd[t] # NoFd => Exchanging(t)
  /\ \A p \in Process : \A f \in files[p] \ lost[p] :
       \E t \in Thread : ProcOf[t] = p /\ fd[t] = f /\ (t \in MmThread \/ Exchanging(t))

(* A caller may repeat a command after these codes: the firmware has not   *)
(* seen it.  RSP_BUFFER_TOO_SMALL says both that nothing was sent and that *)
(* the command was carried out and its output dropped; *rsp_length tells   *)
(* the two apart, as it is raised in the second case only.                 *)
CodeTells(t) ==
  Returned(t) =>
    /\ ret[t].code \in {"BAD_PARAMETER", "CMD_BUFFER_TOO_BIG", "HECI_CONNECT_FAILED",
                        "OUT_OF_MEMORY", "FAILURE"} => said[t] = NoReply
    /\ ret[t].code = "RSP_BUFFER_TOO_SMALL" =>
         IF ret[t].len = cmd[t].rsp THEN said[t] = NoReply
                                    ELSE said[t] # NoReply /\ said[t].code = 0

CodesTell == \A t \in KeyThread : CodeTells(t)

(* Success means that the firmware has answered this very command, and the *)
(* result is what it said, with room for its output, unless the call has   *)
(* given so little room that what it reads is behind its response buffer   *)
(* (see Behind).  It holds of a call unless a read of its process once     *)
(* returned no bytes.                                                      *)
ResultIsFirmware(t) ==
  Returned(t) /\ ret[t].code = "SUCCESS" /\ ~blank[ProcOf[t]] =>
    /\ said[t].id = cmd[t].id
    /\ ~(cmd[t].id = "verify" /\ Behind(cmd[t])) =>
         ret[t].result =
           IF cmd[t].id = "verify" /\ said[t].code = 0 /\ ~said[t].verified
           THEN "FAILURE" ELSE ResultOf(said[t].code)
    /\ said[t].code = 0 /\ cmd[t].id # "verify" /\ ~Behind(cmd[t]) =>
         ReplyLength(cmd[t].id, said[t].n) <= ResponseLength(cmd[t].rsp)

ResultIsFirmwares == \A t \in KeyThread : ResultIsFirmware(t)

(* Two threads may both find caps_obtained unset, and one may be building  *)
(* its request while the other stores the size: every request is still     *)
(* allocated and filled in for the size the firmware stated, and within    *)
(* MAX_HECI_MSG_SIZE, unless a read returned no bytes.                     *)
RequestFits(t) ==
  phase[t] = "cmd" /\ at[t] \in {"open", "write", "wait"} =>
    /\ req[t].len <= MaxHeci
    /\ ~blank[ProcOf[t]] =>
         /\ req[t].size = KeyOpaqueSize
         /\ req[t].len = RequestLength(cmd[t].id, KeyOpaqueSize)

RequestsFit == \A t \in KeyThread : RequestFits(t)

(* Nothing becomes of a command once its call has returned: what the       *)
(* connection still carried went when it was closed.                       *)
NothingAfterReturn ==
  [][\A t \in KeyThread :
       at[t] = "idle" /\ cmd'[t] = cmd[t] /\ ret'[t] = ret[t] => said'[t] = said[t]]_vars

(* Every call returns, whatever the firmware does and whatever fails: it   *)
(* never reads before the select has seen an answer.                       *)
CallsReturn == \A t \in KeyThread : []<>(at[t] = "idle")

-----------------------------------------------------------------------------
(* Why the invariants above hold.                                          *)

(* A call has a connection from mei_connect to mei_disconnect; what it     *)
(* carries is the message of the call, which the firmware has not decided  *)
(* about, or the answer to it.                                             *)
Connected(t) ==
  /\ fd[t] # NoFd <=> at[t] \in {"write", "wait", "close"}
  /\ at[t] = "write" => LinkOf(t) = NoTraffic
  /\ fd[t] # NoFd =>
       /\ LinkOf(t).req \subseteq {Message(t)}
       /\ LinkOf(t).req # {} => said[t] = NoReply
       /\ LinkOf(t).rsp \subseteq
            IF phase[t] = "caps" THEN Answers("caps") ELSE {said[t]} \ {NoReply}
       /\ LinkOf(t).rsp # {} \/ reply[t] # NoReply => LinkOf(t).req = {}

(* The parts of the code a call can be in, and with which commands.        *)
Placed(t) ==
  /\ at[t] \in {"store", "latch"} => phase[t] = "caps"
  /\ at[t] \in {"idle", "build", "fill"} => phase[t] = "cmd"
  /\ at[t] # "idle" => cmd[t].rsp >= CallerRsp /\ cmd[t].id # "none"
  /\ phase[t] = "cmd" /\ at[t] \notin {"idle", "build"} => cmd[t].id \in Cmd

(* The firmware has seen nothing of a command before it is written.        *)
Said(t) ==
  /\ said[t] # NoReply => said[t] \in Answers(cmd[t].id)
  /\ phase[t] = "caps" \/ at[t] \in {"build", "fill", "open", "write"} =>
       said[t] = NoReply

(* The response buffer is empty, blank, or holds the answer to this call.  *)
Heard(t) ==
  /\ at[t] \notin {"close", "store", "latch"} => reply[t] = NoReply
  /\ reply[t] # NoReply =>
       \/ reply[t] = Blank /\ blank[ProcOf[t]]
       \/ reply[t] \in Answers("caps") /\ phase[t] = "caps"
       \/ reply[t] = said[t] /\ phase[t] = "cmd"
  /\ at[t] \in {"store", "latch"} => reply[t] # NoReply /\ reply[t].code = 0

(* A thread that is past get_caps finds the size of the firmware, and has  *)
(* allocated its request for it.                                           *)
Knows(t) ==
  LET p == ProcOf[t] IN
  /\ at[t] = "latch" \/ (phase[t] = "cmd" /\ at[t] # "idle") =>
       blank[p] \/ key_opaque_size[p] = KeyOpaqueSize
  /\ at[t] = "fill" /\ ~blank[p] =>
       req[t].len = RequestLength(cmd[t].id, KeyOpaqueSize)

(* The statics, which any thread may set at any time, hold that size or    *)
(* nothing.                                                                *)
Cached(p) ==
  /\ key_opaque_size[p] \in {0, KeyOpaqueSize}
  /\ caps_obtained[p] => blank[p] \/ key_opaque_size[p] = KeyOpaqueSize
  /\ blank[p] => "empty" \in Faults

(* A call that has returned has a code.                                    *)
Coded(t) == Returned(t) => ret[t].code # "NONE"

Told(t) == CodeTells(t) /\ ResultIsFirmware(t) /\ RequestFits(t) /\ Coded(t)

Own(t) == Connected(t) /\ Placed(t) /\ Said(t) /\ Heard(t) /\ Knows(t) /\ Told(t)

(* A handle on shared memory against its descriptor and mapping.           *)
Mapped(t) ==
  /\ t \in KeyThread => mm[t].status = "none"
  /\ t \in MmThread =>
       /\ mm[t].status = "none" => fd[t] = NoFd
       /\ mm[t].status \in {"allocated", "dma"} => fd[t] # NoFd
       /\ mm[t].status = "allocated" => mm[t].live

IInv ==
  /\ TypeOK /\ HandlesExclusive /\ DescriptorsAccounted
  /\ \A t \in KeyThread : Own(t)
  /\ \A t \in Thread : Mapped(t)
  /\ \A p \in Process : Cached(p)
-----------------------------------------------------------------------------
(* KeyDevice implements Exchange: how the return code, the result and      *)
(* *rsp_length are to be read for that.                                    *)

(* All the answers there are.                                              *)
Replies == UNION {Answers(id) : id \in Cmd}

(* The codes that are returned before anything is written.                 *)
Unsent ==
  {"BAD_PARAMETER", "CMD_BUFFER_TOO_BIG", "HECI_CONNECT_FAILED", "OUT_OF_MEMORY", "FAILURE"}

(* *rsp_length is len when the firmware answered a to call c, and carried  *)
(* it out: any length at all where the size it is made of is not read from *)
(* the response.                                                           *)
Filled(a, c, len) == Behind(c) \/ len = Needed(c.id, a.n)

(* Call c may succeed with that result and length when it is answered a.   *)
Shows(a, c, result, len) ==
  IF c.id = "verify"
  THEN /\ len = CallerRsp
       /\ IF a.code = 0 /\ Behind(c) THEN result \in {"SUCCESS", "FAILURE"}
          ELSE result = IF a.code = 0 /\ ~a.verified THEN "FAILURE" ELSE ResultOf(a.code)
  ELSE /\ result = ResultOf(a.code)
       /\ IF a.code = 0 THEN Filled(a, c, len) ELSE len = CallerRsp

(* The answers that call c can have been given when it returned r.  The    *)
(* firmware has not seen the command; it has carried it out, the output    *)
(* being dropped; it has answered.  A success that leaves *rsp_length as   *)
(* it was may also be a read of no bytes, and HECI_SNDRCV_FAILED says      *)
(* nothing.                                                                *)
Possible(c, r) ==
  LET small == r.code = "RSP_BUFFER_TOO_SMALL"
      plain == r.result = "SUCCESS" /\ r.len = c.rsp /\ "empty" \in Faults
  IN  CASE r.code \in Unsent \/ (small /\ r.len = c.rsp) -> {NoReply}
        [] small /\ r.len # c.rsp ->
             {a \in Replies : a.id = c.id /\ a.code = 0 /\ Filled(a, c, r.len)}
        [] r.code = "SUCCESS" /\ ~plain ->
             {a \in Replies : a.id = c.id /\ Shows(a, c, r.result, r.len)}
        [] OTHER -> Replies \cup {NoReply}

Learnt(t) ==
  IF Returned(t) THEN Possible(cmd[t], ret[t]) ELSE Replies \cup {NoReply}

Busy    == {t \in KeyThread : at[t] # "idle"}
Decided == [t \in KeyThread |-> said[t]]
ToldMap == [t \in KeyThread |-> Learnt(t)]

Commands == INSTANCE Exchange WITH
  Caller <- KeyThread, Decision <- Replies, Undecided <- NoReply,
  busy <- Busy, decided <- Decided, told <- ToldMap

(* Whatever the threads, the connections and the firmware do, and whatever *)
(* fails, a command is decided upon at most once and within its call, and  *)
(* what the call returns is never at odds with it.                         *)
ImplementsExchange == Commands!Spec
=============================================================================
