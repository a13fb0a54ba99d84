----------------------------- MODULE Keymaster -----------------------------
(***************************************************************************)
(* libsepkeymaster (sep_keymaster.c over txei_drv.c): the library the      *)
(* keymaster HAL sends its commands to the firmware with.  Every call of   *)
(* sep_keymaster_send_cmd builds a request, opens a connection of its own, *)
(* sends the request, waits for the answer and closes.  The first call     *)
(* asks for the capabilities of the firmware before, in the same way, and  *)
(* keeps the size of an opaque key in two statics all threads share.       *)
(*                                                                         *)
(* The firmware at the other end is external; Answers models it from the   *)
(* messages of android_heci_agent.h.                                       *)
(***************************************************************************)
EXTENDS Txei

CONSTANTS
  KeyThread,      (* the threads that call the library                     *)
  Uses,           (* Uses[t]: the commands thread t sends                  *)
  KeyOpaqueSize,  (* size of an opaque key, from the firmware's first      *)
                  (* capability; 0 when that is not for RSA keys           *)
  OutSize,        (* the sizes of the moduli and signatures it returns     *)
  Refusal,        (* the ResponseCodes it refuses with                     *)
  Stray,          (* the sizes that may be found behind a response buffer  *)
  Word            (* how many values a uint32_t has                        *)

(* sizeof of the structs of android_heci_agent.h and                       *)
(* intelkeymaster_firmware_api.h, and its MAX_ constants.                  *)
MaxMtu    == 4096
MaxHeci   == 3 * 1024
RspHeader == 20
CallerRsp == 12

Cmd == {"generate", "import", "get_public", "sign", "verify"}

(* A call: the command ("delete" for the two deletions and for unknown     *)
(* ones), whether its pointers and header are there, the length of its     *)
(* data, whether key type and lengths in the data are within what the      *)
(* firmware takes, the length of its key blob, the caller's *rsp_length.   *)
CallSpace ==
  [id : Cmd \cup {"delete"}, whole : BOOLEAN, data : Nat, legal : BOOLEAN,
   blob : Nat, rsp : Nat]

NoCall ==
  [id |-> "none", whole |-> FALSE, data |-> 0, legal |-> FALSE, blob |-> 0, rsp |-> 0]

(* The part of an answer that is looked at: CmdId, ResponseCode, a size    *)
(* (of an opaque key, a modulus or a signature) and Verified.              *)
Reply(id, code, n, v) == [id |-> id, code |-> code, n |-> n, verified |-> v]
NoReply == Reply("none", 0, 0, FALSE)
Blank   == Reply("caps", 0, 0, FALSE)    (* a buffer of zeroes             *)

ReplySpace ==
  [id : Cmd \cup {"caps", "none"}, code : Nat, n : Nat, verified : BOOLEAN]

ASSUME KeymasterAssumption ==
  /\ KeyThread \subseteq Thread
  /\ Uses \in [KeyThread -> SUBSET CallSpace]
  /\ KeyOpaqueSize \in 0 .. MaxMtu
  /\ OutSize \subseteq 0 .. MaxMtu /\ OutSize # {}
  /\ Refusal \subseteq Nat \ {0} /\ Refusal # {}
  /\ Stray \subseteq Nat /\ Stray # {}
  /\ Word \in Nat /\ Word > 2 * MaxMtu

VARIABLES
  at,               (* at[t]: the place of thread t in its call            *)
  phase,            (* phase[t]: "caps" in get_caps, else "cmd"            *)
  cmd,              (* cmd[t]: the call t is in, or made last              *)
  req,              (* req[t]: length t has allocated for its request, and *)
                    (* the size of the opaque key it was filled in with    *)
  reply,            (* reply[t]: the response buffer                       *)
  ret,              (* ret[t]: what the call returned                      *)
  caps_obtained,    (* the two statics, per process                        *)
  key_opaque_size,
  said,             (* said[t]: the answer the firmware gave to the        *)
                    (* command of cmd[t] (a history variable)              *)
  blank             (* blank[p]: a read in process p returned no bytes     *)

keyVars ==
  <<at, phase, cmd, req, reply, ret, caps_obtained, key_opaque_size, said, blank>>

Places == {"idle", "open", "write", "wait", "close", "store", "latch", "build", "fill"}

ReturnCode ==
  {"SUCCESS", "BAD_PARAMETER", "CMD_BUFFER_TOO_BIG", "RSP_BUFFER_TOO_SMALL",
   "HECI_CONNECT_FAILED", "OUT_OF_MEMORY", "HECI_SNDRCV_FAILED", "FAILURE"}

Result == {"SUCCESS", "INVALID_INPUT", "NOT_SUPPORTED", "FAILURE"}

NoReq == [len |-> 0, size |-> 0]
NoRet == [code |-> "NONE", result |-> "FAILURE", len |-> 0]

KeyInit ==
  /\ at = [t \in Thread |-> "idle"]
  /\ phase = [t \in Thread |-> "cmd"]
  /\ cmd = [t \in Thread |-> NoCall]
  /\ req = [t \in Thread |-> NoReq]
  /\ reply = [t \in Thread |-> NoReply]
  /\ ret = [t \in Thread |-> NoRet]
  /\ caps_obtained = [p \in Process |-> FALSE]
  /\ key_opaque_size = [p \in Process |-> 0]
  /\ said = [t \in Thread |-> NoReply]
  /\ blank = [p \in Process |-> FALSE]

KeyTypeOK ==
  /\ at \in [Thread -> Places]
  /\ phase \in [Thread -> {"caps", "cmd"}]
  /\ cmd \in [Thread -> CallSpace \cup {NoCall}]
  /\ req \in [Thread -> [len : Nat, size : Nat]]
  /\ reply \in [Thread -> ReplySpace]
  /\ ret \in [Thread -> [code : ReturnCode \cup {"NONE"}, result : Result, len : Nat]]
  /\ caps_obtained \in [Process -> BOOLEAN]
  /\ key_opaque_size \in [Process -> Nat]
  /\ said \in [Thread -> ReplySpace]
  /\ blank \in [Process -> BOOLEAN]

Goto(t, place) == at' = [at EXCEPT ![t] = place]

-----------------------------------------------------------------------------
(* Checks and sizes of each command: the code of *_cmd_buf for a key of    *)
(* the given size, and the length generate_cmd_buf allocates.              *)

GenerateError(c) == IF c.data < 20 \/ ~c.legal THEN "BAD_PARAMETER" ELSE "SUCCESS"

ImportError(c) == IF c.data < 16 \/ ~c.legal THEN "BAD_PARAMETER" ELSE "SUCCESS"

GetPublicError(c, size) == IF c.data < 4 + size THEN "BAD_PARAMETER" ELSE "SUCCESS"

SignError(c, size) ==
  IF c.data < 8 THEN "BAD_PARAMETER"
  ELSE IF ~c.legal \/ c.blob > size THEN "CMD_BUFFER_TOO_BIG"
  ELSE "SUCCESS"

VerifyError(c, size) ==
  IF c.data < 12 THEN "BAD_PARAMETER"
  ELSE IF ~c.legal \/ c.blob > size THEN "CMD_BUFFER_TOO_BIG"
  ELSE "SUCCESS"

FillError(c, size) ==
  CASE c.id = "generate"   -> GenerateError(c)
    [] c.id = "import"     -> ImportError(c)
    [] c.id = "get_public" -> GetPublicError(c, size)
    [] c.id = "sign"       -> SignError(c, size)
    [] OTHER               -> VerifyError(c, size)

RequestLength(id, size) ==
  CASE id = "generate"   -> 20 + size
    [] id = "import"     -> 532
    [] id = "get_public" -> 12 + size
    [] id = "sign"       -> 272 + size
    [] OTHER             -> 532 + size

(* Mutant: the header the library puts before its output is forgotten.     *)
NeededWithoutHeader(id, n) ==
  CASE id \in {"generate", "import", "sign"} -> CallerRsp + n
    [] id = "get_public"                     -> 24 + n
    [] OTHER                                 -> CallerRsp

(* The rsp_length that set_response_status_and_data asks for when the      *)
(* firmware returned n bytes, and the length of the firmware's response.   *)
Needed(id, n) ==
  CASE id \in {"generate", "import", "sign"} -> 16 + n
    [] id = "get_public"                     -> 28 + n
    [] OTHER                                 -> CallerRsp

ReplyLength(id, n) ==
  CASE id \in {"generate", "import"} -> RspHeader + n
    [] id = "get_public"             -> RspHeader + 8 + n
    [] id = "sign"                   -> RspHeader + 4 + n
    [] OTHER                         -> RspHeader + 4

(* The response buffer that is allocated for a caller's rsp_length.        *)
ResponseLength(rsp) == RspHeader + rsp - CallerRsp

(* The first four bytes after its header (KeySize, SignatureSize,          *)
(* Verified) are not within the buffer that call c has allocated.          *)
Behind(c) ==
  /\ c.id \in {"get_public", "sign", "verify"}
  /\ ResponseLength(c.rsp) < RspHeader + 4

(* The caller's result for a ResponseCode.                                 *)
ResultOf(code) ==
  CASE code = 0        -> "SUCCESS"
    [] code \in {2, 5} -> "INVALID_INPUT"
    [] code = 3        -> "NOT_SUPPORTED"
    [] OTHER           -> "FAILURE"

-----------------------------------------------------------------------------
(* A call returns: code, and for the caller's buffer result and length.    *)
Finish(t, code, result, len) ==
  /\ Goto(t, "idle")
  /\ phase' = [phase EXCEPT ![t] = "cmd"]
  /\ req' = [req EXCEPT ![t] = NoReq]
  /\ reply' = [reply EXCEPT ![t] = NoReply]
  /\ ret' = [ret EXCEPT ![t] = [code |-> code, result |-> result, len |-> len]]
  /\ UNCHANGED <<cmd, caps_obtained, key_opaque_size, said, blank>>

(* It fails: *rsp_length is left as it was.                                *)
Fail(t, code) == Finish(t, code, "FAILURE", cmd[t].rsp)

ArgumentError(c) ==
  IF ~c.whole THEN "BAD_PARAMETER"
  ELSE IF c.rsp < CallerRsp THEN "RSP_BUFFER_TOO_SMALL"
  ELSE "SUCCESS"

(* A call begins: its arguments pass; caps_obtained is looked at.          *)
Begin(t) ==
  /\ at[t] = "idle"
  /\ \E c \in Uses[t] :
       /\ ArgumentError(c) = "SUCCESS"
       /\ cmd' = [cmd EXCEPT ![t] = c]
  /\ IF caps_obtained[ProcOf[t]]
     THEN Goto(t, "build") /\ UNCHANGED phase
     ELSE Goto(t, "open") /\ phase' = [phase EXCEPT ![t] = "caps"]
  /\ ret' = [ret EXCEPT ![t] = NoRet]
  /\ said' = [said EXCEPT ![t] = NoReply]
  /\ UNCHANGED <<txeiVars, req, reply, caps_obtained, key_opaque_size, blank>>

Reject(t) ==
  /\ at[t] = "idle"
  /\ \E c \in Uses[t] :
       /\ ArgumentError(c) # "SUCCESS"
       /\ cmd' = [cmd EXCEPT ![t] = c]
       /\ ret' = [ret EXCEPT ![t] =
                    [code |-> ArgumentError(c), result |-> "FAILURE", len |-> c.rsp]]
  /\ said' = [said EXCEPT ![t] = NoReply]
  /\ UNCHANGED <<txeiVars, at, phase, req, reply, caps_obtained, key_opaque_size, blank>>

-----------------------------------------------------------------------------
(* send_req_to_fw and mei_snd_rcv, for the capabilities or the command.    *)

Message(t) == IF phase[t] = "caps" THEN "caps" ELSE cmd[t].id

Open(t) ==
  /\ at[t] = "open"
  /\ MeiConnect(t)
  /\ Goto(t, "write")
  /\ UNCHANGED <<phase, cmd, req, reply, ret, caps_obtained, key_opaque_size, said, blank>>

OpenFails(t) ==
  /\ at[t] = "open"
  /\ MeiConnectFails(t)
  /\ Fail(t, "HECI_CONNECT_FAILED")

Write(t) ==
  /\ at[t] = "write"
  /\ MeiWrite(t, Message(t))
  /\ Goto(t, "wait")
  /\ UNCHANGED <<phase, cmd, req, reply, ret, caps_obtained, key_opaque_size, said, blank>>

(* Mutant: descriptor 0 is neither refused nor written to.                 *)
WriteFailsNotAtZero(t) ==
  /\ at[t] = "write" /\ fd[t] # 0
  /\ MeiWriteFails(t)
  /\ Goto(t, "close")
  /\ UNCHANGED <<phase, cmd, req, reply, ret, caps_obtained, key_opaque_size, said, blank>>

WriteFails(t) ==
  /\ at[t] = "write"
  /\ MeiWriteFails(t)
  /\ Goto(t, "close")
  /\ UNCHANGED <<phase, cmd, req, reply, ret, caps_obtained, key_opaque_size, said, blank>>

(* The select sees the answer, and mei_rcvmsg reads it: r is what is in    *)
(* the response buffer then.                                               *)
Receive(t) ==
  /\ at[t] = "wait"
  /\ \E r \in LinkOf(t).rsp : MeiRead(t, r) /\ reply' = [reply EXCEPT ![t] = r]
  /\ Goto(t, "close")
  /\ UNCHANGED <<phase, cmd, req, ret, caps_obtained, key_opaque_size, said, blank>>

(* The read returns no bytes: mei_snd_rcv returns that 0, its success, and *)
(* the buffer is as cleared before.                                        *)
ReceiveNothing(t) ==
  /\ at[t] = "wait" /\ "empty" \in Faults
  /\ MeiReadable(t)
  /\ reply' = [reply EXCEPT ![t] = Blank]
  /\ blank' = [blank EXCEPT ![ProcOf[t]] = TRUE]
  /\ Goto(t, "close")
  /\ UNCHANGED <<txeiVars, phase, cmd, req, ret, caps_obtained, key_opaque_size, said>>

(* Mutant: without an answer the request is sent again.                    *)
ReceiveFailsResending(t) ==
  /\ at[t] = "wait"
  /\ Goto(t, "write")
  /\ UNCHANGED <<txeiVars, phase, cmd, req, reply, ret, caps_obtained, key_opaque_size,
                 said, blank>>

(* The select times out or fails, or the read does.                        *)
ReceiveFails(t) ==
  /\ at[t] = "wait"
  /\ Goto(t, "close")
  /\ UNCHANGED <<txeiVars, phase, cmd, req, reply, ret, caps_obtained, key_opaque_size,
                 said, blank>>

-----------------------------------------------------------------------------
(* get_caps, once its connection is closed.                                *)

CapsFail(t) ==
  /\ at[t] = "close" /\ phase[t] = "caps"
  /\ MeiDisconnect(t)
  /\ \/ reply[t] = NoReply /\ Fail(t, "HECI_SNDRCV_FAILED")
     \/ reply[t].code # 0 /\ Fail(t, "FAILURE")

(* Mutant: the ResponseCode is not looked at.                              *)
CapsOkUnchecked(t) ==
  /\ at[t] = "close" /\ phase[t] = "caps"
  /\ MeiDisconnect(t)
  /\ reply[t] # NoReply
  /\ Goto(t, "store")
  /\ UNCHANGED <<phase, cmd, req, reply, ret, caps_obtained, key_opaque_size, said, blank>>

(* Mutant: caps_obtained is set first, before the size is stored.          *)
CapsOkLatched(t) ==
  /\ at[t] = "close" /\ phase[t] = "caps"
  /\ MeiDisconnect(t)
  /\ reply[t] # NoReply /\ reply[t].code = 0
  /\ caps_obtained' = [caps_obtained EXCEPT ![ProcOf[t]] = TRUE]
  /\ Goto(t, "store")
  /\ UNCHANGED <<phase, cmd, req, reply, ret, key_opaque_size, said, blank>>

CapsOk(t) ==
  /\ at[t] = "close" /\ phase[t] = "caps"
  /\ MeiDisconnect(t)
  /\ reply[t] # NoReply /\ reply[t].code = 0
  /\ Goto(t, "store")
  /\ UNCHANGED <<phase, cmd, req, reply, ret, caps_obtained, key_opaque_size, said, blank>>

(* key_opaque_size is set from the answer; one that lists no algorithm, as *)
(* a blank one does, leaves it, and get_caps succeeds all the same.        *)
StoreSize(t) ==
  /\ at[t] = "store"
  /\ key_opaque_size' =
       IF reply[t] = Blank THEN key_opaque_size
       ELSE [key_opaque_size EXCEPT ![ProcOf[t]] = reply[t].n]
  /\ Goto(t, "latch")
  /\ UNCHANGED <<txeiVars, phase, cmd, req, reply, ret, caps_obtained, said, blank>>

(* ... and caps_obtained is set by its caller.                             *)
Latch(t) ==
  /\ at[t] = "latch"
  /\ caps_obtained' = [caps_obtained EXCEPT ![ProcOf[t]] = TRUE]
  /\ phase' = [phase EXCEPT ![t] = "cmd"]
  /\ reply' = [reply EXCEPT ![t] = NoReply]
  /\ Goto(t, "build")
  /\ UNCHANGED <<txeiVars, cmd, req, ret, key_opaque_size, said, blank>>

-----------------------------------------------------------------------------
(* generate_cmd_buf: the request is allocated for the key size of now ...  *)
Build(t) ==
  /\ at[t] = "build"
  /\ cmd[t].id \in Cmd
  /\ req' = [req EXCEPT ![t].len = RequestLength(cmd[t].id, key_opaque_size[ProcOf[t]])]
  /\ Goto(t, "fill")
  /\ UNCHANGED <<txeiVars, phase, cmd, reply, ret, caps_obtained, key_opaque_size, said, blank>>

BuildFails(t) ==
  /\ at[t] = "build"
  /\ \/ cmd[t].id \notin Cmd /\ Fail(t, "FAILURE")
     \/ cmd[t].id \in Cmd /\ "alloc" \in Faults /\ Fail(t, "OUT_OF_MEMORY")
  /\ UNCHANGED txeiVars

(* Why the request is not sent after all, for a key of the given size.     *)
RequestError(t, size) ==
  LET e == FillError(cmd[t], size)
  IN  IF e = "SUCCESS" /\ req[t].len > MaxHeci THEN "CMD_BUFFER_TOO_BIG" ELSE e

(* ... and filled in for the key size of a moment later.                   *)
Fill(t) ==
  /\ at[t] = "fill"
  /\ LET size == key_opaque_size[ProcOf[t]]
     IN  /\ RequestError(t, size) = "SUCCESS"
         /\ req' = [req EXCEPT ![t].size = size]
  /\ Goto(t, "open")
  /\ UNCHANGED <<txeiVars, phase, cmd, reply, ret, caps_obtained, key_opaque_size, said, blank>>

FillFails(t) ==
  LET e == RequestError(t, key_opaque_size[ProcOf[t]]) IN
  /\ at[t] = "fill"
  /\ \/ e # "SUCCESS" /\ Fail(t, e)
     \/ e = "SUCCESS" /\ "alloc" \in Faults /\ Fail(t, "OUT_OF_MEMORY")
  /\ UNCHANGED txeiVars

(* The malloc of get_caps fails, before anything is opened.                *)
CapsAllocFails(t) ==
  /\ at[t] = "open" /\ phase[t] = "caps" /\ "alloc" \in Faults
  /\ Fail(t, "OUT_OF_MEMORY")
  /\ UNCHANGED txeiVars

-----------------------------------------------------------------------------
(* The command's connection is closed and the call returns.                *)

(* Mutant: without an answer, the connection is left open.                 *)
NotAnsweredOpen(t) ==
  /\ at[t] = "close" /\ phase[t] = "cmd"
  /\ reply[t] = NoReply
  /\ Fail(t, "HECI_SNDRCV_FAILED")
  /\ UNCHANGED txeiVars

(* Mutant: its handle is forgotten, and not closed.                        *)
NotAnsweredLeak(t) ==
  /\ at[t] = "close" /\ phase[t] = "cmd"
  /\ reply[t] = NoReply
  /\ ForgetHandle(t)
  /\ Fail(t, "HECI_SNDRCV_FAILED")

(* Mutant: the -1 of mei_snd_rcv is passed on instead of a return code.    *)
NotAnsweredRaw(t) ==
  /\ at[t] = "close" /\ phase[t] = "cmd"
  /\ reply[t] = NoReply
  /\ MeiDisconnect(t)
  /\ Finish(t, "MINUS_ONE", "FAILURE", cmd[t].rsp)

NotAnswered(t) ==
  /\ at[t] = "close" /\ phase[t] = "cmd"
  /\ reply[t] = NoReply
  /\ MeiDisconnect(t)
  /\ Fail(t, "HECI_SNDRCV_FAILED")

(* The firmware refused.                                                   *)
Refused(t) ==
  /\ at[t] = "close" /\ phase[t] = "cmd"
  /\ reply[t].code # 0
  /\ MeiDisconnect(t)
  /\ Finish(t, "SUCCESS", ResultOf(reply[t].code), CallerRsp)

(* The size of its output as the code reads it.                            *)
Sizes(t) == IF Behind(cmd[t]) THEN Stray ELSE {reply[t].n}

(* Mutant: the length is only set once the buffer is known to be large     *)
(* enough.                                                                 *)
CopiedLengthLate(t) ==
  /\ at[t] = "close" /\ phase[t] = "cmd"
  /\ reply[t].code = 0 /\ reply[t].id \in Cmd \ {"verify"}
  /\ MeiDisconnect(t)
  /\ \E n \in Sizes(t) :
       LET needed == Needed(reply[t].id, n) % Word
       IN  IF cmd[t].rsp < needed
           THEN Finish(t, "RSP_BUFFER_TOO_SMALL", "SUCCESS", cmd[t].rsp)
           ELSE Finish(t, "SUCCESS", "SUCCESS", needed)

(* It returned a key, a modulus or a signature.                            *)
Copied(t) ==
  /\ at[t] = "close" /\ phase[t] = "cmd"
  /\ reply[t].code = 0 /\ reply[t].id \in Cmd \ {"verify"}
  /\ MeiDisconnect(t)
  /\ \E n \in Sizes(t) :
       LET needed == Needed(reply[t].id, n) % Word
       IN  IF cmd[t].rsp < needed
           THEN Finish(t, "RSP_BUFFER_TOO_SMALL", "SUCCESS", needed)
           ELSE Finish(t, "SUCCESS", "SUCCESS", needed)

(* It verified.  Where Verified is behind the buffer, what is found there  *)
(* decides.                                                                *)
Verified(t) ==
  /\ at[t] = "close" /\ phase[t] = "cmd"
  /\ reply[t].code = 0 /\ reply[t].id = "verify"
  /\ MeiDisconnect(t)
  /\ \E v \in IF Behind(cmd[t]) THEN BOOLEAN ELSE {reply[t].verified} :
       Finish(t, "SUCCESS", IF v THEN "SUCCESS" ELSE "FAILURE", CallerRsp)

(* A CmdId that is not the command's: success, with nothing in the buffer. *)
Unmatched(t) ==
  /\ at[t] = "close" /\ phase[t] = "cmd"
  /\ reply[t].code = 0 /\ reply[t].id = "caps"
  /\ MeiDisconnect(t)
  /\ Finish(t, "SUCCESS", "SUCCESS", cmd[t].rsp)

-----------------------------------------------------------------------------
(* The firmware (external).                                                *)

Answers(m) ==
  LET n == CASE m = "verify" -> {0}
             [] m \in {"get_public", "sign"} -> OutSize
             [] OTHER -> {KeyOpaqueSize}
      v == IF m = "verify" THEN BOOLEAN ELSE {FALSE}
  IN  [id : {m}, code : {0}, n : n, verified : v]
        \cup [id : {m}, code : Refusal, n : {0}, verified : {FALSE}]

Waiting(p, f) == {t \in KeyThread : ProcOf[t] = p /\ fd[t] = f}

KeyAnswer(p, f) ==
  \E m \in link[p][f].req : \E r \in Answers(m) :
    /\ MeiAnswer(p, f, r)
    /\ said' = [t \in Thread |->
                  IF t \in Waiting(p, f) /\ m # "caps" THEN r ELSE said[t]]
    /\ UNCHANGED <<at, phase, cmd, req, reply, ret, caps_obtained, key_opaque_size, blank>>

-----------------------------------------------------------------------------
SendStep(t) ==
  \/ Open(t)
  \/ OpenFails(t)
  \/ Write(t)
  \/ WriteFails(t)
  \/ Receive(t)
  \/ ReceiveNothing(t)
  \/ ReceiveFails(t)

CapsStep(t) ==
  \/ CapsAllocFails(t)
  \/ CapsFail(t)
  \/ CapsOk(t)
  \/ StoreSize(t)
  \/ Latch(t)

BuildStep(t) ==
  \/ Build(t)
  \/ BuildFails(t)
  \/ Fill(t)
  \/ FillFails(t)

ReturnStep(t) ==
  \/ NotAnswered(t)
  \/ Refused(t)
  \/ Copied(t)
  \/ Verified(t)
  \/ Unmatched(t)

(* The steps of a call that has begun.                                     *)
KeyCallStep(t) == SendStep(t) \/ CapsStep(t) \/ BuildStep(t) \/ ReturnStep(t)

KeyStep(t) == Begin(t) \/ Reject(t) \/ KeyCallStep(t)
=============================================================================
