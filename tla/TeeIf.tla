-------------------------------- MODULE TeeIf -------------------------------
(***************************************************************************)
(* The TEE interface (Lib/common/src/tee_if.c): a session is one MEI       *)
(* handle, and process_cmd sends one command on it and reads one answer.   *)
(*                                                                         *)
(* Every call of the libraries above goes through the same places of       *)
(* tee_if.c, so pc[t] records them here:                                   *)
(*                                                                         *)
(*   idle -> connect -> send -> select -> recv -> check -> idle            *)
(*                                                                         *)
(* The library above adds what starts a call and what "check" makes of it. *)
(***************************************************************************)
EXTENDS Txei

CONSTANT
  Word   (* the number of values of uint32_t: 2^32, or an even stand-in    *)

ASSUME WordAssumption == Word \in Nat /\ Word > 2 /\ Word % 2 = 0

VARIABLES
  pc,     (* pc[t]: where thread t is                                      *)
  ret,    (* ret[t]: the uint32_t ret of the call in progress              *)
  resp    (* resp[t]: the response buffer                                  *)

teeVars == <<txeiVars, pc, ret, resp>>

Places == {"idle", "connect", "send", "select", "recv", "check"}

(* uint32_t values, 0 - u in uint32_t, and the conversion to int.          *)
UInt     == 0 .. Word - 1
Minus(u) == IF u = 0 THEN 0 ELSE Word - u
AsInt(u) == IF 2 * u < Word THEN u ELSE u - Word

TEE_SUCCESSFUL == 0
TEE_FAILURE    == Word - 1     (* 0xFFFFFFFF, and the -1 of libtxei        *)

(* A response buffer cleared by memset, and a read that returned no byte   *)
(* and so left the buffer as it was.                                       *)
ClearResp == [status |-> 0, bytes |-> 0]
EmptyRead == [status |-> -1, bytes |-> 0]

TeeInit(r) ==
  /\ TxeiInit
  /\ pc = [t \in Thread |-> "idle"]
  /\ ret = [t \in Thread |-> 0]
  /\ resp = [t \in Thread |-> r]

Goto(t, to) == pc' = [pc EXCEPT ![t] = to]

(* Mutant: the response buffer is not cleared.                             *)
TeeOpenUncleared(t) ==
  /\ pc[t] = "connect"
  /\ MeiConnect(t)
  /\ Goto(t, "send")
  /\ UNCHANGED <<ret, resp>>

(* tee_init: on success the caller clears its buffers and calls            *)
(* process_cmd.                                                            *)
TeeOpen(t) ==
  /\ pc[t] = "connect"
  /\ MeiConnect(t)
  /\ Goto(t, "send")
  /\ resp' = [resp EXCEPT ![t] = ClearResp]
  /\ UNCHANGED ret

(* tee_init: mei_connect returned NULL and the caller returns TEE_FAILURE. *)
TeeOpenFails(t) ==
  /\ pc[t] = "connect"
  /\ MeiConnectFails(t)
  /\ Goto(t, "idle")
  /\ ret' = [ret EXCEPT ![t] = TEE_FAILURE]
  /\ UNCHANGED resp

(* send_cmd: the command is written.                                       *)
SendCmd(t, m) ==
  /\ pc[t] = "send"
  /\ MeiWrite(t, m)
  /\ Goto(t, "select")
  /\ UNCHANGED <<ret, resp>>

(* send_cmd fails: process_cmd logs it and calls recv_cmd all the same.    *)
SendCmdFails(t) ==
  /\ pc[t] = "send"
  /\ MeiWriteFails(t)
  /\ Goto(t, "recv")
  /\ UNCHANGED <<ret, resp>>

(* The select of mei_sndmsg ends because an answer arrived: send_cmd       *)
(* succeeds.                                                               *)
SelectReady(t) ==
  /\ pc[t] = "select"
  /\ MeiReadable(t)
  /\ Goto(t, "recv")
  /\ UNCHANGED <<txeiVars, ret, resp>>

(* It ends by its timeout or an error: send_cmd fails although the command *)
(* is with the driver; the failure is logged, and recv_cmd follows.        *)
SelectGivesUp(t) ==
  /\ pc[t] = "select"
  /\ ~ MeiReadable(t)
  /\ Goto(t, "recv")
  /\ UNCHANGED <<txeiVars, ret, resp>>

(* Mutant: the command is sent again until the firmware accepts it.        *)
RecvCmdResending(t) ==
  /\ pc[t] = "recv"
  /\ \E r \in LinkOf(t).rsp :
       /\ MeiRead(t, r)
       /\ resp' = [resp EXCEPT ![t] = IF r = EmptyRead THEN @ ELSE r]
       /\ Goto(t, IF r.status = 0 THEN "check" ELSE "send")
  /\ ret' = [ret EXCEPT ![t] = TEE_SUCCESSFUL]

(* recv_cmd: the answer is read; mei_rcvmsg returning 0 also yields 0.     *)
RecvCmd(t) ==
  /\ pc[t] = "recv"
  /\ \E r \in LinkOf(t).rsp :
       /\ MeiRead(t, r)
       /\ resp' = [resp EXCEPT ![t] = IF r = EmptyRead THEN @ ELSE r]
  /\ ret' = [ret EXCEPT ![t] = TEE_SUCCESSFUL]
  /\ Goto(t, "check")

(* recv_cmd: mei_rcvmsg returned -1, which a uint32_t turns into 2^32-1.   *)
RecvCmdFails(t) ==
  /\ pc[t] = "recv"
  /\ MeiReadFails(t)
  /\ ret' = [ret EXCEPT ![t] = TEE_FAILURE]
  /\ Goto(t, "check")
  /\ UNCHANGED resp

(* The steps between tee_init and the return of process_cmd, m being the   *)
(* command of the call in progress.                                        *)
ProcessCmd(t, m) ==
  \/ SendCmd(t, m)
  \/ SendCmdFails(t)
  \/ SelectReady(t)
  \/ SelectGivesUp(t)
  \/ RecvCmd(t)
  \/ RecvCmdFails(t)

-----------------------------------------------------------------------------
(* Thread t is blocked in read() on a connection on which no request is    *)
(* outstanding: no answer will ever come.                                  *)
Hung(t) ==
  /\ pc[t] = "recv"
  /\ fd[t] > 0
  /\ LinkOf(t) = NoTraffic

=============================================================================
