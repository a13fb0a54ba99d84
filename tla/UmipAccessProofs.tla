-------------------------- MODULE UmipAccessProofs --------------------------
(***************************************************************************)
(* IInv is an inductive invariant of UmipAccess, for any threads,          *)
(* processes, calls, faults and sizes; the safety properties follow.       *)
(***************************************************************************)
EXTENDS UmipAccess, TxeiProofs

(* The invariant of one thread.                                            *)
Settled(t) ==
  Returned(t) =>
    /\ fd[t] # NoFd => call[t].op # "get" /\ ~Succeeded(t)
    /\ call[t].op \in {"set", "prov"} /\ result[t] < 0 =>
         /\ fate[t] # "done"
         /\ fd[t] # NoFd => LinkOf(t).req = {}
    /\ Tells(t, call[t], result[t], fate[t])
    /\ fd[t] # NoFd /\ LinkOf(t).req # {} =>
         Unreadable(t) /\ result[t] = IF call[t].op \in {"lock", "wipe"} THEN -1 ELSE 1

ThreadInv(t) == InCall(t) /\ OnConnection(t) /\ Settled(t)

LEMMA IInvByThread ==
  IInv <=> /\ TypeOK
           /\ LegalRequests
           /\ HandlesExclusive
           /\ \A t \in Thread : ThreadInv(t)
BY DEF IInv, ThreadInv, Settled, LeakOnlyOnFailure, NegativeIsFinal, ReturnTells

-----------------------------------------------------------------------------
(* The codes of the firmware and the value of a failed read, as ints.      *)
LEMMA Ints ==
  /\ AsInt(TEE_FAILURE) = -1
  /\ AsInt(Minus(TEE_FAILURE)) = 1
  /\ AsInt(Minus(0)) = 0
  /\ \A e \in Codes : e \in Nat /\ e > MaxData /\ e # 0 /\ AsInt(Minus(e)) = -e /\ -e < 0
BY WordAssumption, UmipAssumption, AcdAssumption
   DEF AsInt, Minus, TEE_FAILURE

LEMMA CallFields ==
  ASSUME NEW c \in Calls \cup {NoCall}
  PROVE  c.op \in Ops \cup {"none"} /\ c.index \in Nat /\ c.size \in Nat
BY AcdAssumption DEF CallSpace, NoCall, Ops

-----------------------------------------------------------------------------
(* A step of one thread leaves the others' invariant alone.                *)
Keeps(u) ==
  /\ Untouched(u)
  /\ pc'[u] = pc[u] /\ ret'[u] = ret[u] /\ resp'[u] = resp[u]
  /\ call'[u] = call[u] /\ result'[u] = result[u] /\ fate'[u] = fate[u]

LEMMA TellsPrimed ==
  ASSUME NEW t \in Thread
  PROVE  /\ Tells(t, call[t], result[t], fate[t])' <=> Tells(t, call'[t], result'[t], fate'[t])
         /\ Unreadable(t)' <=> Unreadable(t)
BY DEF Tells, Answered, Unreadable, EarlyError, SetError, ProvError, GetError, LegalSize, Index

(* What was returned stays true while the call and its fate do.            *)
LEMMA SettledStays ==
  ASSUME NEW u \in Thread, Settled(u), Untouched(u), pc'[u] = pc[u],
         call'[u] = call[u], result'[u] = result[u], fate'[u] = fate[u]
  PROVE  Settled(u)'
<1>1. /\ Returned(u)' <=> Returned(u)
      /\ Succeeded(u)' <=> Succeeded(u)
  BY DEF Returned, Succeeded
<1>2. Tells(u, call[u], result[u], fate[u])' <=> Tells(u, call[u], result[u], fate[u])
  BY TellsPrimed
<1> QED BY <1>1, <1>2, TellsPrimed DEF Settled, Untouched

LEMMA Frame ==
  ASSUME NEW u \in Thread, ThreadInv(u), Keeps(u)
  PROVE  ThreadInv(u)'
<1>1. InCall(u)'
  BY DEF ThreadInv, InCall, Keeps
<1>2. OnConnection(u)'
  BY DEF ThreadInv, OnConnection, Keeps, Untouched, InFlight, Unsent, Taken, Truthful
<1>3. Settled(u)'
  BY SettledStays DEF ThreadInv, Keeps
<1> QED BY <1>1, <1>2, <1>3 DEF ThreadInv

LEMMA Compose ==
  ASSUME IInv, NEW t \in Thread,
         TypeOK', LegalRequests', HandlesExclusive',
         ThreadInv(t)', \A u \in Thread \ {t} : Keeps(u)
  PROVE  IInv'
<1>1. \A u \in Thread : ThreadInv(u)
  BY IInvByThread
<1>2. \A u \in Thread : ThreadInv(u)'
  BY <1>1, Frame
<1> QED BY <1>2 DEF IInv, ThreadInv, Settled, LeakOnlyOnFailure, NegativeIsFinal,
                    ReturnTells

(* LinkOf of a thread that holds a handle, and the thread's invariant.     *)
LEMMA Facts ==
  ASSUME IInv, NEW t \in Thread
  PROVE  /\ TypeOK /\ TxeiTypeOK(Calls, Rsp) /\ HandlesExclusive /\ LegalRequests
         /\ ThreadInv(t) /\ InCall(t) /\ OnConnection(t) /\ Settled(t)
         /\ ProcOf[t] \in Process
         /\ fd[t] # NoFd => fd[t] \in Fd /\ LinkOf(t) \in [req : SUBSET Calls, rsp : SUBSET Rsp]
<1>1. TypeOK /\ HandlesExclusive /\ LegalRequests /\ ThreadInv(t)
  BY IInvByThread
<1>2. TxeiTypeOK(Calls, Rsp)
  BY <1>1 DEF TypeOK
<1>3. ProcOf[t] \in Process
  BY TxeiAssumption
<1>4. ASSUME fd[t] # NoFd
      PROVE  fd[t] \in Fd /\ LinkOf(t) \in [req : SUBSET Calls, rsp : SUBSET Rsp]
  BY <1>2, <1>3, <1>4 DEF TxeiTypeOK, LinkOf
<1> QED BY <1>1, <1>2, <1>3, <1>4 DEF ThreadInv

(* LegalRequests after a step that leaves no request that was not there.   *)
LEMMA LegalStays ==
  ASSUME LegalRequests,
         \A p \in Process, f \in Fd : link'[p][f].req \subseteq link[p][f].req
  PROVE  LegalRequests'
BY DEF LegalRequests, EarlyError, SetError, ProvError, LegalSize, Index

-----------------------------------------------------------------------------
(* One lemma for each action of a thread.                                  *)

LEMMA BeginStep ==
  ASSUME IInv, NEW t \in Thread, Begin(t)
  PROVE  IInv'
<1>1. PICK c \in Calls : EarlyError(c) = 0 /\ call' = [call EXCEPT ![t] = c]
  BY DEF Begin
<1>2. /\ ForgetHandle(t)
      /\ pc' = [pc EXCEPT ![t] = "connect"]
      /\ fate' = [fate EXCEPT ![t] = "none"]
      /\ UNCHANGED <<ret, resp, result, acd>>
  BY DEF Begin, Goto
<1>3. /\ TxeiTypeOK(Calls, Rsp)' /\ HandlesExclusive' /\ OthersUntouched(t)
      /\ fd'[t] = NoFd /\ link' = link
  BY <1>2, Facts, ForgetHandleStep
<1>4. TypeOK'
  BY <1>1, <1>2, <1>3, Facts DEF TypeOK, Places
<1>5. LegalRequests'
  BY <1>3, Facts, LegalStays
<1>6. pc'[t] = "connect" /\ call'[t] = c /\ fate'[t] = "none"
  BY <1>1, <1>2, Facts DEF TypeOK
<1>7. ThreadInv(t)'
  BY <1>1, <1>3, <1>6 DEF ThreadInv, InCall, OnConnection, NoFd, Settled, Returned, EarlyError, SetError, ProvError, LegalSize, Index
<1>8. \A u \in Thread \ {t} : Keeps(u)
  BY <1>1, <1>2, <1>3, Facts DEF TypeOK, OthersUntouched, Keeps
<1> QED BY <1>3, <1>4, <1>5, <1>7, <1>8, Compose

LEMMA RejectStep ==
  ASSUME IInv, NEW t \in Thread, Reject(t)
  PROVE  IInv'
<1>1. PICK c \in Calls : /\ EarlyError(c) # 0
                         /\ call' = [call EXCEPT ![t] = c]
                         /\ result' = [result EXCEPT ![t] = EarlyError(c)]
  BY DEF Reject
<1>2. /\ ForgetHandle(t) /\ pc[t] = "idle"
      /\ fate' = [fate EXCEPT ![t] = "none"]
      /\ UNCHANGED <<pc, ret, resp, acd>>
  BY DEF Reject
<1>3. /\ TxeiTypeOK(Calls, Rsp)' /\ HandlesExclusive' /\ OthersUntouched(t)
      /\ fd'[t] = NoFd /\ link' = link
  BY <1>2, Facts, ForgetHandleStep
<1>4. EarlyError(c) \in {Illegal, TooLarge}
  BY <1>1 DEF EarlyError, SetError, ProvError
<1>5. EarlyError(c) \in Nat /\ EarlyError(c) > MaxData
  BY <1>4, Ints DEF Codes
<1>6. TypeOK'
  BY <1>1, <1>2, <1>3, <1>5, Facts DEF TypeOK
<1>7. LegalRequests'
  BY <1>3, Facts, LegalStays
<1>8. /\ pc'[t] = "idle" /\ call'[t] = c /\ fate'[t] = "none"
      /\ result'[t] = EarlyError(c)
  BY <1>1, <1>2, Facts DEF TypeOK
<1>9. ThreadInv(t)'
  <2>1. ~(result'[t] < 0) /\ result'[t] # 0 /\ result'[t] \notin 2 .. MaxData
    BY <1>5, <1>8, AcdAssumption
  <2>2. ~Succeeded(t)'
    BY <2>1 DEF Succeeded
  <2>3. Tells(t, call[t], result[t], fate[t])'
    BY <1>1, <1>8, TellsPrimed DEF Tells
  <2> QED BY <1>3, <1>8, <2>1, <2>2, <2>3 DEF ThreadInv, InCall, OnConnection, NoFd, Settled
<1>10. \A u \in Thread \ {t} : Keeps(u)
  BY <1>1, <1>2, <1>3, Facts DEF TypeOK, OthersUntouched, Keeps
<1> QED BY <1>3, <1>6, <1>7, <1>9, <1>10, Compose

LEMMA ConnectStep ==
  ASSUME IInv, NEW t \in Thread, Connect(t)
  PROVE  IInv'
<1>1. /\ MeiConnect(t) /\ pc[t] = "connect"
      /\ pc' = [pc EXCEPT ![t] = "send"]
      /\ resp' = [resp EXCEPT ![t] = ClearResp]
      /\ UNCHANGED <<ret, call, result, acd, fate>>
  BY DEF Connect, TeeOpen, Goto
<1>2. /\ TxeiTypeOK(Calls, Rsp)' /\ HandlesExclusive' /\ OthersUntouched(t)
      /\ fd'[t] # NoFd /\ LinkOf(t)' = NoTraffic
      /\ fd'[t] = 0 => ProcOf[t] \in NoStdin
      /\ \A p \in Process, f \in Fd : link'[p][f] \in {link[p][f], NoTraffic}
  BY <1>1, Facts, MeiConnectStep
<1>3. ClearResp \in Rsp
  BY AcdAssumption DEF ClearResp, Rsp
<1>4. TypeOK'
  BY <1>1, <1>2, <1>3, Facts DEF TypeOK, Places
<1>5. LegalRequests'
  BY <1>2, Facts, LegalStays DEF NoTraffic
<1>6. pc'[t] = "send" /\ resp'[t] = ClearResp
  BY <1>1, Facts DEF TypeOK
<1>7. ThreadInv(t)'
  <2>1. InCall(t)' /\ fate'[t] = "none"
    BY <1>1, Facts DEF InCall, OnConnection
  <2> QED BY <1>2, <1>6, <2>1 DEF ThreadInv, OnConnection, Unsent, Settled, Returned
<1>8. \A u \in Thread \ {t} : Keeps(u)
  BY <1>1, <1>2, Facts DEF TypeOK, OthersUntouched, Keeps
<1> QED BY <1>2, <1>4, <1>5, <1>7, <1>8, Compose

LEMMA ConnectFailsStep ==
  ASSUME IInv, NEW t \in Thread, ConnectFails(t)
  PROVE  IInv'
<1>1. /\ pc[t] = "connect"
      /\ pc' = [pc EXCEPT ![t] = "idle"]
      /\ ret' = [ret EXCEPT ![t] = TEE_FAILURE]
      /\ result' = [result EXCEPT ![t] = -1]
      /\ UNCHANGED <<fd, files, link, resp, call, acd, fate>>
  BY Ints DEF ConnectFails, TeeOpenFails, MeiConnectFails, Goto, txeiVars
<1>2. TypeOK'
  BY <1>1, Facts DEF TypeOK, Places, TxeiTypeOK
<1>3. LegalRequests' /\ HandlesExclusive'
  BY <1>1, Facts, LegalStays DEF HandlesExclusive
<1>4. /\ pc'[t] = "idle" /\ result'[t] = -1 /\ fd'[t] = NoFd /\ fate'[t] = "none"
  BY <1>1, Facts DEF TypeOK, OnConnection
<1>5. ThreadInv(t)'
  <2>1. ~Succeeded(t)'
    BY <1>4 DEF Succeeded
  <2>2. EarlyError(call[t]) = 0 /\ call'[t] = call[t]
    BY <1>1, Facts DEF InCall
  <2>3. Tells(t, call[t], result[t], fate[t])'
    BY <1>4, <2>2, TellsPrimed DEF Tells
  <2> QED BY <1>4, <2>1, <2>3 DEF ThreadInv, InCall, OnConnection, NoFd, Settled
<1>6. \A u \in Thread \ {t} : Keeps(u)
  BY <1>1, Facts DEF TypeOK, Untouched, Keeps, LinkOf
<1> QED BY <1>2, <1>3, <1>5, <1>6, Compose

-----------------------------------------------------------------------------
(* Returns.  Succ(c, v): v is what call c documents as success.            *)
Succ(c, v) ==
  \/ c.op \in {"lock", "wipe", "prov"} /\ v = 0
  \/ c.op = "set" /\ v = c.size /\ v \in 2 .. MaxData

Writes(c) == c.op \in {"set", "prov"}

LEMMA ReturnClosingStep ==
  ASSUME IInv, NEW t \in Thread, NEW v \in Int, ReturnClosing(t, v),
         pc[t] \in {"send", "check"},
         Writes(call[t]) /\ v < 0 => fate[t] # "done",
         Tells(t, call[t], v, fate[t])
  PROVE  IInv'
<1>1. /\ MeiDisconnect(t)
      /\ pc' = [pc EXCEPT ![t] = "idle"]
      /\ result' = [result EXCEPT ![t] = v]
      /\ UNCHANGED <<ret, resp, call, acd, fate>>
  BY DEF ReturnClosing, Goto
<1>2. fd[t] # NoFd
  BY Facts DEF OnConnection
<1>3. /\ TxeiTypeOK(Calls, Rsp)' /\ HandlesExclusive' /\ OthersUntouched(t)
      /\ fd'[t] = NoFd
      /\ \A p \in Process, f \in Fd : link'[p][f] \in {link[p][f], NoTraffic}
  BY <1>1, <1>2, Facts, MeiDisconnectStep
<1>4. TypeOK'
  BY <1>1, <1>3, Facts DEF TypeOK, Places
<1>5. LegalRequests'
  BY <1>3, Facts, LegalStays DEF NoTraffic
<1>6. /\ pc'[t] = "idle" /\ result'[t] = v
      /\ call'[t] = call[t] /\ fate'[t] = fate[t]
  BY <1>1, Facts DEF TypeOK
<1>7. ThreadInv(t)'
  <2>1. Succeeded(t)' <=> Succ(call[t], v)
    BY <1>6 DEF Succeeded, Succ
  <2>2. Tells(t, call[t], result[t], fate[t])'
    BY <1>6, TellsPrimed
  <2> QED BY <1>3, <1>6, <2>1, <2>2 DEF ThreadInv, InCall, OnConnection, NoFd, Settled, Writes
<1>8. \A u \in Thread \ {t} : Keeps(u)
  BY <1>1, <1>3, Facts DEF TypeOK, OthersUntouched, Keeps
<1> QED BY <1>3, <1>4, <1>5, <1>7, <1>8, Compose

LEMMA ReturnLeakingStep ==
  ASSUME IInv, NEW t \in Thread, NEW v \in Int, ReturnLeaking(t, v),
         pc[t] = "check", call[t].op # "get", ~Succ(call[t], v),
         Writes(call[t]) /\ v < 0 => fate[t] # "done" /\ LinkOf(t).req = {},
         Tells(t, call[t], v, fate[t]),
         LinkOf(t).req # {} =>
           Unreadable(t) /\ v = IF call[t].op \in {"lock", "wipe"} THEN -1 ELSE 1
  PROVE  IInv'
<1>1. /\ pc' = [pc EXCEPT ![t] = "idle"]
      /\ result' = [result EXCEPT ![t] = v]
      /\ UNCHANGED <<fd, files, link, ret, resp, call, acd, fate>>
  BY DEF ReturnLeaking, Goto, txeiVars
<1>2. TypeOK'
  BY <1>1, Facts DEF TypeOK, Places, TxeiTypeOK
<1>3. LegalRequests' /\ HandlesExclusive'
  BY <1>1, Facts, LegalStays DEF HandlesExclusive
<1>4. /\ pc'[t] = "idle" /\ result'[t] = v /\ LinkOf(t)' = LinkOf(t)
      /\ call'[t] = call[t] /\ fate'[t] = fate[t]
  BY <1>1, Facts DEF TypeOK, LinkOf
<1>5. ThreadInv(t)'
  <2>1. ~Succeeded(t)'
    BY <1>4 DEF Succeeded, Succ
  <2>2. Tells(t, call[t], result[t], fate[t])'
    BY <1>4, TellsPrimed
  <2>3. fd'[t] = 0 => ProcOf[t] \in NoStdin
    BY <1>1, Facts DEF OnConnection
  <2> QED BY <1>4, <2>1, <2>2, <2>3, TellsPrimed DEF ThreadInv, InCall, OnConnection, Settled, Writes
<1>6. \A u \in Thread \ {t} : Keeps(u)
  BY <1>1, Facts DEF TypeOK, Untouched, Keeps, LinkOf
<1> QED BY <1>2, <1>3, <1>5, <1>6, Compose

(* What a thread that is about to return knows.                            *)
LEMMA Checked ==
  ASSUME IInv, NEW t \in Thread, pc[t] = "check"
  PROVE  /\ call[t].op \in Ops /\ call[t].size \in Nat
         /\ EarlyError(call[t]) = 0
         /\ resp[t] \in Rsp
         /\ ret[t] \in {TEE_SUCCESSFUL, TEE_FAILURE}
         /\ ret[t] = TEE_SUCCESSFUL =>
              /\ LinkOf(t).req = {} /\ fate[t] \in {"done", "refused"}
              /\ resp[t].status \in Codes \cup {0}
              /\ resp[t].status = WriteOnly => call[t].op = "get"
              /\ resp[t].status \notin {0, WriteOnly} => fate[t] = "refused"
              /\ resp[t].status = 0 => Answered(fate[t])
              /\ resp[t].status = WriteOnly \/ (resp[t].status = 0 /\ resp[t].bytes # 0) =>
                   fate[t] = "done"
         /\ ret[t] # TEE_SUCCESSFUL => Unreadable(t)
<1>1. call[t] \in Calls /\ EarlyError(call[t]) = 0
  BY Facts DEF InCall
<1>2. call[t].op \in Ops /\ call[t].size \in Nat
  BY <1>1, AcdAssumption DEF CallSpace
<1>3. resp[t] \in Rsp /\ ret[t] \in {TEE_SUCCESSFUL, TEE_FAILURE}
  BY Facts DEF TypeOK
<1>4. ASSUME ret[t] = TEE_SUCCESSFUL
      PROVE  /\ LinkOf(t).req = {} /\ fate[t] \in {"done", "refused"}
             /\ resp[t].status \in Codes \cup {0}
             /\ resp[t].status = WriteOnly => call[t].op = "get"
             /\ resp[t].status \notin {0, WriteOnly} => fate[t] = "refused"
             /\ resp[t].status = 0 => Answered(fate[t])
             /\ resp[t].status = WriteOnly \/ (resp[t].status = 0 /\ resp[t].bytes # 0) =>
                  fate[t] = "done"
  <2>1. ret[t] # TEE_FAILURE
    BY <1>4, WordAssumption DEF TEE_FAILURE, TEE_SUCCESSFUL
  <2>2. Taken(t)
    BY <2>1, Facts DEF OnConnection
  <2>3. LinkOf(t).req = {} /\ fate[t] \in {"done", "refused"}
    BY <2>2, Facts DEF Taken, NoTraffic, TypeOK
  <2>4. resp[t].status \in Codes \cup {0}
    BY <2>2, <1>3 DEF Taken, Rsp
  <2>5. WriteOnly # 0 /\ 0 \notin FwError /\ -1 \notin FwError /\ WriteOnly \notin FwError
    BY Ints, UmipAssumption DEF Codes
  <2>6. CASE Truthful(t, resp[t])
    BY <2>2, <2>3, <2>4, <2>5, <2>6 DEF Taken, Truthful, Answered
  <2>7. CASE resp[t] = ClearResp /\ "empty" \in Faults
    BY <2>3, <2>4, <2>5, <2>7 DEF ClearResp, Answered
  <2> QED BY <2>2, <2>6, <2>7 DEF Taken
<1>5. ret[t] # TEE_SUCCESSFUL => Unreadable(t)
  BY Facts DEF OnConnection
<1> QED BY <1>1, <1>2, <1>3, <1>4, <1>5

(* A refusal, as the int that is returned.                                 *)
LEMMA Refused ==
  ASSUME IInv, NEW t \in Thread, pc[t] = "check", ret[t] = TEE_SUCCESSFUL,
         resp[t].status \notin {0, WriteOnly}
  PROVE  -AsInt(Minus(resp[t].status)) \in FwError /\ fate[t] = "refused"
<1>1. resp[t].status \in Codes /\ fate[t] = "refused"
  BY Checked
<1>2. AsInt(Minus(resp[t].status)) = -resp[t].status /\ resp[t].status \in Nat
  BY <1>1, Ints
<1>3. resp[t].status \in FwError
  BY <1>1, <1>2, Facts, WordAssumption
     DEF OnConnection, Taken, Truthful, ClearResp, TEE_SUCCESSFUL, TEE_FAILURE
<1> QED BY <1>1, <1>2, <1>3

LEMMA GetRejectStep ==
  ASSUME IInv, NEW t \in Thread, GetReject(t)
  PROVE  IInv'
<1>1. pc[t] = "send" /\ call[t].op = "get" /\ ReturnClosing(t, Illegal)
  BY DEF GetReject
<1>2. Illegal \in Int
  BY Ints DEF Codes
<1>3. Tells(t, call[t], Illegal, fate[t])
  <2>1. EarlyError(call[t]) = 0 /\ fate[t] = "none"
    BY <1>1, Facts DEF InCall, OnConnection, Unsent
  <2> QED BY <1>1, <2>1 DEF GetReject, Tells
<1> QED BY <1>1, <1>2, <1>3, ReturnClosingStep DEF Writes

LEMMA LockReturnStep ==
  ASSUME IInv, NEW t \in Thread, LockReturn(t)
  PROVE  IInv'
<1>1. pc[t] = "check" /\ call[t].op \in {"lock", "wipe"} /\ ~Writes(call[t])
  BY DEF LockReturn, Writes
<1>2. CASE ret[t] # 0
  <2>1. ReturnLeaking(t, -1)
    BY <1>1, <1>2, Checked, Ints DEF LockReturn, TEE_SUCCESSFUL
  <2>2. Unreadable(t) /\ Tells(t, call[t], -1, fate[t])
    BY <1>1, <1>2, Checked DEF Tells, TEE_SUCCESSFUL
  <2> QED BY <1>1, <2>1, <2>2, ReturnLeakingStep DEF Succ
<1>3. CASE ret[t] = 0
  <2>1. ReturnClosing(t, 0)
    BY <1>3, Ints DEF LockReturn
  <2>2. Tells(t, call[t], 0, fate[t])
    BY <1>1, <1>3, Checked DEF Tells, TEE_SUCCESSFUL
  <2> QED BY <1>1, <2>1, <2>2, ReturnClosingStep
<1> QED BY <1>2, <1>3

(* set_customer_data and provision_customer_data, when the answer could    *)
(* not be read (the int is 1) or is a refusal (the int is negative).       *)
LEMMA WriteFailedStep ==
  ASSUME IInv, NEW t \in Thread, pc[t] = "check", Writes(call[t]), NEW v \in Int,
         ReturnLeaking(t, v),
         \/ ret[t] # 0 /\ v = AsInt(Minus(ret[t]))
         \/ ret[t] = 0 /\ resp[t].status # 0 /\ v = AsInt(Minus(resp[t].status))
  PROVE  IInv'
<1>1. call[t].op \in {"set", "prov"}
  BY DEF Writes
<1>2. CASE ret[t] # 0
  <2>1. v = 1
    BY <1>2, Checked, Ints DEF TEE_SUCCESSFUL
  <2>2. ~Succ(call[t], v)
    BY <2>1 DEF Succ
  <2>3. Unreadable(t) /\ Tells(t, call[t], v, fate[t])
    BY <1>1, <1>2, <2>1, Checked DEF Tells, TEE_SUCCESSFUL
  <2> QED BY <1>1, <2>1, <2>2, <2>3, ReturnLeakingStep
<1>3. CASE ret[t] = 0
  <2>1. /\ resp[t].status \in Codes /\ resp[t].status # WriteOnly
        /\ LinkOf(t).req = {} /\ fate[t] = "refused"
    BY <1>1, <1>3, Checked DEF TEE_SUCCESSFUL
  <2>2. v < 0
    BY <1>3, <2>1, Ints
  <2>3. ~Succ(call[t], v)
    BY <2>2, AcdAssumption DEF Succ
  <2>4. -v \in FwError
    BY <1>3, <2>1, Refused, Ints DEF TEE_SUCCESSFUL
  <2>5. Tells(t, call[t], v, fate[t])
    BY <1>1, <2>1, <2>4, Checked DEF Tells
  <2> QED BY <1>1, <2>1, <2>3, <2>5, ReturnLeakingStep
<1> QED BY <1>2, <1>3

LEMMA SetReturnStep ==
  ASSUME IInv, NEW t \in Thread, SetReturn(t)
  PROVE  IInv'
<1>1. pc[t] = "check" /\ call[t].op = "set" /\ Writes(call[t])
  BY DEF SetReturn, Writes
<1>2. CASE ret[t] # 0
  <2>1. ReturnLeaking(t, AsInt(Minus(ret[t])))
    BY <1>2 DEF SetReturn
  <2>2. AsInt(Minus(ret[t])) \in Int
    BY <1>1, <1>2, Checked, Ints DEF TEE_SUCCESSFUL
  <2> QED BY <1>1, <1>2, <2>1, <2>2, WriteFailedStep
<1>3. CASE ret[t] = 0 /\ resp[t].status # 0
  <2>1. ReturnLeaking(t, AsInt(Minus(resp[t].status)))
    BY <1>3 DEF SetReturn
  <2>2. AsInt(Minus(resp[t].status)) \in Int
    BY <1>1, <1>3, Checked, Ints DEF TEE_SUCCESSFUL
  <2> QED BY <1>1, <1>3, <2>1, <2>2, WriteFailedStep
<1>4. CASE ret[t] = 0 /\ resp[t].status = 0
  <2>1. ReturnClosing(t, call[t].size)
    BY <1>4 DEF SetReturn
  <2>2. call[t].size \in Nat
    BY <1>1, Checked
  <2>3. Tells(t, call[t], call[t].size, fate[t])
    BY <1>1, <1>4, Checked DEF Tells, TEE_SUCCESSFUL
  <2>4. ~(call[t].size < 0)
    BY <2>2
  <2> QED BY <2>1, <1>1, <2>2, <2>3, <2>4, ReturnClosingStep
<1> QED BY <1>2, <1>3, <1>4

LEMMA GetReturnStep ==
  ASSUME IInv, NEW t \in Thread, GetReturn(t)
  PROVE  IInv'
<1>1. pc[t] = "check" /\ call[t].op = "get" /\ ~Writes(call[t])
  BY DEF GetReturn, Writes
<1>2. PICK v : /\ ReturnClosing(t, v)
               /\ \/ ret[t] # 0 /\ v = AsInt(Minus(ret[t]))
                  \/ /\ ret[t] = 0 /\ resp[t].status \notin {0, WriteOnly}
                     /\ v = AsInt(Minus(resp[t].status))
                  \/ /\ ret[t] = 0 /\ resp[t].status \in {0, WriteOnly}
                     /\ v \in {resp[t].bytes, NoMemory}
  BY DEF GetReturn
<1>3. AsInt(Minus(ret[t])) \in Int
  BY <1>1, Checked, Ints DEF TEE_SUCCESSFUL
<1>4. resp[t].bytes \in Int /\ NoMemory \in Int
  BY <1>1, Checked, Ints, AcdAssumption DEF Rsp, Codes
<1>5. AsInt(Minus(resp[t].status)) \in Int
  <2>1. resp[t].status \in Int
    BY <1>1, Checked, Ints DEF Rsp
  <2> QED BY <2>1, WordAssumption DEF AsInt, Minus
<1>6. Tells(t, call[t], v, fate[t])
  <2>1. CASE ret[t] # 0
    <3>1. v = 1 /\ Unreadable(t)
      BY <1>1, <1>2, <2>1, Checked, Ints DEF TEE_SUCCESSFUL
    <3> QED BY <1>1, <3>1, Checked DEF Tells
  <2>2. CASE ret[t] = 0 /\ resp[t].status \notin {0, WriteOnly}
    <3>1. -v \in FwError /\ fate[t] = "refused"
      BY <1>1, <1>2, <2>2, Refused DEF TEE_SUCCESSFUL
    <3> QED BY <1>1, <3>1, Checked DEF Tells
  <2>3. CASE ret[t] = 0 /\ resp[t].status \in {0, WriteOnly}
    <3>1. v \in {resp[t].bytes, NoMemory} /\ resp[t].bytes \in 0 .. MaxData
      BY <1>1, <1>2, <2>3, Checked DEF Rsp
    <3>2. /\ Answered(fate[t])
          /\ resp[t].bytes # 0 => fate[t] = "done"
      BY <1>1, <2>3, Checked DEF TEE_SUCCESSFUL, Answered
    <3> QED BY <1>1, <3>1, <3>2, Checked, AcdAssumption DEF Tells
  <2> QED BY <2>1, <2>2, <2>3
<1> QED BY <1>1, <1>2, <1>3, <1>4, <1>5, <1>6, ReturnClosingStep

LEMMA ProvReturnStep ==
  ASSUME IInv, NEW t \in Thread, ProvReturn(t)
  PROVE  IInv'
<1>1. pc[t] = "check" /\ call[t].op = "prov" /\ Writes(call[t])
  BY DEF ProvReturn, Writes
<1>2. CASE ret[t] # 0
  <2>1. ReturnLeaking(t, AsInt(Minus(ret[t])))
    BY <1>2 DEF ProvReturn
  <2>2. AsInt(Minus(ret[t])) \in Int
    BY <1>1, <1>2, Checked, Ints DEF TEE_SUCCESSFUL
  <2> QED BY <1>1, <1>2, <2>1, <2>2, WriteFailedStep
<1>3. CASE ret[t] = 0 /\ resp[t].status # 0
  <2>1. ReturnLeaking(t, AsInt(Minus(resp[t].status)))
    BY <1>3 DEF ProvReturn
  <2>2. AsInt(Minus(resp[t].status)) \in Int
    BY <1>1, <1>3, Checked, Ints DEF TEE_SUCCESSFUL
  <2> QED BY <1>1, <1>3, <2>1, <2>2, WriteFailedStep
<1>4. CASE ret[t] = 0 /\ resp[t].status = 0
  <2>1. \/ ReturnClosing(t, 0)
        \/ resp[t].bytes # 0 /\ ~call[t].out /\ ReturnLeaking(t, Illegal)
        \/ resp[t].bytes # 0 /\ ReturnLeaking(t, NoMemory)
    BY <1>4 DEF ProvReturn
  <2>2. Answered(fate[t]) /\ (resp[t].bytes # 0 => fate[t] = "done") /\ LinkOf(t).req = {}
    BY <1>1, <1>4, Checked DEF TEE_SUCCESSFUL
  <2>3. CASE ReturnClosing(t, 0)
    <3>1. Tells(t, call[t], 0, fate[t])
      BY <1>1, <2>2, Checked DEF Tells
    <3> QED BY <1>1, <2>3, <3>1, ReturnClosingStep
  <2>4. ASSUME NEW e \in {Illegal, NoMemory}, ReturnLeaking(t, e), resp[t].bytes # 0,
               (e = Illegal /\ ~call[t].out) \/ e = NoMemory
        PROVE  IInv'
    <3>1. e \in Int /\ e > 0
      BY Ints, AcdAssumption DEF Codes
    <3>2. Tells(t, call[t], e, fate[t])
      BY <1>1, <2>2, <2>4, Checked DEF Tells
    <3> QED BY <1>1, <2>2, <2>4, <3>1, <3>2, ReturnLeakingStep DEF Succ
  <2> QED BY <2>1, <2>3, <2>4
<1> QED BY <1>2, <1>3, <1>4

-----------------------------------------------------------------------------
(* process_cmd.                                                            *)

LEMMA SendCmdStep ==
  ASSUME IInv, NEW t \in Thread, SendCmd(t, call[t]), UNCHANGED <<call, result, acd, fate>>
  PROVE  IInv'
<1>1. /\ MeiWrite(t, call[t]) /\ pc[t] = "send" /\ fd[t] > 0
      /\ pc' = [pc EXCEPT ![t] = "select"]
      /\ UNCHANGED <<ret, resp, call, result, acd, fate>>
  BY DEF SendCmd, MeiWrite, Goto
<1>2. call[t] \in Calls /\ EarlyError(call[t]) = 0
  BY <1>1, Facts DEF InCall
<1>3. /\ TxeiTypeOK(Calls, Rsp)' /\ HandlesExclusive' /\ OthersUntouched(t)
      /\ fd' = fd /\ LinkOf(t)' = [req |-> {call[t]}, rsp |-> LinkOf(t).rsp]
      /\ \A p \in Process, f \in Fd : link'[p][f].req \in {link[p][f].req, {call[t]}}
  BY <1>1, <1>2, Facts, MeiWriteStep
<1>4. TypeOK'
  BY <1>1, <1>3, Facts DEF TypeOK, Places
<1>5. LegalRequests'
  BY <1>2, <1>3, Facts DEF LegalRequests, EarlyError, SetError, ProvError, LegalSize, Index
<1>6. pc'[t] = "select" /\ call'[t] = call[t] /\ fate'[t] = fate[t] /\ resp'[t] = resp[t]
  BY <1>1, Facts DEF TypeOK
<1>7. ThreadInv(t)'
  <2>1. Unsent(t) /\ resp[t] = ClearResp
    BY <1>1, Facts DEF OnConnection
  <2>2. LinkOf(t)' = [req |-> {call[t]}, rsp |-> {}]
    BY <1>3, <2>1 DEF Unsent, NoTraffic
  <2>3. InFlight(t)'
    BY <1>6, <2>1, <2>2 DEF InFlight, Unsent
  <2>4. fd'[t] > 0 /\ fd'[t] # NoFd
    BY <1>1, <1>3 DEF NoFd
  <2>5. InCall(t)'
    BY <1>2, <1>6 DEF InCall, EarlyError, SetError, ProvError, LegalSize, Index
  <2> QED BY <1>6, <2>1, <2>3, <2>4, <2>5 DEF ThreadInv, OnConnection, Settled, Returned
<1>8. \A u \in Thread \ {t} : Keeps(u)
  BY <1>1, <1>3, Facts DEF TypeOK, OthersUntouched, Keeps
<1> QED BY <1>3, <1>4, <1>5, <1>7, <1>8, Compose

(* A step that moves thread t to another place and no more than that.      *)
LEMMA MoveStep ==
  ASSUME IInv, NEW t \in Thread, NEW to \in Places \ {"idle"}, pc[t] # "idle",
         pc' = [pc EXCEPT ![t] = to],
         ret' \in {ret, [ret EXCEPT ![t] = TEE_FAILURE]},
         UNCHANGED <<txeiVars, resp, call, result, acd, fate>>,
         OnConnection(t)'
  PROVE  IInv'
<1>1. UNCHANGED <<fd, files, link, resp, call, result, acd, fate>>
  BY DEF txeiVars
<1>2. TypeOK'
  BY <1>1, Facts DEF TypeOK, TxeiTypeOK
<1>3. LegalRequests' /\ HandlesExclusive'
  BY <1>1, Facts, LegalStays DEF HandlesExclusive
<1>4. pc'[t] = to
  BY Facts DEF TypeOK
<1>5. ThreadInv(t)'
  <2>1. InCall(t)'
    BY <1>1, Facts DEF InCall
  <2> QED BY <1>4, <2>1 DEF ThreadInv, Settled, Returned
<1>6. \A u \in Thread \ {t} : Keeps(u)
  BY <1>1, Facts DEF TypeOK, Untouched, Keeps, LinkOf
<1> QED BY <1>2, <1>3, <1>5, <1>6, Compose

LEMMA SendCmdFailsStep ==
  ASSUME IInv, NEW t \in Thread, SendCmdFails(t), UNCHANGED <<call, result, acd, fate>>
  PROVE  IInv'
<1>1. /\ pc[t] = "send" /\ pc' = [pc EXCEPT ![t] = "recv"]
      /\ fd[t] <= 0 \/ "write" \in Faults
      /\ UNCHANGED <<txeiVars, ret, resp>>
  BY DEF SendCmdFails, MeiWriteFails, Goto
<1>2. UNCHANGED <<fd, link>> /\ pc'[t] = "recv"
  BY <1>1, Facts DEF txeiVars, TypeOK
<1>3. /\ fd[t] # NoFd /\ Unsent(t) /\ resp[t] = ClearResp
      /\ fd[t] = 0 => ProcOf[t] \in NoStdin
  BY <1>1, Facts DEF OnConnection
<1>4. OnConnection(t)'
  BY <1>1, <1>2, <1>3 DEF OnConnection, Unsent, LinkOf, NoFd
<1> QED BY <1>1, <1>4, MoveStep DEF Places

LEMMA SelectStep ==
  ASSUME IInv, NEW t \in Thread, SelectReady(t) \/ SelectGivesUp(t),
         UNCHANGED <<call, result, acd, fate>>
  PROVE  IInv'
<1>1. /\ pc[t] = "select" /\ pc' = [pc EXCEPT ![t] = "recv"]
      /\ UNCHANGED <<txeiVars, ret, resp>>
  BY DEF SelectReady, SelectGivesUp, Goto
<1>2. UNCHANGED <<fd, link>> /\ pc'[t] = "recv"
  BY <1>1, Facts DEF txeiVars, TypeOK
<1>3. fd[t] # NoFd /\ fd[t] > 0 /\ InFlight(t) /\ resp[t] = ClearResp
  BY <1>1, Facts DEF OnConnection
<1>4. InFlight(t)'
  BY <1>2, <1>3 DEF InFlight, LinkOf, Truthful
<1>5. OnConnection(t)'
  BY <1>1, <1>2, <1>3, <1>4 DEF OnConnection
<1> QED BY <1>1, <1>5, MoveStep DEF Places

LEMMA RecvCmdFailsStep ==
  ASSUME IInv, NEW t \in Thread, RecvCmdFails(t), UNCHANGED <<call, result, acd, fate>>
  PROVE  IInv'
<1>1. /\ pc[t] = "recv" /\ pc' = [pc EXCEPT ![t] = "check"]
      /\ ret' = [ret EXCEPT ![t] = TEE_FAILURE]
      /\ UNCHANGED <<txeiVars, resp>>
  BY DEF RecvCmdFails, MeiReadFails, Goto
<1>2. UNCHANGED <<fd, link>> /\ pc'[t] = "check" /\ ret'[t] = TEE_FAILURE
  BY <1>1, Facts DEF txeiVars, TypeOK
<1>3. /\ fd[t] # NoFd /\ (InFlight(t) \/ Unsent(t))
      /\ fd[t] = 0 => ProcOf[t] \in NoStdin
  BY <1>1, Facts DEF OnConnection
<1>4. InFlight(t)' \/ Unsent(t)'
  BY <1>2, <1>3 DEF InFlight, Unsent, LinkOf, Truthful
<1>5. Unreadable(t)
  <2>1. fd[t] <= 0 \/ "read" \in Faults
    BY DEF RecvCmdFails, MeiReadFails
  <2>2. fd[t] \in 0 .. MaxFd
    BY <1>3, Facts DEF Fd
  <2>3. fd[t] <= 0 => fd[t] = 0
    BY <2>2, TxeiAssumption
  <2> QED BY <1>3, <2>1, <2>3 DEF Unreadable
<1>6. OnConnection(t)'
  BY <1>1, <1>2, <1>3, <1>4, <1>5, TellsPrimed DEF OnConnection
<1> QED BY <1>1, <1>6, MoveStep DEF Places

LEMMA RecvCmdStep ==
  ASSUME IInv, NEW t \in Thread, RecvCmd(t), UNCHANGED <<call, result, acd, fate>>
  PROVE  IInv'
<1>1. PICK r \in LinkOf(t).rsp :
        /\ MeiRead(t, r)
        /\ resp' = [resp EXCEPT ![t] = IF r = EmptyRead THEN @ ELSE r]
  BY DEF RecvCmd
<1>2. /\ pc[t] = "recv" /\ pc' = [pc EXCEPT ![t] = "check"]
      /\ ret' = [ret EXCEPT ![t] = TEE_SUCCESSFUL]
  BY DEF RecvCmd, Goto
<1>3. /\ TxeiTypeOK(Calls, Rsp)' /\ HandlesExclusive' /\ OthersUntouched(t)
      /\ fd' = fd /\ LinkOf(t)' = [req |-> LinkOf(t).req, rsp |-> {}]
      /\ r \in Rsp
      /\ \A p \in Process, f \in Fd : link'[p][f].req \in {link[p][f].req, LinkOf(t).req}
  BY <1>1, Facts, MeiReadStep
<1>4. /\ fd[t] # NoFd /\ resp[t] = ClearResp /\ fate[t] # "none"
      /\ LinkOf(t) = [req |-> {}, rsp |-> {r}] /\ Truthful(t, r)
  <2>1. fd[t] # NoFd /\ resp[t] = ClearResp /\ (InFlight(t) \/ Unsent(t))
    BY <1>2, Facts DEF OnConnection
  <2> QED BY <1>1, <2>1 DEF InFlight, Unsent, NoTraffic
<1>5. TypeOK'
  BY <1>1, <1>2, <1>3, Facts DEF TypeOK, Places
<1>6. LegalRequests'
  BY <1>3, <1>4, Facts, LegalStays
<1>7. /\ pc'[t] = "check" /\ ret'[t] = TEE_SUCCESSFUL
      /\ resp'[t] = IF r = EmptyRead THEN ClearResp ELSE r
  BY <1>1, <1>2, <1>4, Facts DEF TypeOK
<1>8. Taken(t)'
  <2>1. LinkOf(t)' = NoTraffic
    BY <1>3, <1>4 DEF NoTraffic
  <2>2. CASE r = EmptyRead
    <3>1. "empty" \in Faults /\ resp'[t] = ClearResp /\ ClearResp.status # -1
      BY <1>4, <1>7, <2>2 DEF Truthful, EmptyRead, ClearResp
    <3> QED BY <1>4, <2>1, <3>1 DEF Taken
  <2>3. CASE r # EmptyRead
    <3>1. r.status # -1 /\ resp'[t] = r
      BY <1>4, <1>7, <2>3 DEF Truthful
    <3> QED BY <1>4, <2>1, <3>1 DEF Taken, Truthful
  <2> QED BY <2>2, <2>3
<1>9. ThreadInv(t)'
  <2>1. InCall(t)'
    BY <1>2, Facts DEF InCall
  <2>2. fd'[t] = 0 => ProcOf[t] \in NoStdin
    BY <1>3, Facts DEF OnConnection
  <2> QED BY <1>3, <1>4, <1>7, <1>8, <2>1, <2>2 DEF ThreadInv, OnConnection, Settled, Returned
<1>10. \A u \in Thread \ {t} : Keeps(u)
  BY <1>1, <1>2, <1>3, Facts DEF TypeOK, OthersUntouched, Keeps
<1> QED BY <1>3, <1>5, <1>6, <1>9, <1>10, Compose

-----------------------------------------------------------------------------
(* The firmware.                                                           *)

LEMMA AcceptTyped ==
  ASSUME acd \in Table, NEW c \in Calls, EarlyError(c) = 0, CanAccept(acd, c)
  PROVE  Accept(acd, c) \in Table /\ Returns(acd, c) \subseteq 0 .. MaxData
<1>1. c.op \in Ops /\ c.index \in Nat /\ c.size \in Nat
  BY AcdAssumption DEF CallSpace
<1>2. c.op = "set" => c.size \in 0 .. MaxData
  BY <1>1, UmipAssumption, Ints, AcdAssumption DEF EarlyError, SetError, LegalSize, Codes
<1>3. Accept(acd, c) \in Table
  <2>1. CASE c.op = "lock"
    BY <2>1 DEF Accept, Table
  <2>2. CASE c.op = "wipe"
    BY <2>2, AcdAssumption DEF Accept, EmptyTable, Table
  <2>3. CASE c.op = "set"
    BY <1>2, <2>3 DEF Accept, Table
  <2>4. CASE c.op = "prov"
    BY <1>1, <2>4 DEF Accept, Table
  <2>5. CASE c.op = "get"
    BY <2>5 DEF Accept
  <2> QED BY <1>1, <2>1, <2>2, <2>3, <2>4, <2>5 DEF Ops
<1>4. Returns(acd, c) \subseteq 0 .. MaxData
  <2>1. c.op = "get" => acd.data[c.index] \in 0 .. MaxData
    BY DEF CanAccept, Table
  <2> QED BY <1>1, <2>1, AcdAssumption DEF Returns
<1> QED BY <1>3, <1>4

(* What is told of a command that is still out does not depend on its fate.  *)
LEMMA Still ==
  ASSUME IInv, NEW u \in Thread, Returned(u), fd[u] # NoFd, LinkOf(u).req # {},
         UNCHANGED <<call, result>>
  PROVE  Tells(u, call[u], result[u], fate[u])'
<1>1. /\ Unreadable(u) /\ Tells(u, call[u], result[u], fate[u])
      /\ result[u] = IF call[u].op \in {"lock", "wipe"} THEN -1 ELSE 1
  BY Facts DEF Settled
<1>2. call[u].op \in {"lock", "wipe", "set", "get", "prov"}
  BY Facts, AcdAssumption DEF Returned, TypeOK, CallSpace, Ops
<1>3. EarlyError(call[u]) = 0
  <2>1. EarlyError(call[u]) \in {0, Illegal, TooLarge}
    BY DEF EarlyError, SetError, ProvError
  <2>2. result[u] \notin {Illegal, TooLarge}
    BY <1>1, Ints, AcdAssumption DEF Codes
  <2> QED BY <1>1, <2>1, <2>2 DEF Tells
<1>4. Tells(u, call[u], result[u], fate'[u])
  BY <1>1, <1>2, <1>3 DEF Tells
<1> QED BY <1>4, TellsPrimed

(* An answer r to a command c on descriptor f of process p, and what it    *)
(* says of the fate of c.                                                  *)
LEMMA AnsweredStep ==
  ASSUME IInv, NEW p \in Process, NEW f \in Fd, NEW c \in link[p][f].req,
         NEW r \in Rsp, MeiAnswer(p, f, r), NEW what \in {"done", "refused"},
         fate' = [t \in Thread |-> IF t \in Waiting(p, f) THEN what ELSE fate[t]],
         UNCHANGED <<pc, ret, resp, call, result>>,
         acd' \in Table,
         what = "done" => r.status \in {0, WriteOnly, -1},
         r.status = WriteOnly => c.op = "get",
         what = "refused" => r.status \in FwError \cup {-1},
         r.status = -1 => r = EmptyRead /\ "empty" \in Faults
  PROVE  IInv'
<1>0. TypeOK /\ TxeiTypeOK(Calls, Rsp) /\ HandlesExclusive /\ LegalRequests
  BY DEF IInv, TypeOK
<1>1. /\ TxeiTypeOK(Calls, Rsp)' /\ HandlesExclusive'
      /\ fd' = fd
      /\ \A u \in Thread : ~(ProcOf[u] = p /\ fd[u] = f) => Untouched(u)
      /\ \A u \in Thread : ProcOf[u] = p /\ fd[u] = f =>
           LinkOf(u)' = [req |-> {}, rsp |-> {r}]
      /\ \A q \in Process, g \in Fd : link'[q][g].req \in {link[q][g].req, {}}
  BY <1>0, MeiAnswerStep
<1>2. TypeOK'
  BY <1>0, <1>1 DEF TypeOK
<1>3. LegalRequests'
  BY <1>0, <1>1, LegalStays
<1>4. ASSUME NEW u \in Thread, ~(ProcOf[u] = p /\ fd[u] = f)
      PROVE  ThreadInv(u)'
  <2>1. Keeps(u)
    BY <1>1, <1>4 DEF Keeps, Waiting
  <2> QED BY <2>1, Facts, Frame
<1>5. ASSUME NEW u \in Thread, ProcOf[u] = p, fd[u] = f
      PROVE  ThreadInv(u)'
  <2>1. LinkOf(u)' = [req |-> {}, rsp |-> {r}] /\ fate'[u] = what /\ fd'[u] = fd[u]
    BY <1>1, <1>5 DEF Waiting
  <2>2. c \in LinkOf(u).req /\ LinkOf(u) # NoTraffic
    BY <1>5 DEF LinkOf, NoTraffic
  <2>3. fd[u] # NoFd
    BY <1>5, TxeiAssumption DEF Fd, NoFd
  <2>4. InCall(u)' /\ (fd'[u] = 0 => ProcOf[u] \in NoStdin)
    BY <2>1, Facts DEF InCall, OnConnection
  <2>5. CASE pc[u] = "idle"
    <3>1. Settled(u)'
      <4>1. Settled(u)
        BY Facts
      <4>2. Succeeded(u)' <=> Succeeded(u)
        BY DEF Succeeded
      <4>3. Returned(u)' <=> Returned(u)
        BY DEF Returned
      <4>4. Returned(u) => Tells(u, call[u], result[u], fate[u])'
        BY <2>2, <2>3, Still
      <4>5. LinkOf(u)'.req = {}
        BY <2>1
      <4> QED BY <2>1, <2>2, <2>3, <4>1, <4>2, <4>3, <4>4, <4>5 DEF Settled
    <3> QED BY <2>1, <2>4, <2>5, <3>1 DEF ThreadInv, OnConnection
  <2>6. CASE pc[u] # "idle"
    <3>1. /\ pc[u] \in {"select", "recv", "check"} /\ InFlight(u)
          /\ pc[u] \in {"select", "recv"} => fd[u] > 0 /\ resp[u] = ClearResp
      BY <2>2, <2>3, <2>6, <1>0, Facts DEF OnConnection, Taken, Unsent, TypeOK, Places
    <3>2. c = call[u]
      BY <2>2, <3>1 DEF InFlight
    <3>3. InFlight(u)'
      <4>1. Truthful(u, r)'
        BY <2>1, <3>2, <1>0 DEF Truthful
      <4> QED BY <2>1, <4>1 DEF InFlight
    <3>4. pc[u] = "check" => ret[u] = TEE_FAILURE
      BY <2>2, <3>1, Facts DEF OnConnection, Taken
    <3>6. pc[u] = "check" => Unreadable(u)'
      BY <2>2, <3>1, Facts, TellsPrimed DEF OnConnection, Taken
    <3>5. OnConnection(u)'
      BY <2>1, <2>3, <2>4, <3>1, <3>3, <3>4, <3>6 DEF OnConnection
    <3> QED BY <2>4, <2>6, <3>5 DEF ThreadInv, Settled, Returned
  <2> QED BY <2>5, <2>6
<1>6. \A u \in Thread : ThreadInv(u)'
  BY <1>4, <1>5
<1> QED BY <1>1, <1>2, <1>3, <1>6 DEF IInv, ThreadInv, Settled, LeakOnlyOnFailure,
                                    NegativeIsFinal, ReturnTells

LEMMA FwAcceptsStep ==
  ASSUME IInv, NEW p \in Process, NEW f \in Fd, FwAccepts(p, f)
  PROVE  IInv'
<1>1. PICK c \in link[p][f].req : /\ CanAccept(acd, c)
                                  /\ acd' = Accept(acd, c)
                                  /\ \E r \in Answers(c) \cup Mute : MeiAnswer(p, f, r)
  BY DEF FwAccepts
<1>2. PICK r \in Answers(c) \cup Mute : MeiAnswer(p, f, r)
  BY <1>1
<1>3. c \in Calls /\ EarlyError(c) = 0 /\ acd \in Table
  BY DEF IInv, TypeOK, TxeiTypeOK, LegalRequests
<1>4. acd' \in Table /\ Returns(acd, c) \subseteq 0 .. MaxData
  BY <1>1, <1>3, AcceptTyped
<1>5. WriteOnly \in Codes /\ 0 # WriteOnly /\ WriteOnly # -1
  BY Ints DEF Codes
<1>6. CASE r \in Mute
  <2>1. r = EmptyRead /\ "empty" \in Faults /\ r.status = -1
    BY <1>6 DEF Mute, EmptyRead
  <2>2. r \in Rsp
    BY <2>1, AcdAssumption DEF EmptyRead, Rsp
  <2> QED BY <1>2, <1>4, <1>5, <2>1, <2>2, AnsweredStep DEF FwAccepts
<1>7. CASE r \in Answers(c)
  <2>1. r \in [status : {0, WriteOnly}, bytes : Returns(acd, c)]
    BY <1>7 DEF Answers
  <2>2. r \in Rsp /\ r.status \in {0, WriteOnly} /\ r.status # -1
    BY <1>4, <1>5, <2>1 DEF Rsp
  <2>3. r.status = WriteOnly => c.op = "get"
    BY <1>5, <1>7 DEF Answers
  <2> QED BY <1>2, <1>4, <2>2, <2>3, AnsweredStep DEF FwAccepts
<1> QED BY <1>6, <1>7

LEMMA FwRefusesStep ==
  ASSUME IInv, NEW p \in Process, NEW f \in Fd, FwRefuses(p, f)
  PROVE  IInv'
<1>1. PICK c \in link[p][f].req :
        \E r \in [status : FwError, bytes : {0}] \cup Mute : MeiAnswer(p, f, r)
  BY DEF FwRefuses
<1>2. PICK r \in [status : FwError, bytes : {0}] \cup Mute : MeiAnswer(p, f, r)
  BY <1>1
<1>3. acd' \in Table
  BY DEF IInv, TypeOK, FwRefuses
<1>4. CASE r \in Mute
  <2>1. r = EmptyRead /\ "empty" \in Faults /\ r.status = -1
    BY <1>4 DEF Mute, EmptyRead
  <2>2. r \in Rsp /\ r.status # WriteOnly
    BY <2>1, Ints, AcdAssumption DEF EmptyRead, Rsp, Codes
  <2> QED BY <1>2, <1>3, <2>1, <2>2, AnsweredStep DEF FwRefuses
<1>5. CASE r \in [status : FwError, bytes : {0}]
  <2>1. r \in Rsp /\ r.status \in FwError
    BY <1>5, AcdAssumption DEF Rsp, Codes
  <2>2. r.status # WriteOnly /\ r.status # -1
    BY <2>1, Ints, UmipAssumption DEF Codes
  <2> QED BY <1>2, <1>3, <2>1, <2>2, AnsweredStep DEF FwRefuses
<1> QED BY <1>4, <1>5

-----------------------------------------------------------------------------
LEMMA InitInv ==
  ASSUME Init PROVE IInv
<1>1. ClearResp \in Rsp
  BY AcdAssumption DEF ClearResp, Rsp
<1>2. EmptyTable \in Table
  BY AcdAssumption DEF EmptyTable, Table
<1>3. TypeOK
  BY <1>1, <1>2 DEF Init, TeeInit, TxeiInit, TypeOK, TxeiTypeOK, Places, NoTraffic, TEE_SUCCESSFUL
<1>4. LegalRequests
  BY DEF Init, TeeInit, TxeiInit, LegalRequests, NoTraffic
<1>5. HandlesExclusive
  BY DEF Init, TeeInit, TxeiInit, HandlesExclusive
<1>6. ASSUME NEW t \in Thread PROVE ThreadInv(t)
  BY DEF Init, TeeInit, TxeiInit, ThreadInv, InCall, OnConnection, NoFd, Settled, Returned
<1> QED BY <1>3, <1>4, <1>5, <1>6, IInvByThread

LEMMA StutterInv ==
  ASSUME IInv, UNCHANGED vars PROVE IInv'
<1>1. UNCHANGED <<fd, files, link, pc, ret, resp, call, result, acd, fate>>
  BY DEF vars, teeVars, txeiVars
<1>2. TypeOK'
  BY <1>1 DEF IInv, TypeOK, TxeiTypeOK
<1>3. LegalRequests' /\ HandlesExclusive'
  BY <1>1, LegalStays DEF IInv, HandlesExclusive
<1>4. ASSUME NEW t \in Thread PROVE ThreadInv(t)'
  BY <1>1, <1>4, Facts, Frame DEF Keeps, Untouched, LinkOf
<1> QED BY <1>2, <1>3, <1>4 DEF IInv, ThreadInv, Settled, LeakOnlyOnFailure,
                               NegativeIsFinal, ReturnTells

(* Every step of the threads and of the firmware preserves IInv.           *)
LEMMA NextInv ==
  ASSUME IInv, [Next]_vars PROVE IInv'
<1>1. ASSUME NEW t \in Thread, Begin(t) PROVE IInv'
  BY <1>1, BeginStep
<1>2. ASSUME NEW t \in Thread, Reject(t) PROVE IInv'
  BY <1>2, RejectStep
<1>3. ASSUME NEW t \in Thread, Connect(t) PROVE IInv'
  BY <1>3, ConnectStep
<1>4. ASSUME NEW t \in Thread, ConnectFails(t) PROVE IInv'
  BY <1>4, ConnectFailsStep
<1>5. ASSUME NEW t \in Thread, Process_cmd(t) PROVE IInv'
  BY <1>5, SendCmdStep, SendCmdFailsStep, SelectStep, RecvCmdStep, RecvCmdFailsStep
     DEF Process_cmd, ProcessCmd
<1>6. ASSUME NEW t \in Thread, Return(t) PROVE IInv'
  BY <1>6, GetRejectStep, LockReturnStep, SetReturnStep, GetReturnStep, ProvReturnStep
     DEF Return
<1>7. ASSUME NEW p \in Process, NEW f \in Fd, FwStep(p, f) PROVE IInv'
  BY <1>7, FwAcceptsStep, FwRefusesStep DEF FwStep
<1>8. CASE UNCHANGED vars
  BY <1>8, StutterInv
<1> QED BY <1>1, <1>2, <1>3, <1>4, <1>5, <1>6, <1>7, <1>8 DEF Next, CallStep

(* Success of set_customer_data and provision_customer_data is to be relied *)
(* on, unless replies may have no bytes.                                   *)
LEMMA SuccessTells ==
  ASSUME IInv, NEW t \in Thread, Returned(t), call[t].op \in {"set", "prov"}, Succeeded(t),
         "empty" \notin Faults
  PROVE  fate[t] = "done"
<1>1. Tells(t, call[t], result[t], fate[t]) /\ result[t] \in Int
  BY Facts DEF Settled, TypeOK
<1>2. {Illegal, TooLarge, NoMemory} \subseteq Codes /\ FwError \subseteq Codes
  BY DEF Codes
<1>3. EarlyError(call[t]) \in {0, Illegal, TooLarge}
  BY DEF EarlyError, SetError, ProvError
<1>4. CASE call[t].op = "set"
  <2>1. result[t] = call[t].size /\ result[t] \in 2 .. MaxData
    BY <1>4 DEF Succeeded
  <2>2. result[t] \notin Codes /\ -result[t] \notin Codes
    BY <2>1, Ints, AcdAssumption
  <2>3. EarlyError(call[t]) = 0 /\ -result[t] \notin FwError
    BY <1>1, <1>2, <1>3, <2>1, <2>2 DEF Tells
  <2>4. result[t] # 1 /\ result[t] # -1
    BY <2>1, AcdAssumption
  <2> QED BY <1>1, <1>4, <2>3, <2>4 DEF Tells, Answered
<1>5. CASE call[t].op = "prov"
  <2>1. result[t] = 0
    BY <1>5 DEF Succeeded
  <2>2. 0 \notin Codes
    BY Ints
  <2>3. EarlyError(call[t]) = 0 /\ -result[t] \notin FwError
    BY <1>1, <1>2, <1>3, <2>1, <2>2 DEF Tells
  <2> QED BY <1>1, <1>5, <2>1, <2>3 DEF Tells, Answered
<1> QED BY <1>4, <1>5

(* The library and the firmware stay within their types, and a thread's    *)
(* place determines what is on its connection.                             *)
THEOREM Invariance == Spec => []IInv
<1>1. Init => IInv
  BY InitInv
<1>2. IInv /\ [Next]_vars => IInv'
  BY NextInv
<1> QED BY <1>1, <1>2, PTL DEF Spec

(* Type correctness (mei_handle, buffers, codes and the firmware's table). *)
THEOREM TypeCorrect == Spec => []TypeOK
<1>1. IInv => TypeOK
  BY DEF IInv
<1> QED BY <1>1, Invariance, PTL

(* No mei_disconnect closes a descriptor that mei_connect has meanwhile    *)
(* given to another thread of the process (Lib/txei_lib.c:98-172).         *)
THEOREM Exclusive == Spec => []HandlesExclusive
<1>1. IInv => HandlesExclusive
  BY DEF IInv
<1> QED BY <1>1, Invariance, PTL

(* Only failed calls of lock, wipe, set and provision leave a connection   *)
(* open (umip_access.c:103, 168, 279, 297, 517, 535, 558, 566).            *)
THEOREM LeaksAreFailures == Spec => []LeakOnlyOnFailure
<1>1. IInv => LeakOnlyOnFailure
  BY DEF IInv
<1> QED BY <1>1, Invariance, PTL

(* A negative int from set_customer_data or provision_customer_data means  *)
(* that the command was not carried out and never will be.                 *)
THEOREM NegativesAreFinal == Spec => []NegativeIsFinal
<1>1. IInv => NegativeIsFinal
  BY DEF IInv
<1> QED BY <1>1, Invariance, PTL

(* What any int from the library tells of the firmware's table: the        *)
(* complete contract of the five calls (umip_access.c:61-568).             *)
THEOREM ReturnsTell == Spec => []ReturnTells
<1>1. IInv => ReturnTells
  BY DEF IInv
<1> QED BY <1>1, Invariance, PTL

(* Without failing writes no thread blocks in a read() that nothing will   *)
(* ever answer (tee_if.c:136-168).                                         *)
THEOREM NeverHung == Spec => []NoHang
<1>1. ASSUME IInv PROVE NoHang
  <2>1. ASSUME "write" \notin Faults, NEW t \in Thread, Hung(t) PROVE FALSE
    <3>1. pc[t] = "recv" /\ fd[t] > 0 /\ LinkOf(t) = NoTraffic
      BY <2>1 DEF Hung
    <3>2. fd[t] \in Int
      BY <3>1, <1>1, Facts, TxeiAssumption DEF OnConnection, Fd, TxeiTypeOK
    <3>3. InFlight(t)
      BY <1>1, <2>1, <3>1, <3>2, Facts DEF OnConnection
    <3>4. LinkOf(t).req # {} \/ LinkOf(t).rsp # {}
      BY <3>3 DEF InFlight
    <3>5. LinkOf(t).req = {} /\ LinkOf(t).rsp = {}
      BY <3>1 DEF NoTraffic
    <3> QED BY <3>4, <3>5
  <2> QED BY <2>1 DEF NoHang
<1> QED BY <1>1, Invariance, PTL

(* What umip_access.h:199 says of set_customer_data is true as long as its *)
(* arguments are legal, reads of answers do not fail, replies have bytes   *)
(* and no process runs without stdin: failures of connect and of write are *)
(* reported by negative ints, however calls interleave.                    *)
THEOREM SetFailuresNegative ==
  ASSUME Faults \cap {"read", "empty"} = {}, NoStdin = {},
         \A c \in Calls : c.op = "set" => SetError(c) = 0
  PROVE  Spec => []SetFailureIsNegative
<1>1. ASSUME IInv PROVE SetFailureIsNegative
  <2> SUFFICES ASSUME NEW t \in Thread, Returned(t), call[t].op = "set", fate[t] # "done"
               PROVE  result[t] < 0
    BY DEF SetFailureIsNegative
  <2>1. call[t] \in Calls /\ result[t] \in Int
    BY <1>1, Facts DEF Returned, TypeOK
  <2>2. EarlyError(call[t]) = 0 /\ ~Unreadable(t)
    BY <2>1 DEF EarlyError, Unreadable
  <2>3. Tells(t, call[t], result[t], fate[t])
    BY <1>1 DEF IInv, ReturnTells
  <2>4. result[t] = -1 \/ -result[t] \in FwError
    BY <2>2, <2>3 DEF Tells, Answered
  <2>5. \A e \in FwError : e \in Nat /\ e > 0
    BY UmipAssumption, AcdAssumption DEF Codes
  <2> QED BY <2>1, <2>4, <2>5
<1> QED BY <1>1, Invariance, PTL

=============================================================================
