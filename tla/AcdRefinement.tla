--------------------------- MODULE AcdRefinement ----------------------------
(***************************************************************************)
(* UmipAccess implements AcdService, for any threads, processes, calls,    *)
(* faults and sizes: under the mapping at the end of UmipAccess, every     *)
(* step of the code is one step of the service or none.                    *)
(***************************************************************************)
EXTENDS UmipAccessProofs

(* What IInv says of the connections of calls under way does not reach the *)
(* connections that were left behind.  Two facts on every descriptor do:   *)
(* one that is closed carries nothing, and none carries two commands.      *)
Traffic ==
  \A p \in Process, f \in Fd :
    /\ f \notin files[p] => link[p][f] = NoTraffic
    /\ \A c, d \in link[p][f].req : c = d

RInv == IInv /\ Traffic

-----------------------------------------------------------------------------
(* Traffic is inductive, given IInv.                                       *)

LEMMA TrafficOpens ==
  ASSUME IInv, Traffic, NEW t \in Thread, MeiConnect(t)
  PROVE  Traffic'
<1> DEFINE p == ProcOf[t]
<1>1. PICK f \in Fd : /\ files' = [files EXCEPT ![p] = @ \cup {f}]
                      /\ link' = [link EXCEPT ![p][f] = NoTraffic]
  BY DEF MeiConnect, FreeFd
<1> QED BY <1>1, Facts DEF Traffic, NoTraffic, TxeiTypeOK

LEMMA TrafficCloses ==
  ASSUME IInv, Traffic, NEW t \in Thread, MeiDisconnect(t)
  PROVE  Traffic'
BY Facts DEF MeiDisconnect, Traffic, NoTraffic, TxeiTypeOK

(* A thread that holds a handle holds an open descriptor.                  *)
LEMMA Open ==
  ASSUME IInv, NEW t \in Thread, fd[t] # NoFd
  PROVE  fd[t] \in files[ProcOf[t]] /\ ProcOf[t] \in Process /\ fd[t] \in Fd
BY Facts DEF HandlesExclusive

LEMMA TrafficCalls ==
  ASSUME IInv, Traffic, NEW t \in Thread, ProcessCmd(t, call[t])
  PROVE  Traffic'
<1>1. CASE SendCmd(t, call[t])
  <2>1. /\ link' = [link EXCEPT ![ProcOf[t]][fd[t]].req = {call[t]}]
        /\ fd[t] > 0 /\ files' = files
    BY <1>1 DEF SendCmd, MeiWrite
  <2>2. fd[t] # NoFd
    BY <2>1 DEF NoFd
  <2> QED BY <2>1, <2>2, Open, Facts DEF Traffic, NoTraffic, TxeiTypeOK
<1>2. CASE RecvCmd(t)
  <2>1. /\ link' = [link EXCEPT ![ProcOf[t]][fd[t]].rsp = {}]
        /\ fd[t] > 0 /\ files' = files
    BY <1>2 DEF RecvCmd, MeiRead
  <2>2. fd[t] # NoFd
    BY <2>1 DEF NoFd
  <2> QED BY <2>1, <2>2, Open, Facts DEF Traffic, NoTraffic, TxeiTypeOK
<1>3. CASE SendCmdFails(t) \/ SelectReady(t) \/ SelectGivesUp(t) \/ RecvCmdFails(t)
  BY <1>3 DEF SendCmdFails, MeiWriteFails, SelectReady, SelectGivesUp, RecvCmdFails,
              MeiReadFails, txeiVars, Traffic
<1> QED BY <1>1, <1>2, <1>3 DEF ProcessCmd

LEMMA TrafficAnswered ==
  ASSUME IInv, Traffic, NEW p \in Process, NEW f \in Fd, FwStep(p, f)
  PROVE  Traffic'
<1>1. link[p][f].req # {} /\ \E r : MeiAnswer(p, f, r)
  BY DEF FwStep, FwAccepts, FwRefuses
<1>2. f \in files[p]
  BY <1>1 DEF Traffic, NoTraffic
<1>3. TxeiTypeOK(Calls, Rsp)
  BY DEF IInv, TypeOK
<1> QED BY <1>1, <1>2, <1>3 DEF MeiAnswer, Traffic, NoTraffic, TxeiTypeOK

LEMMA ReturnEnds ==
  ASSUME NEW t \in Thread, Return(t)
  PROVE  \E v : ReturnClosing(t, v) \/ ReturnLeaking(t, v)
BY DEF Return, GetReject, LockReturn, SetReturn, GetReturn, ProvReturn

LEMMA TrafficStep ==
  ASSUME RInv, [Next]_vars PROVE Traffic'
<1>0. IInv /\ Traffic
  BY DEF RInv
<1>1. ASSUME NEW t \in Thread, Begin(t) \/ Reject(t) \/ ConnectFails(t) PROVE Traffic'
  BY <1>0, <1>1 DEF Begin, Reject, ConnectFails, TeeOpenFails, MeiConnectFails, ForgetHandle,
              txeiVars, Traffic
<1>2. ASSUME NEW t \in Thread, Connect(t) PROVE Traffic'
  BY <1>0, <1>2, TrafficOpens DEF Connect, TeeOpen
<1>3. ASSUME NEW t \in Thread, Process_cmd(t) PROVE Traffic'
  BY <1>0, <1>3, TrafficCalls DEF Process_cmd
<1>4. ASSUME NEW t \in Thread, Return(t) PROVE Traffic'
  <2>1. PICK v : ReturnClosing(t, v) \/ ReturnLeaking(t, v)
    BY <1>4, ReturnEnds
  <2>2. CASE ReturnClosing(t, v)
    BY <1>0, <2>2, TrafficCloses DEF ReturnClosing
  <2>3. CASE ReturnLeaking(t, v)
    BY <1>0, <2>3 DEF ReturnLeaking, txeiVars, Traffic
  <2> QED BY <2>1, <2>2, <2>3
<1>5. ASSUME NEW p \in Process, NEW f \in Fd, FwStep(p, f) PROVE Traffic'
  BY <1>0, <1>5, TrafficAnswered
<1>6. CASE UNCHANGED vars
  BY <1>0, <1>6 DEF vars, teeVars, txeiVars, Traffic
<1> QED BY <1>1, <1>2, <1>3, <1>4, <1>5, <1>6 DEF Next, CallStep

(* Calls under way and connections left behind: what is on each of them.   *)
LEMMA TrafficInvariance == Spec => []RInv
<1>1. Init => RInv
  BY InitInv DEF RInv, Traffic, Init, TeeInit, TxeiInit, NoTraffic
<1>2. RInv /\ [Next]_vars => RInv'
  BY NextInv, TrafficStep DEF RInv
<1> QED BY <1>1, <1>2, PTL DEF Spec

-----------------------------------------------------------------------------
(* The mapping, one thread at a time.                                      *)

Alone(t) == \A u \in Thread \ {t} : Keeps(u)

LEMMA Mapped ==
  ASSUME NEW t \in Thread
  PROVE  StageMap[t] = Stage(t) /\ GotMap[t] = Got(t) /\ VerdictMap[t] = VerdictFor(t)
BY DEF StageMap, GotMap, VerdictMap

LEMMA KeepsMapped ==
  ASSUME IInv, NEW u \in Thread, Keeps(u)
  PROVE  Stage(u)' = Stage(u) /\ Got(u)' = Got(u) /\ VerdictFor(u)' = VerdictFor(u)
<1>1. Stage(u)' = Stage(u) /\ VerdictFor(u)' = VerdictFor(u)
  BY DEF Keeps, Stage, VerdictFor
<1>2. CASE pc[u] = "idle" \/ fate[u] # "done"
  BY <1>1, <1>2 DEF Keeps, Got
<1>3. CASE pc[u] # "idle" /\ fate[u] = "done"
  <2>1. fd[u] # NoFd
    <3>1. pc[u] \in Places /\ OnConnection(u)
      BY Facts DEF TypeOK
    <3>2. pc[u] # "connect"
      BY <1>3, <3>1 DEF OnConnection
    <3> QED BY <1>3, <3>1, <3>2 DEF OnConnection, Places
  <2>2. LinkOf(u)' = LinkOf(u)
    BY <2>1 DEF Keeps, Untouched
  <2> QED BY <1>1, <2>2 DEF Keeps, Got, MeiReadable
<1> QED BY <1>1, <1>2, <1>3

(* A step of thread t changes its own part of the state of the service.    *)
LEMMA OneMoves ==
  ASSUME IInv, NEW t \in Thread, Alone(t)
  PROVE  /\ StageMap' = [StageMap EXCEPT ![t] = Stage(t)']
         /\ GotMap' = [GotMap EXCEPT ![t] = Got(t)']
         /\ VerdictMap' = [VerdictMap EXCEPT ![t] = VerdictFor(t)']
<1>1. \A u \in Thread \ {t} : Stage(u)' = Stage(u) /\ Got(u)' = Got(u) /\ VerdictFor(u)' = VerdictFor(u)
  BY KeepsMapped DEF Alone
<1> QED BY <1>1 DEF StageMap, GotMap, VerdictMap

-----------------------------------------------------------------------------
(* The commands in limbo, one connection at a time.                        *)

(* The commands on descriptor f of process p that no call waits for.       *)
Left(p, f) ==
  {c \in link[p][f].req : \A t \in Waiting(p, f) : pc[t] = "idle"}

LEMMA LimboIs ==
  \A c : c \in Limbo <=> \E q \in Process, g \in Fd : c \in Left(q, g)
<1>1. ASSUME NEW c, c \in Limbo PROVE \E p \in Process, f \in Fd : c \in Left(p, f)
  <2>1. PICK x \in Process \X Fd : /\ c \in link[x[1]][x[2]].req
                                  /\ \A t \in Waiting(x[1], x[2]) : pc[t] = "idle"
    BY <1>1 DEF Limbo
  <2> QED BY <2>1 DEF Left
<1>2. ASSUME NEW c, NEW p \in Process, NEW f \in Fd, c \in Left(p, f) PROVE c \in Limbo
  <2>1. <<p, f>> \in {x \in Process \X Fd : \A t \in Waiting(x[1], x[2]) : pc[t] = "idle"}
    BY <1>2 DEF Left
  <2>2. c \in link[<<p, f>>[1]][<<p, f>>[2]].req
    BY <1>2 DEF Left
  <2> QED BY <2>1, <2>2 DEF Limbo
<1> QED BY <1>1, <1>2

LEMMA LimboIsNext ==
  (\A c : c \in Limbo <=> \E q \in Process, g \in Fd : c \in Left(q, g))'
BY LimboIs, PTL

LEMMA LimboSame ==
  ASSUME \A p \in Process, f \in Fd : Left(p, f)' = Left(p, f)
  PROVE  Limbo' = Limbo
BY LimboIs, LimboIsNext

(* Only descriptor f of process p may add to limbo or take from it.        *)
LEMMA LimboOnlyAt ==
  ASSUME NEW p \in Process, NEW f \in Fd,
         \A q \in Process, g \in Fd : q # p \/ g # f => Left(q, g)' = Left(q, g)
  PROVE  /\ Left(p, f) = {} => Limbo' = Limbo \cup Left(p, f)'
         /\ Left(p, f)' = {} => Limbo = Limbo' \cup Left(p, f)
BY LimboIs, LimboIsNext

(* A descriptor that thread t holds neither before nor after its step.     *)
LEMMA LeftElsewhere ==
  ASSUME IInv, NEW t \in Thread, Alone(t), NEW p \in Process, NEW f \in Fd,
         link'[p][f] = link[p][f],
         ProcOf[t] = p => fd[t] # f /\ fd'[t] # f
  PROVE  Left(p, f)' = Left(p, f)
<1>1. Waiting(p, f)' = Waiting(p, f) /\ t \notin Waiting(p, f)
  BY DEF Waiting, Alone, Keeps, Untouched
<1>2. \A u \in Waiting(p, f) : pc'[u] = pc[u]
  BY <1>1 DEF Waiting, Alone, Keeps
<1> QED BY <1>1, <1>2 DEF Left

(* A call under way keeps its commands out of limbo.                       *)
LEMMA LeftUnderWay ==
  ASSUME NEW t \in Thread, pc[t] # "idle"
  PROVE  Left(ProcOf[t], fd[t]) = {}
BY DEF Left, Waiting

(* A call that begins, or is turned down, drops the handle of the one      *)
(* before; what is on that connection was in limbo already.                *)
LEMMA LimboForgets ==
  ASSUME IInv, NEW t \in Thread, Alone(t), pc[t] = "idle",
         fd'[t] = NoFd, link' = link
  PROVE  Limbo' = Limbo
<1>1. ASSUME NEW p \in Process, NEW f \in Fd PROVE Left(p, f)' = Left(p, f)
  <2>0. f # NoFd
    BY TxeiAssumption DEF Fd, NoFd
  <2>1. \A u \in Waiting(p, f) \ {t} : u \in Waiting(p, f)' /\ pc'[u] = pc[u]
    BY DEF Waiting, Alone, Keeps, Untouched
  <2>2. \A u \in Waiting(p, f)' : u \in Waiting(p, f) /\ u # t
    BY <2>0 DEF Waiting, Alone, Keeps, Untouched
  <2> QED BY <2>1, <2>2 DEF Left
<1> QED BY <1>1, LimboSame

-----------------------------------------------------------------------------
(* The service and the firmware agree on what a command does.              *)
LEMMA SameTable ==
  /\ Service!EmptyTable = EmptyTable
  /\ \A a, c : Service!CanAccept(a, c) = CanAccept(a, c)
  /\ \A a, c : Service!Accept(a, c) = Accept(a, c)
  /\ \A a, c : Service!Returns(a, c) = Returns(a, c)
BY DEF Service!EmptyTable, EmptyTable, Service!CanAccept, CanAccept, Service!Accept,
       Accept, Service!Returns, Returns, Service!Index, Index

(* How the ints are read.                                                  *)
Ok(n)   == [kind |-> "ok", data |-> n]
No      == [kind |-> "no", data |-> 0]
Unknown == [kind |-> "unknown", data |-> 0]

LEMMA ReadIsOk ==
  ASSUME NEW c, NEW v \in Int, v \in 2 .. MaxData,
         c.op = "get" \/ (c.op = "set" /\ v = c.size /\ "empty" \notin Faults)
  PROVE  VerdictOf(c, v) = Ok(IF c.op = "get" THEN v ELSE 0)
<1>1. ~(v < 0) /\ v # 0
  BY AcdAssumption
<1> QED BY <1>1 DEF VerdictOf, Ok

LEMMA ReadZero ==
  ASSUME NEW c
  PROVE  VerdictOf(c, 0) = IF c.op = "prov" /\ "empty" \notin Faults THEN Ok(0) ELSE Unknown
<1>1. ~(0 < 0) /\ 0 \notin 2 .. MaxData
  BY AcdAssumption
<1> QED BY <1>1 DEF VerdictOf, Ok, Unknown

LEMMA ReadNo ==
  ASSUME NEW c, NEW v \in Int, v < 0
  PROVE  VerdictOf(c, v) = IF c.op \in {"set", "get", "prov"} THEN No ELSE Unknown
<1>1. v # 0 /\ v \notin 2 .. MaxData
  BY AcdAssumption
<1> QED BY <1>1 DEF VerdictOf, No, Unknown

(* Ones, codes, and sizes where reads may be empty.                        *)
LEMMA ReadUnknown ==
  ASSUME NEW c, NEW v \in Int, v > 0,
         v \notin 2 .. MaxData \/ (c.op # "get" /\ "empty" \in Faults)
  PROVE  VerdictOf(c, v) = Unknown
<1>1. ~(v < 0) /\ v # 0
  OBVIOUS
<1> QED BY <1>1 DEF VerdictOf, Unknown

-----------------------------------------------------------------------------
(* One lemma for each action of a thread.                                  *)

LEMMA BeginMaps ==
  ASSUME IInv, NEW t \in Thread, Begin(t)
  PROVE  Service!Begin(t)
<1>1. PICK c \in Calls : call' = [call EXCEPT ![t] = c]
  BY DEF Begin
<1>2. /\ ForgetHandle(t) /\ pc[t] = "idle"
      /\ pc' = [pc EXCEPT ![t] = "connect"]
      /\ fate' = [fate EXCEPT ![t] = "none"]
      /\ UNCHANGED <<ret, resp, result, acd>>
  BY DEF Begin, Goto
<1>3. OthersUntouched(t) /\ fd'[t] = NoFd /\ link' = link
  BY <1>2, Facts, ForgetHandleStep
<1>4. Alone(t)
  BY <1>1, <1>2, <1>3, Facts DEF TypeOK, OthersUntouched, Keeps, Alone
<1>5. Limbo' = Limbo
  BY <1>2, <1>3, <1>4, LimboForgets
<1>6. pc'[t] = "connect" /\ fate'[t] = "none"
  BY <1>2, Facts DEF TypeOK
<1>7. Stage(t) = "idle" /\ Stage(t)' = "pending" /\ Got(t) = 0 /\ Got(t)' = 0
      /\ VerdictFor(t)' = Unknown
  BY <1>2, <1>6 DEF Stage, Got, VerdictFor, Unknown
<1>8. /\ StageMap[t] = "idle" /\ StageMap' = [StageMap EXCEPT ![t] = "pending"]
      /\ VerdictMap' = [VerdictMap EXCEPT ![t] = Unknown] /\ GotMap' = GotMap
  BY <1>4, <1>7, OneMoves DEF StageMap, GotMap
<1> QED BY <1>1, <1>2, <1>5, <1>8 DEF Service!Begin, Service!Verdict, Unknown

LEMMA RejectMaps ==
  ASSUME IInv, NEW t \in Thread, Reject(t)
  PROVE  Service!Reject(t)
<1>1. PICK c \in Calls : /\ EarlyError(c) # 0
                         /\ call' = [call EXCEPT ![t] = c]
                         /\ result' = [result EXCEPT ![t] = EarlyError(c)]
  BY DEF Reject
<1>2. /\ ForgetHandle(t) /\ pc[t] = "idle"
      /\ fate' = [fate EXCEPT ![t] = "none"]
      /\ UNCHANGED <<pc, ret, resp, acd>>
  BY DEF Reject
<1>3. OthersUntouched(t) /\ fd'[t] = NoFd /\ link' = link
  BY <1>2, Facts, ForgetHandleStep
<1>4. Alone(t)
  BY <1>1, <1>2, <1>3, Facts DEF TypeOK, OthersUntouched, Keeps, Alone
<1>5. Limbo' = Limbo
  BY <1>2, <1>3, <1>4, LimboForgets
<1>6. VerdictOf(c, EarlyError(c)) = Unknown
  <2>1. EarlyError(c) \in {Illegal, TooLarge}
    BY <1>1 DEF EarlyError, SetError, ProvError
  <2>2. EarlyError(c) \in Int /\ EarlyError(c) > MaxData
    BY <2>1, Ints DEF Codes
  <2> QED BY <2>2, ReadUnknown, AcdAssumption
<1>7. /\ Stage(t) = "idle" /\ Stage(t)' = "idle" /\ Got(t) = 0 /\ Got(t)' = 0
      /\ VerdictFor(t)' = Unknown
  <2>1. call'[t] = c /\ result'[t] = EarlyError(c)
    BY <1>1, Facts DEF TypeOK
  <2> QED BY <1>2, <1>6, <2>1 DEF Stage, Got, VerdictFor
<1>8. /\ StageMap[t] = "idle" /\ StageMap' = StageMap
      /\ VerdictMap' = [VerdictMap EXCEPT ![t] = Unknown] /\ GotMap' = GotMap
  BY <1>4, <1>7, OneMoves DEF StageMap, GotMap
<1> QED BY <1>1, <1>2, <1>5, <1>8 DEF Service!Reject, Service!Verdict, Unknown

(* Steps the service does not take.                                        *)
Unseen == UNCHANGED <<acd, call, StageMap, GotMap, VerdictMap, Limbo>>

LEMMA ConnectMaps ==
  ASSUME RInv, NEW t \in Thread, Connect(t)
  PROVE  Unseen
<1>0. IInv /\ Traffic
  BY DEF RInv
<1>1. /\ MeiConnect(t) /\ pc[t] = "connect"
      /\ pc' = [pc EXCEPT ![t] = "send"]
      /\ resp' = [resp EXCEPT ![t] = ClearResp]
      /\ UNCHANGED <<ret, call, result, acd, fate>>
  BY DEF Connect, TeeOpen, Goto
<1>2. OthersUntouched(t)
  BY <1>0, <1>1, Facts, MeiConnectStep
<1>3. Alone(t)
  BY <1>0, <1>1, <1>2, Facts DEF TypeOK, OthersUntouched, Keeps, Alone
<1>4. fd[t] = NoFd /\ fate[t] = "none"
  BY <1>0, <1>1, Facts DEF OnConnection
<1>5. PICK f \in Fd : /\ f \notin files[ProcOf[t]]
                      /\ fd' = [fd EXCEPT ![t] = f]
                      /\ link' = [link EXCEPT ![ProcOf[t]][f] = NoTraffic]
  BY DEF Connect, TeeOpen, MeiConnect, FreeFd
<1>6. Limbo' = Limbo
  <2>1. link[ProcOf[t]][f] = NoTraffic
    BY <1>0, <1>5, Facts DEF Traffic
  <2>2. link' = link
    BY <1>0, <1>5, <2>1, Facts DEF TxeiTypeOK
  <2>3. fd'[t] = f /\ pc'[t] = "send" /\ fd[t] \notin Fd
    BY <1>0, <1>1, <1>4, <1>5, Facts, TxeiAssumption DEF TxeiTypeOK, TypeOK, Fd, NoFd
  <2>4. ASSUME NEW p \in Process, NEW g \in Fd PROVE Left(p, g)' = Left(p, g)
    <3>1. CASE ProcOf[t] = p /\ g = f
      BY <2>1, <2>2, <3>1 DEF Left, NoTraffic
    <3>2. CASE ~(ProcOf[t] = p /\ g = f)
      BY <1>0, <1>3, <2>2, <2>3, <3>2, LeftElsewhere
    <3> QED BY <3>1, <3>2
  <2> QED BY <2>4, LimboSame
<1>7. /\ Stage(t)' = Stage(t) /\ Got(t)' = Got(t) /\ VerdictFor(t)' = VerdictFor(t)
  <2>1. pc'[t] = "send"
    BY <1>0, <1>1, Facts DEF TypeOK
  <2> QED BY <1>1, <1>4, <2>1 DEF Stage, Got, VerdictFor
<1>8. StageMap' = StageMap /\ GotMap' = GotMap /\ VerdictMap' = VerdictMap
  BY <1>0, <1>3, <1>7, OneMoves DEF StageMap, GotMap, VerdictMap
<1> QED BY <1>1, <1>6, <1>8 DEF Unseen

(* The steps of process_cmd change no more than what is on the call's own  *)
(* connection.                                                             *)
LEMMA GoesOn ==
  ASSUME IInv, NEW t \in Thread, Alone(t), pc[t] # "idle", pc'[t] # "idle",
         UNCHANGED <<fd, call, result, acd, fate>>,
         \A p \in Process, f \in Fd :
           ~(ProcOf[t] = p /\ fd[t] = f) => link'[p][f] = link[p][f],
         Got(t)' = Got(t)
  PROVE  Unseen
<1>1. ASSUME NEW p \in Process, NEW f \in Fd PROVE Left(p, f)' = Left(p, f)
  <2>1. CASE ProcOf[t] = p /\ fd[t] = f
    BY <2>1 DEF Left, Waiting
  <2>2. CASE ~(ProcOf[t] = p /\ fd[t] = f)
    BY <2>2, LeftElsewhere
  <2> QED BY <2>1, <2>2
<1>2. Limbo' = Limbo
  BY <1>1, LimboSame
<1>3. Stage(t)' = Stage(t) /\ VerdictFor(t)' = VerdictFor(t)
  BY DEF Stage, VerdictFor
<1>4. StageMap' = StageMap /\ GotMap' = GotMap /\ VerdictMap' = VerdictMap
  BY <1>3, OneMoves DEF StageMap, GotMap, VerdictMap
<1> QED BY <1>2, <1>4 DEF Unseen

LEMMA SendCmdMaps ==
  ASSUME IInv, NEW t \in Thread, SendCmd(t, call[t]), UNCHANGED <<call, result, acd, fate>>
  PROVE  Unseen
<1>1. /\ MeiWrite(t, call[t]) /\ pc[t] = "send" /\ fd[t] > 0
      /\ pc' = [pc EXCEPT ![t] = "select"]
      /\ UNCHANGED <<fd, ret, resp>>
      /\ link' = [link EXCEPT ![ProcOf[t]][fd[t]].req = {call[t]}]
  BY DEF SendCmd, MeiWrite, Goto
<1>2. OthersUntouched(t)
  BY <1>1, Facts, MeiWriteStep DEF InCall
<1>3. Alone(t)
  BY <1>1, <1>2, Facts DEF TypeOK, OthersUntouched, Keeps, Alone
<1>4. Got(t) = 0 /\ Got(t)' = 0
  <2>1. fate[t] # "done"
    BY <1>1, Facts DEF OnConnection, Unsent
  <2> QED BY <2>1 DEF Got
<1>5. pc'[t] = "select"
  BY <1>1, Facts DEF TypeOK
<1>6. \A p \in Process, f \in Fd :
        ~(ProcOf[t] = p /\ fd[t] = f) => link'[p][f] = link[p][f]
  BY <1>1, Facts DEF TxeiTypeOK
<1> QED BY <1>1, <1>3, <1>4, <1>5, <1>6, GoesOn

(* The steps that only move the thread.                                    *)
LEMMA MoveMaps ==
  ASSUME IInv, NEW t \in Thread,
         SendCmdFails(t) \/ SelectReady(t) \/ SelectGivesUp(t) \/ RecvCmdFails(t),
         UNCHANGED <<call, result, acd, fate>>
  PROVE  Unseen
<1>1. PICK to \in {"recv", "check"} :
        /\ pc' = [pc EXCEPT ![t] = to] /\ pc[t] # "idle"
        /\ UNCHANGED <<fd, link, resp>>
        /\ ret' \in {ret, [ret EXCEPT ![t] = TEE_FAILURE]}
  BY DEF SendCmdFails, MeiWriteFails, SelectReady, SelectGivesUp, RecvCmdFails,
         MeiReadFails, Goto, txeiVars
<1>2. Alone(t)
  BY <1>1, Facts DEF TypeOK, Untouched, Keeps, Alone, LinkOf
<1>3. pc'[t] = to
  BY <1>1, Facts DEF TypeOK
<1>4. Got(t)' = Got(t)
  BY <1>1, <1>3 DEF Got, MeiReadable, LinkOf
<1> QED BY <1>1, <1>2, <1>3, <1>4, GoesOn

LEMMA RecvCmdMaps ==
  ASSUME IInv, NEW t \in Thread, RecvCmd(t), UNCHANGED <<call, result, acd, fate>>
  PROVE  Unseen
<1>1. PICK r \in LinkOf(t).rsp :
        /\ MeiRead(t, r)
        /\ resp' = [resp EXCEPT ![t] = IF r = EmptyRead THEN @ ELSE r]
  BY DEF RecvCmd
<1>2. /\ pc[t] = "recv" /\ pc' = [pc EXCEPT ![t] = "check"]
      /\ ret' = [ret EXCEPT ![t] = TEE_SUCCESSFUL]
      /\ UNCHANGED fd
      /\ link' = [link EXCEPT ![ProcOf[t]][fd[t]].rsp = {}]
  BY <1>1 DEF RecvCmd, Goto, MeiRead
<1>3. OthersUntouched(t) /\ LinkOf(t)' = [req |-> LinkOf(t).req, rsp |-> {}]
  BY <1>1, Facts, MeiReadStep
<1>4. Alone(t)
  BY <1>1, <1>2, <1>3, Facts DEF TypeOK, OthersUntouched, Keeps, Alone
<1>5. pc'[t] = "check" /\ resp'[t] = IF r = EmptyRead THEN resp[t] ELSE r
  BY <1>1, <1>2, Facts DEF TypeOK
<1>6. Got(t)' = Got(t)
  <2>1. resp[t] = ClearResp /\ (InFlight(t) \/ Unsent(t))
    BY <1>2, Facts DEF OnConnection
  <2>2. LinkOf(t).rsp = {r}
    BY <1>1, <2>1 DEF InFlight, Unsent, NoTraffic
  <2>3. resp'[t].bytes = r.bytes
    BY <1>5, <2>1 DEF ClearResp, EmptyRead
  <2>4. MeiReadable(t) /\ ~MeiReadable(t)'
    BY <1>3, <2>2 DEF MeiReadable
  <2>5. (CHOOSE x \in LinkOf(t).rsp : TRUE) = r
    BY <2>2
  <2> QED BY <1>2, <1>5, <2>3, <2>4, <2>5 DEF Got
<1>7. \A p \in Process, f \in Fd :
        ~(ProcOf[t] = p /\ fd[t] = f) => link'[p][f] = link[p][f]
  BY <1>2, Facts DEF TxeiTypeOK
<1> QED BY <1>2, <1>4, <1>5, <1>6, <1>7, GoesOn

-----------------------------------------------------------------------------
(* Returns: the verdict is read from the int.                              *)

LEMMA Ends ==
  ASSUME IInv, NEW t \in Thread, NEW v, Alone(t), pc'[t] = "idle",
         result'[t] = v, UNCHANGED <<call, acd>>
  PROVE  Service!Return(t, VerdictOf(call[t], v))
<1>1. Stage(t)' = "idle" /\ Got(t)' = 0 /\ VerdictFor(t)' = VerdictOf(call[t], v)
  BY DEF Stage, Got, VerdictFor
<1> QED BY <1>1, OneMoves DEF Service!Return

LEMMA ClosingEnds ==
  ASSUME IInv, NEW t \in Thread, NEW v, ReturnClosing(t, v), pc[t] \in {"send", "check"}
  PROVE  Service!Return(t, VerdictOf(call[t], v)) /\ Limbo' = Limbo
<1>1. /\ MeiDisconnect(t)
      /\ pc' = [pc EXCEPT ![t] = "idle"]
      /\ result' = [result EXCEPT ![t] = v]
      /\ UNCHANGED <<ret, resp, call, acd, fate>>
  BY DEF ReturnClosing, Goto
<1>2. fd[t] # NoFd
  BY Facts DEF OnConnection
<1>3. OthersUntouched(t) /\ fd'[t] = NoFd
  BY <1>1, <1>2, Facts, MeiDisconnectStep
<1>4. Alone(t)
  BY <1>1, <1>3, Facts DEF TypeOK, OthersUntouched, Keeps, Alone
<1>5. Service!Return(t, VerdictOf(call[t], v))
  BY <1>1, <1>4, Facts, Ends DEF TypeOK
<1>6. Limbo' = Limbo
  <2>1. ASSUME NEW p \in Process, NEW f \in Fd PROVE Left(p, f)' = Left(p, f)
    <3>1. CASE ProcOf[t] = p /\ fd[t] = f
      <4>1. link'[p][f] = NoTraffic
        BY <1>1, <3>1, Facts DEF MeiDisconnect, TxeiTypeOK
      <4>2. Left(p, f) = {}
        BY <3>1, LeftUnderWay
      <4> QED BY <4>1, <4>2 DEF Left, NoTraffic
    <3>2. CASE ~(ProcOf[t] = p /\ fd[t] = f)
      <4>1. link'[p][f] = link[p][f]
        BY <1>1, <3>2, Facts DEF MeiDisconnect, TxeiTypeOK
      <4>2. f # NoFd
        BY TxeiAssumption DEF Fd, NoFd
      <4> QED BY <1>3, <1>4, <3>2, <4>1, <4>2, LeftElsewhere
    <3> QED BY <3>1, <3>2
  <2> QED BY <2>1, LimboSame
<1> QED BY <1>5, <1>6

LEMMA LeakingEnds ==
  ASSUME IInv, NEW t \in Thread, NEW v, ReturnLeaking(t, v), pc[t] = "check"
  PROVE  /\ Service!Return(t, VerdictOf(call[t], v))
         /\ Limbo' = Limbo \cup LinkOf(t).req
<1>1. /\ pc' = [pc EXCEPT ![t] = "idle"]
      /\ result' = [result EXCEPT ![t] = v]
      /\ UNCHANGED <<fd, files, link, ret, resp, call, acd, fate>>
  BY DEF ReturnLeaking, Goto, txeiVars
<1>2. Alone(t)
  BY <1>1, Facts DEF TypeOK, Untouched, Keeps, Alone, LinkOf
<1>3. Service!Return(t, VerdictOf(call[t], v))
  BY <1>1, <1>2, Facts, Ends DEF TypeOK
<1>4. PICK p \in Process, f \in Fd : p = ProcOf[t] /\ f = fd[t] /\ fd[t] # NoFd
  BY Facts DEF OnConnection
<1>5. Left(p, f) = {}
  BY <1>4, LeftUnderWay
<1>6. Left(p, f)' = LinkOf(t).req
  <2>1. \A u \in Waiting(p, f)' : u = t
    BY <1>1, <1>4, Facts DEF Waiting, HandlesExclusive
  <2>2. pc'[t] = "idle"
    BY <1>1, Facts DEF TypeOK
  <2> QED BY <1>1, <1>4, <2>1, <2>2 DEF Left, LinkOf
<1>7. \A q \in Process, g \in Fd : q # p \/ g # f => Left(q, g)' = Left(q, g)
  BY <1>1, <1>2, <1>4, LeftElsewhere
<1>8. Limbo' = Limbo \cup Left(p, f)'
  BY <1>5, <1>7, LimboOnlyAt
<1> QED BY <1>3, <1>6, <1>8

(* The three ways a call of the service returns.                           *)
LEMMA EndsOk ==
  ASSUME NEW t \in Thread, Service!Return(t, Ok(IF call[t].op = "get" THEN Got(t) ELSE 0)),
         pc[t] # "idle", fate[t] = "done", Limbo' = Limbo
  PROVE  Service!ReturnOk(t)
BY Mapped DEF Service!ReturnOk, Service!Verdict, Ok, Stage

LEMMA EndsNo ==
  ASSUME NEW t \in Thread, Service!Return(t, No),
         pc[t] # "idle", fate[t] \in {"none", "refused"}, Limbo' = Limbo
  PROVE  Service!ReturnNo(t)
BY Mapped DEF Service!ReturnNo, Service!Verdict, No, Stage

LEMMA EndsUnknown ==
  ASSUME NEW t \in Thread, Service!Return(t, Unknown), pc[t] # "idle",
         fate[t] \in {"none", "refused", "done"},
         Limbo' = Limbo \/ (fate[t] = "none" /\ Limbo' = Limbo \cup {call[t]})
  PROVE  Service!ReturnUnknown(t)
BY Mapped DEF Service!ReturnUnknown, Service!Verdict, Unknown, Stage

Reports(t) == Service!ReturnOk(t) \/ Service!ReturnNo(t) \/ Service!ReturnUnknown(t)

LEMMA ConnectFailsMaps ==
  ASSUME IInv, NEW t \in Thread, ConnectFails(t)
  PROVE  Reports(t)
<1>1. /\ pc[t] = "connect"
      /\ pc' = [pc EXCEPT ![t] = "idle"]
      /\ ret' = [ret EXCEPT ![t] = TEE_FAILURE]
      /\ result' = [result EXCEPT ![t] = -1]
      /\ UNCHANGED <<fd, files, link, resp, call, acd, fate>>
  BY Ints DEF ConnectFails, TeeOpenFails, MeiConnectFails, Goto, txeiVars
<1>2. fd[t] = NoFd /\ fate[t] = "none"
  BY <1>1, Facts DEF OnConnection
<1>3. Alone(t)
  BY <1>1, Facts DEF TypeOK, Untouched, Keeps, Alone, LinkOf
<1>4. Service!Return(t, VerdictOf(call[t], -1))
  BY <1>1, <1>3, Facts, Ends DEF TypeOK
<1>5. Limbo' = Limbo
  <2>1. \A f \in Fd : f # NoFd
    BY TxeiAssumption DEF Fd, NoFd
  <2>2. \A p \in Process, f \in Fd : Left(p, f)' = Left(p, f)
    BY <1>1, <1>2, <1>3, <2>1, LeftElsewhere
  <2> QED BY <2>2, LimboSame
<1>6. VerdictOf(call[t], -1) \in {No, Unknown}
  BY ReadNo
<1> QED BY <1>1, <1>2, <1>4, <1>5, <1>6, EndsNo, EndsUnknown DEF Reports

LEMMA GetRejectMaps ==
  ASSUME IInv, NEW t \in Thread, GetReject(t)
  PROVE  Reports(t)
<1>1. pc[t] = "send" /\ ReturnClosing(t, Illegal)
  BY DEF GetReject
<1>2. Service!Return(t, VerdictOf(call[t], Illegal)) /\ Limbo' = Limbo
  BY <1>1, ClosingEnds
<1>3. VerdictOf(call[t], Illegal) = Unknown
  BY Ints, AcdAssumption, ReadUnknown DEF Codes
<1>4. fate[t] = "none"
  BY <1>1, Facts DEF OnConnection, Unsent
<1> QED BY <1>1, <1>2, <1>3, <1>4, EndsUnknown DEF Reports

(* A call that leaves its connection behind without a decision puts its    *)
(* command in limbo, if it was sent and is not answered.                   *)
LEMMA LeftInLimbo ==
  ASSUME IInv, NEW t \in Thread, pc[t] = "check"
  PROVE  LinkOf(t).req = {} \/ (LinkOf(t).req = {call[t]} /\ fate[t] = "none")
<1>1. InFlight(t) \/ Unsent(t) \/ Taken(t)
  BY Facts DEF OnConnection
<1> QED BY <1>1 DEF InFlight, Unsent, Taken, NoTraffic

LEMMA LeakingUnknown ==
  ASSUME IInv, NEW t \in Thread, NEW v, ReturnLeaking(t, v), pc[t] = "check",
         VerdictOf(call[t], v) = Unknown
  PROVE  Reports(t)
<1>1. Service!Return(t, Unknown) /\ Limbo' = Limbo \cup LinkOf(t).req
  BY LeakingEnds
<1>2. Limbo' = Limbo \/ (fate[t] = "none" /\ Limbo' = Limbo \cup {call[t]})
  BY <1>1, LeftInLimbo
<1>3. fate[t] \in {"none", "refused", "done"}
  BY Facts DEF TypeOK
<1> QED BY <1>1, <1>2, <1>3, EndsUnknown DEF Reports

LEMMA ClosingUnknown ==
  ASSUME IInv, NEW t \in Thread, NEW v, ReturnClosing(t, v), pc[t] = "check",
         VerdictOf(call[t], v) = Unknown
  PROVE  Reports(t)
<1>1. Service!Return(t, Unknown) /\ Limbo' = Limbo
  BY ClosingEnds
<1>2. fate[t] \in {"none", "refused", "done"}
  BY Facts DEF TypeOK
<1> QED BY <1>1, <1>2, EndsUnknown DEF Reports

LEMMA LockReturnMaps ==
  ASSUME IInv, NEW t \in Thread, LockReturn(t)
  PROVE  Reports(t)
<1>1. pc[t] = "check" /\ call[t].op \in {"lock", "wipe"}
  BY DEF LockReturn
<1>2. CASE ret[t] # 0
  <2>1. ReturnLeaking(t, -1)
    BY <1>1, <1>2, Checked, Ints DEF LockReturn, TEE_SUCCESSFUL
  <2>2. VerdictOf(call[t], -1) = Unknown
    BY <1>1, ReadNo
  <2> QED BY <1>1, <2>1, <2>2, LeakingUnknown
<1>3. CASE ret[t] = 0
  <2>1. ReturnClosing(t, 0)
    BY <1>3, Ints DEF LockReturn
  <2>2. VerdictOf(call[t], 0) = Unknown
    BY <1>1, ReadZero
  <2> QED BY <1>1, <2>1, <2>2, ClosingUnknown
<1> QED BY <1>2, <1>3

(* The ints of a failed read and of a refusal.                             *)
LEMMA FailedRead ==
  ASSUME IInv, NEW t \in Thread, pc[t] = "check", ret[t] # 0
  PROVE  VerdictOf(call[t], AsInt(Minus(ret[t]))) = Unknown
<1>1. AsInt(Minus(ret[t])) = 1
  BY Checked, Ints DEF TEE_SUCCESSFUL
<1>2. 1 \in Int /\ 1 > 0 /\ 1 \notin 2 .. MaxData
  BY AcdAssumption
<1> QED BY <1>1, <1>2, ReadUnknown

LEMMA Refusal ==
  ASSUME IInv, NEW t \in Thread, pc[t] = "check", call[t].op \in {"set", "get", "prov"},
         ret[t] = 0, resp[t].status \notin {0, WriteOnly}
  PROVE  /\ VerdictOf(call[t], AsInt(Minus(resp[t].status))) = No
         /\ fate[t] = "refused" /\ LinkOf(t).req = {}
<1>1. resp[t].status \in Codes /\ fate[t] = "refused" /\ LinkOf(t).req = {}
  BY Checked DEF TEE_SUCCESSFUL
<1>2. AsInt(Minus(resp[t].status)) \in Int /\ AsInt(Minus(resp[t].status)) < 0
  BY <1>1, Ints
<1> QED BY <1>1, <1>2, ReadNo

LEMMA LeakingNo ==
  ASSUME IInv, NEW t \in Thread, NEW v, ReturnLeaking(t, v), pc[t] = "check",
         VerdictOf(call[t], v) = No, fate[t] = "refused", LinkOf(t).req = {}
  PROVE  Reports(t)
<1>1. Service!Return(t, No) /\ Limbo' = Limbo
  BY LeakingEnds
<1> QED BY <1>1, EndsNo DEF Reports

(* set_customer_data and provision_customer_data, once the answer is read. *)
LEMMA WriteFailedMaps ==
  ASSUME IInv, NEW t \in Thread, pc[t] = "check", Writes(call[t]), NEW v,
         ReturnLeaking(t, v),
         \/ ret[t] # 0 /\ v = AsInt(Minus(ret[t]))
         \/ ret[t] = 0 /\ resp[t].status # 0 /\ v = AsInt(Minus(resp[t].status))
  PROVE  Reports(t)
<1>1. CASE ret[t] # 0
  BY <1>1, FailedRead, LeakingUnknown
<1>2. CASE ret[t] = 0
  <2>1. resp[t].status # WriteOnly
    BY <1>2, Checked DEF Writes, TEE_SUCCESSFUL
  <2> QED BY <1>2, <2>1, Refusal, LeakingNo DEF Writes
<1> QED BY <1>1, <1>2

LEMMA SetReturnMaps ==
  ASSUME IInv, NEW t \in Thread, SetReturn(t)
  PROVE  Reports(t)
<1>1. pc[t] = "check" /\ call[t].op = "set" /\ Writes(call[t])
  BY DEF SetReturn, Writes
<1>2. CASE ret[t] # 0 \/ resp[t].status # 0
  BY <1>1, <1>2, WriteFailedMaps DEF SetReturn
<1>3. CASE ret[t] = 0 /\ resp[t].status = 0
  <2>1. ReturnClosing(t, call[t].size)
    BY <1>3 DEF SetReturn
  <2>2. /\ call[t].size \in Int /\ call[t].size > 0
        /\ call[t].size \in 1 .. MaxData
        /\ "empty" \notin Faults => fate[t] = "done"
    <3>1. SetError(call[t]) = 0 /\ call[t].size \in Nat
      BY <1>1, Checked DEF EarlyError
    <3>2. LegalSize(call[t].size)
      BY <3>1, Ints DEF SetError, Codes
    <3>3. "empty" \notin Faults => fate[t] = "done"
      BY <1>1, <1>3, Checked DEF TEE_SUCCESSFUL, Answered
    <3> QED BY <3>1, <3>2, <3>3, AcdAssumption DEF LegalSize
  <2>3. CASE call[t].size \in 2 .. MaxData /\ "empty" \notin Faults
    <3>1. VerdictOf(call[t], call[t].size) = Ok(IF call[t].op = "get" THEN Got(t) ELSE 0)
      BY <1>1, <2>2, <2>3, ReadIsOk
    <3>2. Service!Return(t, Ok(IF call[t].op = "get" THEN Got(t) ELSE 0)) /\ Limbo' = Limbo
      BY <1>1, <2>1, <3>1, ClosingEnds
    <3> QED BY <1>1, <2>2, <2>3, <3>2, EndsOk DEF Reports
  <2>4. CASE call[t].size \notin 2 .. MaxData \/ "empty" \in Faults
    BY <1>1, <2>1, <2>2, <2>4, ReadUnknown, ClosingUnknown
  <2> QED BY <2>3, <2>4
<1> QED BY <1>2, <1>3

(* The bytes get_customer_data returns are those of the field.             *)
LEMMA ReadBytes ==
  ASSUME IInv, NEW t \in Thread, pc[t] = "check", ret[t] = 0,
         resp[t].status \in {0, WriteOnly}, resp[t].bytes \in 2 .. MaxData
  PROVE  fate[t] = "done" /\ Got(t) = resp[t].bytes
<1>1. Taken(t)
  <2>1. ret[t] # TEE_FAILURE
    BY WordAssumption DEF TEE_FAILURE
  <2> QED BY <2>1, Facts DEF OnConnection
<1>2. resp[t] # ClearResp
  BY AcdAssumption DEF ClearResp
<1>3. Truthful(t, resp[t]) /\ fate[t] # "none"
  BY <1>1, <1>2 DEF Taken
<1>4. WriteOnly \notin FwError /\ 0 \notin FwError /\ WriteOnly # -1
  BY Ints, UmipAssumption DEF Codes
<1>5. fate[t] = "done"
  BY <1>3, <1>4, Facts DEF Truthful, TypeOK
<1> QED BY <1>1, <1>5 DEF Taken, Got, MeiReadable, NoTraffic

LEMMA GetReturnMaps ==
  ASSUME IInv, NEW t \in Thread, GetReturn(t)
  PROVE  Reports(t)
<1>1. pc[t] = "check" /\ call[t].op = "get"
  BY DEF GetReturn
<1>2. CASE ret[t] # 0
  <2>1. ReturnClosing(t, AsInt(Minus(ret[t])))
    BY <1>2 DEF GetReturn
  <2> QED BY <1>1, <1>2, <2>1, FailedRead, ClosingUnknown
<1>3. CASE ret[t] = 0 /\ resp[t].status \notin {0, WriteOnly}
  <2>1. ReturnClosing(t, AsInt(Minus(resp[t].status)))
    BY <1>3 DEF GetReturn
  <2>2. VerdictOf(call[t], AsInt(Minus(resp[t].status))) = No /\ fate[t] = "refused"
    BY <1>1, <1>3, Refusal
  <2>3. Service!Return(t, No) /\ Limbo' = Limbo
    BY <1>1, <2>1, <2>2, ClosingEnds
  <2> QED BY <1>1, <2>2, <2>3, EndsNo DEF Reports
<1>4. CASE ret[t] = 0 /\ resp[t].status \in {0, WriteOnly}
  <2>1. ReturnClosing(t, resp[t].bytes) \/ ReturnClosing(t, NoMemory)
    BY <1>4 DEF GetReturn
  <2>2. CASE ReturnClosing(t, NoMemory)
    <3>1. VerdictOf(call[t], NoMemory) = Unknown
      BY Ints, AcdAssumption, ReadUnknown DEF Codes
    <3> QED BY <1>1, <2>2, <3>1, ClosingUnknown
  <2>3. CASE ReturnClosing(t, resp[t].bytes) /\ resp[t].bytes \in 2 .. MaxData
    <3>1. fate[t] = "done" /\ Got(t) = resp[t].bytes
      BY <1>1, <1>4, <2>3, ReadBytes
    <3>2. VerdictOf(call[t], resp[t].bytes) = Ok(IF call[t].op = "get" THEN Got(t) ELSE 0)
      BY <1>1, <2>3, <3>1, ReadIsOk
    <3>3. Service!Return(t, Ok(IF call[t].op = "get" THEN Got(t) ELSE 0)) /\ Limbo' = Limbo
      BY <1>1, <2>3, <3>2, ClosingEnds
    <3> QED BY <1>1, <3>1, <3>3, EndsOk DEF Reports
  <2>4. CASE ReturnClosing(t, resp[t].bytes) /\ resp[t].bytes \notin 2 .. MaxData
    <3>1. resp[t].bytes \in Nat
      BY <1>1, Checked, AcdAssumption DEF Rsp
    <3>2. VerdictOf(call[t], resp[t].bytes) = Unknown
      BY <1>1, <2>4, <3>1, ReadZero, ReadUnknown
    <3> QED BY <1>1, <2>4, <3>2, ClosingUnknown
  <2> QED BY <2>1, <2>2, <2>3, <2>4
<1> QED BY <1>2, <1>3, <1>4

LEMMA ProvReturnMaps ==
  ASSUME IInv, NEW t \in Thread, ProvReturn(t)
  PROVE  Reports(t)
<1>1. pc[t] = "check" /\ call[t].op = "prov" /\ Writes(call[t])
  BY DEF ProvReturn, Writes
<1>2. CASE ret[t] # 0 \/ resp[t].status # 0
  BY <1>1, <1>2, WriteFailedMaps DEF ProvReturn
<1>3. CASE ret[t] = 0 /\ resp[t].status = 0
  <2>1. \/ ReturnClosing(t, 0)
        \/ ReturnLeaking(t, Illegal)
        \/ ReturnLeaking(t, NoMemory)
    BY <1>3 DEF ProvReturn
  <2>2. CASE ReturnClosing(t, 0) /\ "empty" \notin Faults
    <3>1. fate[t] = "done"
      BY <1>1, <1>3, <2>2, Checked DEF TEE_SUCCESSFUL, Answered
    <3>2. VerdictOf(call[t], 0) = Ok(IF call[t].op = "get" THEN Got(t) ELSE 0)
      BY <1>1, <2>2, ReadZero
    <3>3. Service!Return(t, Ok(IF call[t].op = "get" THEN Got(t) ELSE 0)) /\ Limbo' = Limbo
      BY <1>1, <2>2, <3>2, ClosingEnds
    <3> QED BY <1>1, <3>1, <3>3, EndsOk DEF Reports
  <2>3. CASE ReturnClosing(t, 0) /\ "empty" \in Faults
    <3>1. VerdictOf(call[t], 0) = Unknown
      BY <2>3, ReadZero
    <3> QED BY <1>1, <2>3, <3>1, ClosingUnknown
  <2>4. ASSUME NEW e \in {Illegal, NoMemory}, ReturnLeaking(t, e)
        PROVE  Reports(t)
    <3>1. VerdictOf(call[t], e) = Unknown
      BY Ints, AcdAssumption, ReadUnknown DEF Codes
    <3> QED BY <1>1, <2>4, <3>1, LeakingUnknown
  <2> QED BY <2>1, <2>2, <2>3, <2>4
<1> QED BY <1>2, <1>3

-----------------------------------------------------------------------------
(* The firmware's answer takes command c off descriptor f of process p.    *)

LEMMA OneCommand ==
  ASSUME RInv, NEW p \in Process, NEW f \in Fd, NEW c \in link[p][f].req
  PROVE  link[p][f].req = {c}
BY DEF RInv, Traffic

(* Whatever the answer: nobody but the thread that waits for it, if there  *)
(* is one, notices, and other connections stay as they are.                *)
LEMMA AnswerMaps ==
  ASSUME RInv, NEW p \in Process, NEW f \in Fd, NEW c \in link[p][f].req,
         NEW r \in Rsp, MeiAnswer(p, f, r), NEW what \in {"done", "refused"},
         fate' = [t \in Thread |-> IF t \in Waiting(p, f) THEN what ELSE fate[t]],
         UNCHANGED <<pc, ret, resp, call, result>>
  PROVE  \/ /\ \A t \in Waiting(p, f) : pc[t] = "idle"
            /\ c \in Limbo /\ Limbo' \in {Limbo, Limbo \ {c}}
            /\ UNCHANGED <<StageMap, GotMap, VerdictMap>>
         \/ \E u \in Thread :
              /\ StageMap[u] = "pending" /\ call[u] = c
              /\ StageMap' = [StageMap EXCEPT ![u] = what]
              /\ GotMap' = [GotMap EXCEPT ![u] = IF what = "done" THEN r.bytes ELSE 0]
              /\ GotMap[u] = 0
              /\ UNCHANGED <<VerdictMap, Limbo>>
<1>0. IInv /\ TxeiTypeOK(Calls, Rsp) /\ HandlesExclusive
  BY DEF RInv, IInv, TypeOK
<1>1. /\ fd' = fd
      /\ \A u \in Thread : ~(ProcOf[u] = p /\ fd[u] = f) => Untouched(u)
      /\ \A u \in Thread : ProcOf[u] = p /\ fd[u] = f =>
           LinkOf(u)' = [req |-> {}, rsp |-> {r}]
  BY <1>0, MeiAnswerStep
<1>2. \A u \in Thread \ Waiting(p, f) : Keeps(u)
  BY <1>1 DEF Keeps, Waiting
<1>3. \A u \in Thread \ Waiting(p, f) :
        Stage(u)' = Stage(u) /\ Got(u)' = Got(u) /\ VerdictFor(u)' = VerdictFor(u)
  BY <1>0, <1>2, KeepsMapped
<1>4. \A u \in Thread : VerdictFor(u)' = VerdictFor(u)
  BY DEF VerdictFor
<1>5. \A q \in Process, g \in Fd : Waiting(q, g)' = Waiting(q, g)
  BY <1>1 DEF Waiting
<1>6. \A q \in Process, g \in Fd : q # p \/ g # f => Left(q, g)' = Left(q, g)
  <2>1. \A q \in Process, g \in Fd : q # p \/ g # f => link'[q][g] = link[q][g]
    BY <1>0 DEF MeiAnswer, TxeiTypeOK
  <2> QED BY <1>5, <2>1 DEF Left
<1>7. Left(p, f)' = {} /\ Limbo = Limbo' \cup Left(p, f)
  <2>1. link'[p][f].req = {}
    BY <1>0 DEF MeiAnswer, TxeiTypeOK
  <2>2. Left(p, f)' = {}
    BY <2>1 DEF Left
  <2> QED BY <1>6, <2>2, LimboOnlyAt
<1>8. CASE \A t \in Waiting(p, f) : pc[t] = "idle"
  <2>1. Left(p, f) = {c}
    BY <1>8, OneCommand DEF Left
  <2>2. \A u \in Thread : Stage(u)' = Stage(u) /\ Got(u)' = Got(u)
    BY <1>3, <1>8 DEF Stage, Got
  <2>3. UNCHANGED <<StageMap, GotMap, VerdictMap>>
    BY <1>4, <2>2 DEF StageMap, GotMap, VerdictMap
  <2> QED BY <1>7, <1>8, <2>1, <2>3
<1>9. CASE ~(\A t \in Waiting(p, f) : pc[t] = "idle")
  <2>1. PICK u \in Waiting(p, f) : pc[u] # "idle"
    BY <1>9
  <2>2. u \in Thread /\ ProcOf[u] = p /\ fd[u] = f /\ fd[u] # NoFd
    BY TxeiAssumption DEF Waiting, Fd, NoFd
  <2>3. \A t \in Waiting(p, f) : t = u
    BY <1>0, <2>2 DEF Waiting, HandlesExclusive
  <2>4. InFlight(u) /\ LinkOf(u).req # {}
    <3>1. c \in LinkOf(u).req
      BY <2>2 DEF LinkOf
    <3>2. pc[u] \in Places /\ OnConnection(u)
      BY <1>0, <2>2, Facts DEF TypeOK
    <3> QED BY <2>1, <2>2, <3>1, <3>2 DEF OnConnection, Places, Taken, Unsent, NoTraffic
  <2>5. fate[u] = "none" /\ call[u] = c
    <3>1. fate[u] = "none" /\ LinkOf(u).req = {call[u]}
      BY <2>4 DEF InFlight
    <3>2. LinkOf(u).req = {c}
      BY <2>2, OneCommand DEF LinkOf
    <3> QED BY <3>1, <3>2
  <2>6. LinkOf(u)' = [req |-> {}, rsp |-> {r}] /\ fate'[u] = what
    BY <1>1, <2>2
  <2>7. /\ Stage(u) = "pending" /\ Stage(u)' = what /\ Got(u) = 0
        /\ Got(u)' = IF what = "done" THEN r.bytes ELSE 0
    BY <2>1, <2>5, <2>6 DEF Stage, Got, MeiReadable
  <2>8. /\ StageMap[u] = "pending" /\ GotMap[u] = 0
        /\ StageMap' = [StageMap EXCEPT ![u] = what]
        /\ GotMap' = [GotMap EXCEPT ![u] = IF what = "done" THEN r.bytes ELSE 0]
        /\ VerdictMap' = VerdictMap
    BY <1>3, <1>4, <2>2, <2>3, <2>7 DEF StageMap, GotMap, VerdictMap
  <2>9. Limbo' = Limbo
    BY <1>7, <2>1 DEF Left
  <2> QED BY <2>2, <2>5, <2>8, <2>9
<1> QED BY <1>8, <1>9

LEMMA FwAcceptsMaps ==
  ASSUME RInv, NEW p \in Process, NEW f \in Fd, FwAccepts(p, f)
  PROVE  (\E t \in Thread : Service!Apply(t)) \/ (\E c \in Limbo : Service!Late(c))
<1>1. PICK c \in link[p][f].req : /\ CanAccept(acd, c) /\ acd' = Accept(acd, c)
                                  /\ \E r \in Answers(c) \cup Mute : MeiAnswer(p, f, r)
  BY DEF FwAccepts
<1>2. PICK r \in Answers(c) \cup Mute : MeiAnswer(p, f, r)
  BY <1>1
<1>3. c \in Calls /\ EarlyError(c) = 0 /\ acd \in Table
  BY DEF RInv, IInv, TypeOK, TxeiTypeOK, LegalRequests
<1>4. r \in Rsp /\ r.bytes \in Returns(acd, c)
  <2>1. Returns(acd, c) \subseteq 0 .. MaxData /\ 0 \in Returns(acd, c)
    <3>1. 0 \in Returns(acd, c)
      BY AcdAssumption DEF Returns
    <3> QED BY <1>1, <1>3, <3>1, AcceptTyped
  <2>2. CASE r \in Mute
    BY <2>1, <2>2 DEF Mute, EmptyRead, Rsp
  <2>3. CASE r \in Answers(c)
    BY <2>1, <2>3 DEF Answers, Rsp, Codes
  <2> QED BY <2>2, <2>3
<1>5. /\ fate' = [t \in Thread |-> IF t \in Waiting(p, f) THEN "done" ELSE fate[t]]
      /\ UNCHANGED <<pc, ret, resp, call, result>>
  BY DEF FwAccepts
<1>6. \/ /\ c \in Limbo /\ Limbo' \in {Limbo, Limbo \ {c}}
         /\ UNCHANGED <<StageMap, GotMap, VerdictMap>>
      \/ \E u \in Thread :
           /\ StageMap[u] = "pending" /\ call[u] = c
           /\ StageMap' = [StageMap EXCEPT ![u] = "done"]
           /\ GotMap' = [GotMap EXCEPT ![u] = r.bytes]
           /\ UNCHANGED <<VerdictMap, Limbo>>
  BY <1>2, <1>4, <1>5, AnswerMaps
<1>7. CASE /\ c \in Limbo /\ Limbo' \in {Limbo, Limbo \ {c}}
           /\ UNCHANGED <<StageMap, GotMap, VerdictMap>>
  BY <1>1, <1>5, <1>7, SameTable DEF Service!Late
<1>8. ASSUME NEW u \in Thread,
             StageMap[u] = "pending", call[u] = c,
             StageMap' = [StageMap EXCEPT ![u] = "done"],
             GotMap' = [GotMap EXCEPT ![u] = r.bytes],
             UNCHANGED <<VerdictMap, Limbo>>
      PROVE  Service!Apply(u)
  BY <1>1, <1>4, <1>5, <1>8, SameTable DEF Service!Apply
<1> QED BY <1>6, <1>7, <1>8

LEMMA FwRefusesMaps ==
  ASSUME RInv, NEW p \in Process, NEW f \in Fd, FwRefuses(p, f)
  PROVE  (\E t \in Thread : Service!Refuse(t)) \/ (\E c \in Limbo : Service!Late(c))
<1>1. PICK c \in link[p][f].req :
        \E r \in [status : FwError, bytes : {0}] \cup Mute : MeiAnswer(p, f, r)
  BY DEF FwRefuses
<1>2. PICK r \in [status : FwError, bytes : {0}] \cup Mute : MeiAnswer(p, f, r)
  BY <1>1
<1>3. r \in Rsp
  BY AcdAssumption DEF Mute, EmptyRead, Rsp, Codes
<1>4. /\ fate' = [t \in Thread |-> IF t \in Waiting(p, f) THEN "refused" ELSE fate[t]]
      /\ UNCHANGED <<pc, ret, resp, call, result, acd>>
  BY DEF FwRefuses
<1>5. \/ /\ c \in Limbo /\ Limbo' \in {Limbo, Limbo \ {c}}
         /\ UNCHANGED <<StageMap, GotMap, VerdictMap>>
      \/ \E u \in Thread :
           /\ StageMap[u] = "pending"
           /\ StageMap' = [StageMap EXCEPT ![u] = "refused"]
           /\ GotMap' = [GotMap EXCEPT ![u] = 0] /\ GotMap[u] = 0
           /\ UNCHANGED <<VerdictMap, Limbo>>
  BY <1>2, <1>3, <1>4, AnswerMaps
<1>6. CASE /\ c \in Limbo /\ Limbo' \in {Limbo, Limbo \ {c}}
           /\ UNCHANGED <<StageMap, GotMap, VerdictMap>>
  BY <1>4, <1>6 DEF Service!Late
<1>7. ASSUME NEW u \in Thread,
             StageMap[u] = "pending",
             StageMap' = [StageMap EXCEPT ![u] = "refused"],
             GotMap' = [GotMap EXCEPT ![u] = 0], GotMap[u] = 0,
             UNCHANGED <<VerdictMap, Limbo>>
      PROVE  Service!Refuse(u)
  <2>1. GotMap' = GotMap
    BY <1>7 DEF GotMap
  <2> QED BY <1>4, <1>7, <2>1 DEF Service!Refuse
<1> QED BY <1>5, <1>6, <1>7

-----------------------------------------------------------------------------
LEMMA InitMaps ==
  ASSUME Init PROVE Service!Init
<1>1. IInv
  BY InitInv
<1>2. ASSUME NEW t \in Thread
      PROVE  Stage(t) = "idle" /\ Got(t) = 0 /\ VerdictFor(t) = Unknown
  <2>1. pc[t] = "idle" /\ call[t] = NoCall /\ result[t] = 0
    BY DEF Init, TeeInit
  <2>2. VerdictOf(NoCall, 0) = Unknown
    BY ReadZero DEF NoCall
  <2> QED BY <2>1, <2>2 DEF Stage, Got, VerdictFor
<1>3. \A p \in Process, f \in Fd : Left(p, f) = {}
  BY DEF Init, TeeInit, TxeiInit, Left, NoTraffic
<1>4. Limbo = {}
  BY <1>3, LimboIs
<1> QED BY <1>2, <1>4, SameTable
        DEF Init, Service!Init, Service!Verdict, Service!NoCall, NoCall, Unknown,
            StageMap, GotMap, VerdictMap

LEMMA StepMaps ==
  ASSUME RInv, [Next]_vars PROVE [Service!Next]_Service!vars
<1>0. IInv
  BY DEF RInv
<1>1. ASSUME NEW t \in Thread, Begin(t) PROVE Service!Next
  BY <1>0, <1>1, BeginMaps DEF Service!Next
<1>2. ASSUME NEW t \in Thread, Reject(t) PROVE Service!Next
  BY <1>0, <1>2, RejectMaps DEF Service!Next
<1>3. ASSUME NEW t \in Thread, Connect(t) PROVE Unseen
  BY <1>3, ConnectMaps
<1>4. ASSUME NEW t \in Thread, ConnectFails(t) PROVE Service!Next
  BY <1>0, <1>4, ConnectFailsMaps DEF Service!Next, Reports
<1>5. ASSUME NEW t \in Thread, Process_cmd(t) PROVE Unseen
  BY <1>0, <1>5, SendCmdMaps, MoveMaps, RecvCmdMaps DEF Process_cmd, ProcessCmd
<1>6. ASSUME NEW t \in Thread, Return(t) PROVE Service!Next
  <2>1. Reports(t)
    BY <1>0, <1>6, GetRejectMaps, LockReturnMaps, SetReturnMaps, GetReturnMaps,
       ProvReturnMaps DEF Return
  <2> QED BY <2>1 DEF Service!Next, Reports
<1>7. ASSUME NEW p \in Process, NEW f \in Fd, FwStep(p, f) PROVE Service!Next
  BY <1>7, FwAcceptsMaps, FwRefusesMaps DEF FwStep, Service!Next
<1>8. CASE UNCHANGED vars
  <2>1. UNCHANGED <<fd, files, link, pc, ret, resp, call, result, acd, fate>>
    BY <1>8 DEF vars, teeVars, txeiVars
  <2>2. \A t \in Thread : Keeps(t)
    BY <2>1 DEF Keeps, Untouched, LinkOf
  <2>3. StageMap' = StageMap /\ GotMap' = GotMap /\ VerdictMap' = VerdictMap
    BY <1>0, <2>2, KeepsMapped DEF StageMap, GotMap, VerdictMap
  <2>4. Limbo' = Limbo
    BY <2>1 DEF Limbo, Waiting
  <2> QED BY <2>1, <2>3, <2>4 DEF Service!vars
<1> QED BY <1>1, <1>2, <1>3, <1>4, <1>5, <1>6, <1>7, <1>8
        DEF Next, CallStep, Unseen, Service!vars

(* The library of umip_access.c does what AcdService promises: a call      *)
(* takes effect at one instant between its begin and its return or, if it  *)
(* returned "unknown", perhaps later; and "ok" and "no" can be trusted.    *)
THEOREM Implements == Spec => ImplementsService
<1>1. Init => Service!Init
  BY InitMaps
<1>2. RInv /\ [Next]_vars => [Service!Next]_Service!vars
  BY StepMaps
<1> QED BY <1>1, <1>2, TrafficInvariance, PTL DEF Spec, Service!Spec, ImplementsService

=============================================================================
