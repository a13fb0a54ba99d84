------------------------------ MODULE IptProofs ------------------------------
(***************************************************************************)
(* Proofs about Ipt: its invariants hold for any threads, processes, codes *)
(* and faults.                                                             *)
(***************************************************************************)
EXTENDS Ipt, TxeiProofs

(* What Core says of one thread, Secluded apart.                           *)
Placed(t) == Connected(t) /\ (alone[t] => Globals(t) /\ Traffic(t) /\ Told(t))

(* A step leaves the locals of thread u as they are ...                    *)
Kept(u) ==
  /\ pc'[u] = pc[u] /\ kind'[u] = kind[u] /\ ret'[u] = ret[u]
  /\ out'[u] = out[u] /\ fate'[u] = fate[u]
  /\ Untouched(u)

(* ... and the globals of its process.                                     *)
GlobalsKept(u) == Req(u)' = Req(u) /\ Resp(u)' = Resp(u)

(* The values that the steps write are what TypeOK says.                   *)
LEMMA Values ==
  /\ ZeroReq \in Msg /\ ZeroRsp \in Rsp /\ NoBytes \in Answer /\ Refusals \subseteq Rsp
  /\ Rsp \subseteq Answer
  /\ None \in Answered /\ Caller \in Answered /\ Msg \subseteq Answered
  /\ \A t \in Thread : kind[t] \in Kind => Own(t) \in Msg
  /\ \A m \in Msg : Answers(m) \subseteq Rsp
<1>1. ZeroReq \in Msg /\ None \in Answered /\ Caller \in Answered /\ Msg \subseteq Answered
  BY DEF ZeroReq, Msg, Answered
<1>2. /\ ZeroRsp \in Rsp /\ Refusals \subseteq Rsp
      /\ NoBytes \in Answer /\ Rsp \subseteq Answer
  BY <1>1 DEF ZeroRsp, NoBytes, Refusals, Rsp, Answer
<1>3. ASSUME NEW t \in Thread, kind[t] \in Kind PROVE Own(t) \in Msg
  BY <1>3 DEF Own, Msg
<1>4. ASSUME NEW m \in Msg PROVE Answers(m) \subseteq Rsp
  BY <1>1 DEF Answers, Rsp
<1> QED BY <1>1, <1>2, <1>3, <1>4

(* A thread whose locals a step leaves alone stays in its place, if that   *)
(* step leaves the globals alone too or the thread makes no call.          *)
LEMMA Frame ==
  ASSUME NEW u \in Thread, Placed(u), Kept(u), alone'[u] => alone[u],
         alone[u] => pc[u] = "idle" \/ GlobalsKept(u)
  PROVE  Placed(u)'
<1>1. pc'[u] = pc[u] /\ kind'[u] = kind[u] /\ ret'[u] = ret[u]
      /\ out'[u] = out[u] /\ fate'[u] = fate[u] /\ fd'[u] = fd[u]
  BY DEF Kept, Untouched
<1>2. Connected(u)'
  BY <1>1 DEF Placed, Connected
<1>3. Own(u)' = Own(u) /\ Blank(u)' = Blank(u)
  BY <1>1 DEF Own, Blank
<1>4. SUFFICES ASSUME alone'[u], alone[u] PROVE Globals(u)' /\ Traffic(u)' /\ Told(u)'
  BY <1>2 DEF Placed
<1>5. Told(u)'
  BY <1>1, <1>3, <1>4 DEF Placed, Told, Tells
<1>6. CASE pc[u] = "idle"
  BY <1>1, <1>5, <1>6 DEF Globals, Traffic
<1>7. CASE GlobalsKept(u)
  <2>1. Globals(u)'
    <3>1. \A r : Truthful(u, r)' = Truthful(u, r)
      BY <1>1, <1>3 DEF Truthful
    <3> QED BY <3>1, <1>1, <1>3, <1>4, <1>7 DEF Placed, Globals, GlobalsKept
  <2>2. pc[u] \notin {"idle", "connect"} => LinkOf(u)' = LinkOf(u)
    BY DEF Kept, Untouched, Placed, Connected
  <2>3. Traffic(u)'
    <3>1. LinkOf(u)' = LinkOf(u) => Unsent(u)' = Unsent(u) /\ InFlight(u)' = InFlight(u)
      BY <1>1, <1>3 DEF Unsent, InFlight, Truthful
    <3> QED BY <3>1, <2>2, <1>1, <1>3, <1>4 DEF Placed, Traffic
  <2> QED BY <2>1, <2>3, <1>5
<1> QED BY <1>4, <1>6, <1>7 DEF Placed

(* A step of a call under way leaves every other thread in its place, and  *)
(* those nobody overlaps with are still secluded.                          *)
LEMMA OthersStay ==
  ASSUME Core, NEW t \in Thread, pc[t] # "idle",
         \A u \in Thread \ {t} : Kept(u),
         alone' = alone,
         \A u \in Thread : ProcOf[u] # ProcOf[t] => GlobalsKept(u)
  PROVE  /\ \A u \in Thread \ {t} : Placed(u)'
         /\ \A u \in Thread : Secluded(u)'
<1>1. ASSUME NEW u \in Thread \ {t}, alone[u], pc[u] # "idle"
      PROVE  ProcOf[u] # ProcOf[t]
  BY <1>1 DEF Core, Secluded, Peers
<1>2. ASSUME NEW u \in Thread \ {t} PROVE Placed(u)'
  BY <1>1, Frame DEF Core, Placed
<1>3. ASSUME NEW u \in Thread, alone'[u], pc'[u] # "idle", NEW v \in Peers(u)
      PROVE  pc'[v] = "idle"
  <2>1. v \in Thread /\ v # u /\ ProcOf[v] = ProcOf[u]
    BY DEF Peers
  <2>2. CASE u = t
    BY <2>1, <2>2, <1>3 DEF Core, Secluded, Kept
  <2>3. CASE u # t
    <3>1. pc[u] # "idle" /\ alone[u]
      BY <2>3, <1>3 DEF Kept
    <3>2. v # t
      BY <3>1, <2>3, <2>1, <1>1
    <3> QED BY <3>1, <3>2, <2>1 DEF Core, Secluded, Kept
  <2> QED BY <2>2, <2>3
<1>4. ASSUME NEW u \in Thread PROVE Secluded(u)'
  BY <1>3 DEF Secluded, Peers
<1> QED BY <1>2, <1>4

(* The descriptors are accounted for as long as no handle is opened or     *)
(* closed and no thread goes idle.                                         *)
LEMMA FilesStay ==
  ASSUME Core, fd' = fd, files' = files,
         \A u \in Thread : pc'[u] = "idle" => fd[u] = NoFd
  PROVE  ConnectionsClosed'
BY DEF Core, ConnectionsClosed

(* A step of a thread under way that neither touches its connection nor    *)
(* ends the call.                                                          *)
LEMMA QuietStep ==
  ASSUME Core, NEW t \in Thread, pc[t] # "idle", pc'[t] # "idle",
         UNCHANGED txeiVars, alone' = alone,
         \A u \in Thread \ {t} : /\ pc'[u] = pc[u] /\ kind'[u] = kind[u] /\ ret'[u] = ret[u]
                                 /\ out'[u] = out[u] /\ fate'[u] = fate[u],
         \A u \in Thread : ProcOf[u] # ProcOf[t] => GlobalsKept(u),
         TypeOK', Placed(t)'
  PROVE  Core'
<1>1. \A u \in Thread \ {t} : Kept(u)
  BY DEF Kept, Untouched, txeiVars, LinkOf
<1>2. /\ \A u \in Thread \ {t} : Placed(u)'
      /\ \A u \in Thread : Secluded(u)'
  BY <1>1, OthersStay
<1>3. ConnectionsClosed'
  BY FilesStay DEF Core, ConnectionsClosed, txeiVars
<1>4. HandlesExclusive'
  BY DEF Core, HandlesExclusive, txeiVars
<1> QED BY <1>2, <1>3, <1>4 DEF Core, Placed

-----------------------------------------------------------------------------
LEMMA InitCore == Init => Core
<1> SUFFICES ASSUME Init PROVE Core
  OBVIOUS
<1>1. \A t \in Thread : fd[t] = NoFd /\ pc[t] = "idle" /\ kind[t] = None
  BY DEF Init, TxeiInit
<1>2. TypeOK
  <2>1. TxeiTypeOK(Msg, Answer)
    BY DEF Init, TxeiInit, TxeiTypeOK, NoTraffic
  <2>2. /\ pc \in [Thread -> Places]
        /\ kind \in [Thread -> Kind \cup {None}]
        /\ ret \in [Thread -> FwError \cup {IPT_SUCCESS, TEE_FAILURE, INVALID_PARAM, NULL_PARAM}]
        /\ fate \in [Thread -> {"none", "done", "refused", "mute"}]
        /\ alone \in [Thread -> BOOLEAN]
    BY DEF Init, Places
  <2>3. out \in [Thread -> [len : Answered, data : Answered]]
    BY Values DEF Init
  <2>4. req \in [Process -> Msg] /\ rsp \in [Process -> Rsp]
    BY Values DEF Init
  <2> QED BY <2>1, <2>2, <2>3, <2>4 DEF TypeOK
<1>3. HandlesExclusive /\ ConnectionsClosed
  BY <1>1 DEF Init, TxeiInit, HandlesExclusive, ConnectionsClosed
<1>4. ASSUME NEW t \in Thread
      PROVE  Connected(t) /\ Secluded(t) /\ Globals(t) /\ Traffic(t) /\ Told(t)
  BY <1>1 DEF Connected, Secluded, Globals, Traffic, Told, Tells
<1> QED BY <1>2, <1>3, <1>4 DEF Core

-----------------------------------------------------------------------------
(* The steps that prepare the globals.                                     *)

LEMMA GotoStep ==
  ASSUME TypeOK, NEW t \in Thread, NEW here, NEW there \in Places, Goto(t, here, there)
  PROVE  /\ pc[t] = here /\ pc'[t] = there /\ pc' \in [Thread -> Places]
         /\ \A u \in Thread \ {t} : pc'[u] = pc[u]
BY DEF TypeOK, Goto

LEMMA SetReqStep ==
  ASSUME Core, NEW t \in Thread, NEW here, NEW there \in Places \ {"idle"}, here # "idle",
         Goto(t, here, there), NEW r \in Msg, SetReq(t, r), Placed(t)'
  PROVE  Core'
<1>1. TypeOK
  BY DEF Core
<1>2. ProcOf \in [Thread -> Process]
  BY TxeiAssumption
<1>3. /\ pc[t] = here /\ pc'[t] = there /\ pc' \in [Thread -> Places]
      /\ \A u \in Thread \ {t} : pc'[u] = pc[u]
  BY <1>1, GotoStep
<1>4. /\ req' = [req EXCEPT ![ProcOf[t]] = r]
      /\ UNCHANGED <<txeiVars, kind, ret, out, rsp, fate, alone>>
  BY DEF SetReq
<1>5. TypeOK'
  BY <1>1, <1>2, <1>3, <1>4 DEF TypeOK, TxeiTypeOK, txeiVars
<1>6. \A u \in Thread : ProcOf[u] # ProcOf[t] => GlobalsKept(u)
  BY <1>1, <1>2, <1>4 DEF GlobalsKept, Req, Resp, TypeOK
<1> QED BY <1>3, <1>4, <1>5, <1>6, QuietStep

LEMMA SetRspStep ==
  ASSUME Core, NEW t \in Thread, NEW here, NEW there \in Places \ {"idle"}, here # "idle",
         Goto(t, here, there), NEW r \in Rsp, SetRsp(t, r), Placed(t)'
  PROVE  Core'
<1>1. TypeOK
  BY DEF Core
<1>2. ProcOf \in [Thread -> Process]
  BY TxeiAssumption
<1>3. /\ pc[t] = here /\ pc'[t] = there /\ pc' \in [Thread -> Places]
      /\ \A u \in Thread \ {t} : pc'[u] = pc[u]
  BY <1>1, GotoStep
<1>4. /\ rsp' = [rsp EXCEPT ![ProcOf[t]] = r]
      /\ UNCHANGED <<txeiVars, kind, ret, out, req, fate, alone>>
  BY DEF SetRsp
<1>5. TypeOK'
  BY <1>1, <1>2, <1>3, <1>4 DEF TypeOK, TxeiTypeOK, txeiVars
<1>6. \A u \in Thread : ProcOf[u] # ProcOf[t] => GlobalsKept(u)
  BY <1>1, <1>2, <1>4 DEF GlobalsKept, Req, Resp, TypeOK
<1> QED BY <1>3, <1>4, <1>5, <1>6, QuietStep

(* The place of a thread, expanded, before a message is sent.              *)
LEMMA PrepareInv ==
  ASSUME Core, NEW t \in Thread, Prepare(t)
  PROVE  Core'
<1>0. /\ TypeOK /\ Placed(t)
      /\ ProcOf[t] \in Process /\ Req(t) \in Msg /\ Resp(t) \in Rsp /\ kind[t] \in Kind \cup {None}
      /\ Answered = Msg \cup {None, Caller}
  BY TxeiAssumption DEF Core, Placed, TypeOK, Req, Resp, Answered
<1>1. ASSUME NEW r \in Msg, SetReq(t, r)
      PROVE  /\ Req(t)' = r /\ Resp(t)' = Resp(t)
             /\ UNCHANGED <<fd, link, kind, ret, out, fate, alone>>
  BY <1>0, <1>1 DEF SetReq, Req, Resp, TypeOK, txeiVars
<1>2. ASSUME NEW r \in Rsp, SetRsp(t, r)
      PROVE  /\ Resp(t)' = r /\ Req(t)' = Req(t)
             /\ UNCHANGED <<fd, link, kind, ret, out, fate, alone>>
  BY <1>0, <1>2 DEF SetRsp, Req, Resp, TypeOK, txeiVars
<1>3. ASSUME UNCHANGED <<fd, link, kind, fate>>
      PROVE  Unsent(t)' = Unsent(t) /\ Own(t)' = Own(t) /\ Blank(t)' = Blank(t)
  BY <1>3 DEF Unsent, LinkOf, Own, Blank
<1>4. kind[t] # "ctl" => Own(t) = [cmd |-> kind[t], len |-> t, data |-> t]
  BY DEF Own
<1>5. CASE ClearReq(t)
  <2>1. Goto(t, "clearReq", "clearRsp") /\ SetReq(t, ZeroReq)
    BY <1>5 DEF ClearReq
  <2>2. pc[t] = "clearReq" /\ pc'[t] = "clearRsp"
    BY <1>0, <2>1, GotoStep DEF Places
  <2>3. Placed(t)'
    BY <1>0, <1>1, <1>3, <2>1, <2>2, Values DEF Placed, Connected, Globals, Traffic, Told, Tells
  <2> QED BY <2>1, <2>3, SetReqStep, Values DEF Places
<1>6. CASE ClearRsp(t)
  <2>1. Goto(t, "clearRsp", "cmd") /\ SetRsp(t, ZeroRsp)
    BY <1>6 DEF ClearRsp
  <2>2. pc[t] = "clearRsp" /\ pc'[t] = "cmd"
    BY <1>0, <2>1, GotoStep DEF Places
  <2>3. Placed(t)'
    BY <1>0, <1>2, <1>3, <2>1, <2>2, Values DEF Placed, Connected, Globals, Traffic, Told, Tells
  <2> QED BY <2>1, <2>3, SetRspStep, Values DEF Places
<1>7. CASE FillCmd(t)
  <2> DEFINE r == [Req(t) EXCEPT !.cmd = kind[t]]
             there == IF kind[t] = "ipt" THEN "len" ELSE "status"
  <2>1. Goto(t, "cmd", there) /\ SetReq(t, r)
    BY <1>7 DEF FillCmd
  <2>2. pc[t] = "cmd" /\ pc'[t] = there /\ there \in Places \ {"idle"}
    BY <1>0, <2>1, GotoStep DEF Places
  <2>3. r \in Msg
    BY <1>0 DEF Msg
  <2>4. Req(t)' = r /\ Resp(t)' = Resp(t) /\ UNCHANGED <<fd, link, kind, ret, out, fate, alone>>
    BY <1>1, <2>1, <2>3
  <2>5. alone[t] => r = [cmd |-> kind[t], len |-> None, data |-> None]
    BY <1>0, <2>2 DEF Placed, Globals, ZeroReq
  <2> HIDE DEF r
  <2>6. Placed(t)'
    BY <1>0, <1>3, <2>2, <2>4, <2>5 DEF Placed, Connected, Globals, Traffic, Told, Tells, Kind
  <2> QED BY <2>1, <2>2, <2>3, <2>6, SetReqStep
<1>8. CASE FillStatus(t)
  <2> DEFINE r == [Resp(t) EXCEPT !.status = IPT_SUCCESS]
             there == IF kind[t] = "msg" THEN "len" ELSE "send"
  <2>1. Goto(t, "status", there) /\ SetRsp(t, r)
    BY <1>8 DEF FillStatus
  <2>2. pc[t] = "status" /\ pc'[t] = there /\ there \in Places \ {"idle"}
    BY <1>0, <2>1, GotoStep DEF Places
  <2>3. r \in Rsp
    BY <1>0 DEF Rsp, IPT_SUCCESS
  <2>4. Resp(t)' = r /\ Req(t)' = Req(t) /\ UNCHANGED <<fd, link, kind, ret, out, fate, alone>>
    BY <1>2, <2>1, <2>3
  <2>5. alone[t] => r = ZeroRsp
    BY <1>0, <2>2 DEF Placed, Globals, ZeroRsp, IPT_SUCCESS
  <2>6. kind[t] # "msg" => ZeroRsp = Blank(t)
    BY DEF Blank, ZeroRsp
  <2>7. kind[t] \notin {"ipt", "msg"} /\ kind[t] # None =>
          [cmd |-> kind[t], len |-> None, data |-> None] = Own(t)
    BY <1>0 DEF Own, Kind
  <2> HIDE DEF r
  <2>8. Placed(t)'
    BY <1>0, <1>3, <2>2, <2>4, <2>5, <2>6, <2>7
       DEF Placed, Connected, Globals, Traffic, Told, Tells, Kind
  <2> QED BY <2>1, <2>2, <2>3, <2>8, SetRspStep
<1>9. CASE FillLen(t)
  <2> DEFINE r == [Req(t) EXCEPT !.len = t]
  <2>1. Goto(t, "len", "data") /\ SetReq(t, r)
    BY <1>9 DEF FillLen
  <2>2. pc[t] = "len" /\ pc'[t] = "data"
    BY <1>0, <2>1, GotoStep DEF Places
  <2>3. r \in Msg
    BY <1>0 DEF Msg
  <2>4. Req(t)' = r /\ Resp(t)' = Resp(t) /\ UNCHANGED <<fd, link, kind, ret, out, fate, alone>>
    BY <1>1, <2>1, <2>3
  <2>5. alone[t] => r = [cmd |-> kind[t], len |-> t, data |-> None]
    BY <1>0, <2>2 DEF Placed, Globals
  <2> HIDE DEF r
  <2>6. Placed(t)'
    BY <1>0, <1>3, <2>2, <2>4, <2>5 DEF Placed, Connected, Globals, Traffic, Told, Tells
  <2> QED BY <2>1, <2>3, <2>6, SetReqStep DEF Places
<1>10. CASE FillData(t)
  <2> DEFINE r == [Req(t) EXCEPT !.data = t]
             there == IF kind[t] = "msg" THEN "room" ELSE "send"
  <2>1. Goto(t, "data", there) /\ SetReq(t, r)
    BY <1>10 DEF FillData
  <2>2. pc[t] = "data" /\ pc'[t] = there /\ there \in Places \ {"idle"}
    BY <1>0, <2>1, GotoStep DEF Places
  <2>3. r \in Msg
    BY <1>0 DEF Msg
  <2>4. Req(t)' = r /\ Resp(t)' = Resp(t) /\ UNCHANGED <<fd, link, kind, ret, out, fate, alone>>
    BY <1>1, <2>1, <2>3
  <2>5. alone[t] => r = [cmd |-> kind[t], len |-> t, data |-> t]
    BY <1>0, <2>2 DEF Placed, Globals
  <2>6. alone[t] => r = Own(t)
    BY <1>0, <1>4, <2>2, <2>5 DEF Placed, Connected
  <2>7. kind[t] # "msg" => ZeroRsp = Blank(t)
    BY DEF Blank, ZeroRsp
  <2> HIDE DEF r
  <2>8. Placed(t)'
    BY <1>0, <1>3, <2>2, <2>4, <2>6, <2>7 DEF Placed, Connected, Globals, Traffic, Told, Tells
  <2> QED BY <2>1, <2>2, <2>3, <2>8, SetReqStep
<1>11. CASE FillRoom(t)
  <2> DEFINE r == [Resp(t) EXCEPT !.len = Caller]
  <2>1. Goto(t, "room", "send") /\ SetRsp(t, r)
    BY <1>11 DEF FillRoom
  <2>2. pc[t] = "room" /\ pc'[t] = "send"
    BY <1>0, <2>1, GotoStep DEF Places
  <2>3. r \in Rsp
    BY <1>0 DEF Rsp, Answered
  <2>4. Resp(t)' = r /\ Req(t)' = Req(t) /\ UNCHANGED <<fd, link, kind, ret, out, fate, alone>>
    BY <1>2, <2>1, <2>3
  <2>5. alone[t] => r = Blank(t)
    BY <1>0, <2>2 DEF Placed, Connected, Globals, Blank
  <2> HIDE DEF r
  <2>6. Placed(t)'
    BY <1>0, <1>3, <2>2, <2>4, <2>5 DEF Placed, Connected, Globals, Traffic, Told, Tells
  <2> QED BY <2>1, <2>3, <2>6, SetRspStep DEF Places
<1> QED BY <1>5, <1>6, <1>7, <1>8, <1>9, <1>10, <1>11 DEF Prepare

-----------------------------------------------------------------------------
(* The steps on locals only.                                               *)
Result == FwError \cup {IPT_SUCCESS, TEE_FAILURE, INVALID_PARAM, NULL_PARAM}

LEMMA LocalStep ==
  ASSUME Core, NEW t \in Thread, NEW here, NEW there \in Places \ {"idle"}, here # "idle",
         Goto(t, here, there), UNCHANGED <<txeiVars, kind, req, rsp, fate, alone>>,
         NEW v \in Result, ret' = [ret EXCEPT ![t] = v],
         NEW o \in [len : Answered, data : Answered], out' = [out EXCEPT ![t] = o],
         Placed(t)'
  PROVE  Core'
<1>1. TypeOK
  BY DEF Core
<1>2. /\ pc[t] = here /\ pc'[t] = there /\ pc' \in [Thread -> Places]
      /\ \A u \in Thread \ {t} : pc'[u] = pc[u]
  BY <1>1, GotoStep
<1>3. ret' \in [Thread -> Result] /\ out' \in [Thread -> [len : Answered, data : Answered]]
  BY <1>1 DEF TypeOK, Result
<1>4. TypeOK'
  BY <1>1, <1>2, <1>3 DEF TypeOK, TxeiTypeOK, txeiVars, Result
<1>5. \A u \in Thread \ {t} : /\ pc'[u] = pc[u] /\ kind'[u] = kind[u] /\ ret'[u] = ret[u]
                              /\ out'[u] = out[u] /\ fate'[u] = fate[u]
  BY <1>1, <1>2 DEF TypeOK
<1>6. \A u \in Thread : GlobalsKept(u)
  BY DEF GlobalsKept, Req, Resp
<1> QED BY <1>2, <1>4, <1>5, <1>6, QuietStep

LEMMA LocalInv ==
  ASSUME Core, NEW t \in Thread,
         \/ SendCmdFails(t) \/ SelectEnds(t) \/ RecvCmdFails(t)
         \/ Check(t) \/ CopyLen(t) \/ CopyData(t)
  PROVE  Core'
<1>0. /\ TypeOK /\ Placed(t)
      /\ Resp(t) \in Rsp /\ ret[t] \in Result /\ out[t] \in [len : Answered, data : Answered]
      /\ ret = [ret EXCEPT ![t] = ret[t]] /\ out = [out EXCEPT ![t] = out[t]]
  BY TxeiAssumption DEF Core, Placed, TypeOK, Resp, Result
<1>1. None \in Answered /\ Caller \in Answered /\ TEE_FAILURE \in Result
  BY Values DEF Result
<1>2. ASSUME UNCHANGED <<fd, link, kind, fate, req, rsp>>
      PROVE  /\ Unsent(t)' = Unsent(t) /\ Own(t)' = Own(t) /\ Blank(t)' = Blank(t)
             /\ Req(t)' = Req(t) /\ Resp(t)' = Resp(t)
             /\ InFlight(t)' = InFlight(t) /\ LinkOf(t)' = LinkOf(t)
             /\ \A r : Truthful(t, r)' = Truthful(t, r)
  BY <1>2 DEF Unsent, LinkOf, Own, Blank, Req, Resp, InFlight, Truthful
<1>3. CASE SendCmdFails(t)
  <2>1. /\ Goto(t, "send", "recv")
        /\ UNCHANGED <<txeiVars, kind, ret, out, req, rsp, fate, alone>>
    BY <1>3 DEF SendCmdFails, MeiWriteFails
  <2>2. pc[t] = "send" /\ pc'[t] = "recv"
    BY <1>0, <2>1, GotoStep DEF Places
  <2>3. Placed(t)'
    BY <1>0, <1>2, <2>1, <2>2 DEF Placed, Connected, Globals, Traffic, Told, Tells, txeiVars
  <2> QED BY <1>0, <2>1, <2>3, LocalStep DEF Places
<1>4. CASE SelectEnds(t)
  <2>1. /\ Goto(t, "select", "recv")
        /\ UNCHANGED <<txeiVars, kind, ret, out, req, rsp, fate, alone>>
    BY <1>4 DEF SelectEnds
  <2>2. pc[t] = "select" /\ pc'[t] = "recv"
    BY <1>0, <2>1, GotoStep DEF Places
  <2>3. Placed(t)'
    BY <1>0, <1>2, <2>1, <2>2 DEF Placed, Connected, Globals, Traffic, Told, Tells, txeiVars
  <2> QED BY <1>0, <2>1, <2>3, LocalStep DEF Places
<1>5. CASE RecvCmdFails(t)
  <2>1. /\ Goto(t, "recv", "close") /\ ret' = [ret EXCEPT ![t] = TEE_FAILURE]
        /\ UNCHANGED <<txeiVars, kind, out, req, rsp, fate, alone>>
    BY <1>5 DEF RecvCmdFails, MeiReadFails
  <2>2. pc[t] = "recv" /\ pc'[t] = "close" /\ ret'[t] = TEE_FAILURE
    BY <1>0, <2>1, GotoStep DEF Places, TypeOK
  <2>3. TEE_FAILURE # IPT_SUCCESS
    BY DEF TEE_FAILURE, IPT_SUCCESS
  <2>4. Own(t) \notin {Caller, None} \/ kind[t] = None
    BY IptAssumption, Values, <1>0 DEF TypeOK
  <2>5. Placed(t)'
    BY <1>0, <1>2, <2>1, <2>2, <2>3, <2>4
       DEF Placed, Connected, Globals, Traffic, Told, Tells, txeiVars
  <2> QED BY <1>0, <1>1, <2>1, <2>5, LocalStep DEF Places
<1>6. CASE Check(t)
  <2> DEFINE there == IF kind[t] = "ctl" \/ Resp(t).status # IPT_SUCCESS THEN "close" ELSE "copyLen"
  <2>1. /\ Goto(t, "check", there) /\ ret' = [ret EXCEPT ![t] = Resp(t).status]
        /\ UNCHANGED <<txeiVars, kind, out, req, rsp, fate, alone>>
    BY <1>6 DEF Check
  <2>2. pc[t] = "check" /\ pc'[t] = there /\ there \in Places \ {"idle"} /\ ret'[t] = Resp(t).status
    BY <1>0, <2>1, GotoStep DEF Places, TypeOK
  <2>3. Resp(t).status \in Result
    BY <1>0 DEF Rsp, Result, IPT_SUCCESS
  <2>4. alone[t] => \/ Resp(t).status = IPT_SUCCESS /\ fate[t] \in {"done", "mute"}
                    \/ Resp(t).status \in FwError /\ fate[t] = "refused"
    BY <1>0, <2>2 DEF Placed, Globals, Truthful, ZeroRsp, Refusals, Blank, IPT_SUCCESS
  <2>5. 0 \notin FwError
    BY IptAssumption
  <2>6. Own(t) \notin {Caller, None} \/ kind[t] = None
    BY IptAssumption, Values, <1>0 DEF TypeOK
  <2>7. Connected(t)'
    BY <1>0, <2>1, <2>2 DEF Placed, Connected, txeiVars
  <2>8. alone[t] => Globals(t)' /\ Traffic(t)'
    <3>1. alone[t] => LinkOf(t) = NoTraffic
      BY <1>0, <2>2 DEF Placed, Traffic
    <3>2. alone[t] => Traffic(t)'
      BY <3>1, <1>2, <2>1, <2>2 DEF Traffic, NoTraffic, txeiVars
    <3>3. alone[t] => Globals(t)'
      BY <1>0, <1>2, <2>1, <2>2 DEF Placed, Globals, IPT_SUCCESS, txeiVars
    <3> QED BY <3>2, <3>3
  <2>9. ASSUME alone[t] PROVE Told(t)'
    <3>1. /\ out'[t] = out[t] /\ kind'[t] = kind[t] /\ fate'[t] = fate[t] /\ kind[t] # None
          /\ out[t].len = Caller /\ out[t].data \in {Caller, None}
          /\ kind[t] # "ctl" => out[t].data # Caller
      BY <1>0, <2>1, <2>2, <2>9 DEF Placed, Connected, Told, Tells
    <3>2. CASE there = "copyLen"
      BY <2>2, <3>1, <3>2 DEF Told, Tells
    <3>3. CASE there = "close"
      BY <1>2, <2>1, <2>2, <2>4, <2>5, <2>6, <2>9, <3>1, <3>3 DEF Told, Tells, IPT_SUCCESS, txeiVars
    <3> QED BY <3>2, <3>3
  <2>10. Placed(t)'
    BY <2>1, <2>7, <2>8, <2>9 DEF Placed
  <2> QED BY <1>0, <2>1, <2>2, <2>3, <2>10, LocalStep
<1>7. CASE CopyLen(t)
  <2> DEFINE o == [out[t] EXCEPT !.len = Resp(t).len]
  <2>1. /\ Goto(t, "copyLen", "copyData") /\ out' = [out EXCEPT ![t] = o]
        /\ UNCHANGED <<txeiVars, kind, ret, req, rsp, fate, alone>>
    BY <1>7 DEF CopyLen
  <2>2. o \in [len : Answered, data : Answered]
    BY <1>0 DEF Rsp
  <2>3. pc[t] = "copyLen" /\ pc'[t] = "copyData" /\ out'[t] = o
    BY <1>0, <2>1, GotoStep DEF Places, TypeOK
  <2>4. o.len = Resp(t).len /\ o.data = out[t].data
    BY <1>0
  <2> HIDE DEF o
  <2>5. Placed(t)'
    BY <1>0, <1>2, <2>1, <2>3, <2>4 DEF Placed, Connected, Globals, Traffic, Told, Tells, txeiVars
  <2> QED BY <1>0, <2>1, <2>2, <2>5, LocalStep DEF Places
<1>8. CASE CopyData(t)
  <2> DEFINE o == IF Resp(t).len = None THEN out[t] ELSE [out[t] EXCEPT !.data = Resp(t).data]
  <2>1. /\ Goto(t, "copyData", "close") /\ out' = [out EXCEPT ![t] = o]
        /\ UNCHANGED <<txeiVars, kind, ret, req, rsp, fate, alone>>
    BY <1>0, <1>8 DEF CopyData
  <2>2. o \in [len : Answered, data : Answered]
    BY <1>0 DEF Rsp
  <2>3. pc[t] = "copyData" /\ pc'[t] = "close" /\ out'[t] = o
    BY <1>0, <2>1, GotoStep DEF Places, TypeOK
  <2>4. /\ o.len = out[t].len
        /\ o.data = IF Resp(t).len = None THEN out[t].data ELSE Resp(t).data
    BY <1>0
  <2> HIDE DEF o
  <2>5. Own(t) \notin {Caller, None} \/ kind[t] = None
    BY IptAssumption, Values, <1>0 DEF TypeOK
  <2>6. alone[t] => /\ o.len = Resp(t).len /\ Resp(t).status = 0
                    /\ out[t].data = None
                    /\ kind[t] # None /\ ret[t] = IPT_SUCCESS
                    /\ Truthful(t, Resp(t)) \/ (fate[t] = "mute" /\ Resp(t) = Blank(t))
    BY <1>0, <2>3, <2>4 DEF Placed, Connected, Globals, Told, Tells
  <2>7. 0 \notin FwError
    BY IptAssumption
  <2>8. alone[t] =>
          \/ fate[t] = "done" /\ Resp(t).len = None /\ Resp(t).data = None
          \/ fate[t] = "done" /\ Resp(t).len = Own(t) /\ Resp(t).data = Own(t)
          \/ fate[t] = "mute" /\ Resp(t).len \in {Caller, None} /\ Resp(t).data = None
    BY <2>6, <2>7 DEF Truthful, Refusals, Blank, ZeroRsp
  <2>9. alone[t] => /\ o.data \in {None, Own(t)} /\ o.data # Caller
                    /\ o.len = Own(t) <=> o.data = Own(t)
                    /\ o.data = Own(t) => fate[t] = "done"
                    /\ fate[t] \in {"done", "mute"}
    BY IptAssumption, <2>4, <2>5, <2>6, <2>8
  <2>10. Told(t)' \/ ~alone[t]
    BY <1>2, <2>1, <2>3, <2>6, <2>7, <2>9 DEF Told, Tells, IPT_SUCCESS, txeiVars
  <2>11. Connected(t)'
    BY <1>0, <2>1, <2>3 DEF Placed, Connected, txeiVars
  <2>12. alone[t] => Globals(t)' /\ Traffic(t)'
    <3>1. alone[t] => LinkOf(t) = NoTraffic
      BY <1>0, <2>3 DEF Placed, Traffic
    <3> QED BY <3>1, <1>2, <2>1, <2>3 DEF Globals, Traffic, NoTraffic, txeiVars
  <2>13. Placed(t)'
    BY <2>1, <2>10, <2>11, <2>12 DEF Placed
  <2> QED BY <1>0, <2>1, <2>2, <2>13, LocalStep DEF Places
<1> QED BY <1>3, <1>4, <1>5, <1>6, <1>7, <1>8

-----------------------------------------------------------------------------
(* The steps on the connection.                                            *)

(* A step of a call that changes what travels on its own connection.       *)
LEMMA TrafficStep ==
  ASSUME Core, NEW t \in Thread, NEW here, NEW there \in Places \ {"idle"}, here # "idle",
         Goto(t, here, there), UNCHANGED <<kind, ret, out, fate, alone>>,
         OthersUntouched(t), fd' = fd, files' = files, HandlesExclusive',
         \A u \in Thread : ProcOf[u] # ProcOf[t] => GlobalsKept(u),
         TypeOK', Placed(t)'
  PROVE  Core'
<1>1. TypeOK
  BY DEF Core
<1>2. /\ pc[t] = here /\ pc'[t] = there
      /\ \A u \in Thread \ {t} : pc'[u] = pc[u]
  BY <1>1, GotoStep
<1>3. \A u \in Thread \ {t} : Kept(u)
  BY <1>2 DEF Kept, OthersUntouched
<1>4. /\ \A u \in Thread \ {t} : Placed(u)'
      /\ \A u \in Thread : Secluded(u)'
  BY <1>2, <1>3, OthersStay
<1>5. ConnectionsClosed'
  <2>1. \A u \in Thread : pc'[u] = "idle" => fd[u] = NoFd
    BY <1>2 DEF Core, ConnectionsClosed
  <2> QED BY <2>1, FilesStay
<1> QED BY <1>4, <1>5 DEF Core, Placed

LEMMA SendCmdInv ==
  ASSUME Core, NEW t \in Thread, SendCmd(t)
  PROVE  Core'
<1>0. /\ TypeOK /\ Placed(t) /\ TxeiTypeOK(Msg, Answer) /\ HandlesExclusive
      /\ ProcOf[t] \in Process /\ Req(t) \in Msg
  BY TxeiAssumption DEF Core, Placed, TypeOK, Req
<1>1. /\ Goto(t, "send", "select") /\ MeiWrite(t, Req(t))
      /\ UNCHANGED <<kind, ret, out, req, rsp, fate, alone>>
  BY DEF SendCmd
<1>2. /\ pc[t] = "send" /\ pc'[t] = "select" /\ pc' \in [Thread -> Places]
  BY <1>0, <1>1, GotoStep DEF Places
<1>3. /\ TxeiTypeOK(Msg, Answer)' /\ HandlesExclusive' /\ OthersUntouched(t)
      /\ fd' = fd /\ LinkOf(t)' = [req |-> {Req(t)}, rsp |-> LinkOf(t).rsp]
  BY <1>0, <1>1, MeiWriteStep
<1>4. files' = files
  BY <1>1 DEF MeiWrite
<1>5. TypeOK'
  BY <1>0, <1>1, <1>2, <1>3 DEF TypeOK
<1>6. /\ Own(t)' = Own(t) /\ Blank(t)' = Blank(t) /\ Req(t)' = Req(t) /\ Resp(t)' = Resp(t)
  BY <1>1 DEF Own, Blank, Req, Resp
<1>7. alone[t] => InFlight(t)'
  <2>1. alone[t] => Req(t) = Own(t) /\ LinkOf(t).rsp = {} /\ fate[t] = "none"
    BY <1>0, <1>2 DEF Placed, Globals, Traffic, Unsent, NoTraffic
  <2> QED BY <2>1, <1>1, <1>3, <1>6 DEF InFlight
<1>8. Placed(t)'
  BY <1>0, <1>1, <1>2, <1>3, <1>6, <1>7 DEF Placed, Connected, Globals, Traffic, Told, Tells
<1>9. \A u \in Thread : GlobalsKept(u)
  BY <1>1 DEF GlobalsKept, Req, Resp
<1> QED BY <1>1, <1>3, <1>4, <1>5, <1>8, <1>9, TrafficStep DEF Places

LEMMA RecvCmdInv ==
  ASSUME Core, NEW t \in Thread, RecvCmd(t)
  PROVE  Core'
<1>0. /\ TypeOK /\ Placed(t) /\ TxeiTypeOK(Msg, Answer) /\ HandlesExclusive
      /\ ProcOf \in [Thread -> Process] /\ Resp(t) \in Rsp
  BY TxeiAssumption DEF Core, Placed, TypeOK, Resp
<1>1. PICK r \in LinkOf(t).rsp :
        /\ MeiRead(t, r)
        /\ rsp' = IF r = NoBytes THEN rsp ELSE [rsp EXCEPT ![ProcOf[t]] = r]
  BY DEF RecvCmd
<1>2. Goto(t, "recv", "check") /\ UNCHANGED <<kind, ret, out, req, fate, alone>>
  BY DEF RecvCmd
<1>3. pc[t] = "recv" /\ pc'[t] = "check" /\ pc' \in [Thread -> Places]
  BY <1>0, <1>2, GotoStep DEF Places
<1>4. /\ TxeiTypeOK(Msg, Answer)' /\ HandlesExclusive' /\ OthersUntouched(t)
      /\ fd' = fd /\ r \in Answer /\ LinkOf(t)' = [req |-> LinkOf(t).req, rsp |-> {}]
  BY <1>0, <1>1, MeiReadStep
<1>5. files' = files
  BY <1>1 DEF MeiRead
<1>6. TypeOK'
  <2>1. r = NoBytes \/ r \in Rsp
    BY <1>4 DEF Answer
  <2> QED BY <1>0, <1>1, <1>2, <1>3, <1>4, <2>1 DEF TypeOK
<1>7. /\ Own(t)' = Own(t) /\ Blank(t)' = Blank(t) /\ Req(t)' = Req(t)
      /\ \A s : Truthful(t, s)' = Truthful(t, s)
      /\ Resp(t)' = IF r = NoBytes THEN Resp(t) ELSE r
  BY <1>0, <1>1, <1>2 DEF Own, Blank, Req, Resp, Truthful, TypeOK
<1>8. alone[t] => Truthful(t, Resp(t)') \/ (fate[t] = "mute" /\ Resp(t)' = Blank(t))
  <2>1. alone[t] => InFlight(t) \/ Unsent(t)
    BY <1>0, <1>3 DEF Placed, Traffic
  <2>2. ~Unsent(t)
    BY <1>1 DEF Unsent, NoTraffic
  <2>3. InFlight(t) => Truthful(t, r) \/ (fate[t] = "mute" /\ r = NoBytes)
    BY <1>1 DEF InFlight
  <2>4. alone[t] => Resp(t) = Blank(t)
    BY <1>0, <1>3 DEF Placed, Globals
  <2>5. ~Truthful(t, NoBytes)
    <3>1. \A s : Truthful(t, s) => s.status \in FwError \cup {0}
      BY DEF Truthful, ZeroRsp, Refusals
    <3>2. NoBytes.status = None
      BY DEF NoBytes
    <3>3. \A e \in FwError \cup {0} : e \in Int
      BY IptAssumption
    <3>4. None \notin Int
      BY IptAssumption
    <3> QED BY <3>1, <3>2, <3>3, <3>4, Zenon
  <2> QED BY <2>1, <2>2, <2>3, <2>4, <2>5, <1>7
<1>9. Placed(t)'
  <2>1. alone[t] => LinkOf(t)' = NoTraffic
    <3>1. alone[t] => LinkOf(t).req = {}
      BY <1>0, <1>1, <1>3 DEF Placed, Traffic, Unsent, InFlight, NoTraffic
    <3> QED BY <3>1, <1>4 DEF NoTraffic
  <2> QED BY <1>0, <1>2, <1>3, <1>4, <1>7, <1>8, <2>1
         DEF Placed, Connected, Globals, Traffic, Told, Tells
<1>10. \A u \in Thread : ProcOf[u] # ProcOf[t] => GlobalsKept(u)
  BY <1>0, <1>1, <1>2 DEF GlobalsKept, Req, Resp, TypeOK
<1> QED BY <1>2, <1>4, <1>5, <1>6, <1>9, <1>10, TrafficStep DEF Places

LEMMA ConnectInv ==
  ASSUME Core, NEW t \in Thread, Connect(t)
  PROVE  Core'
<1>0. /\ TypeOK /\ Placed(t) /\ TxeiTypeOK(Msg, Answer) /\ HandlesExclusive /\ ConnectionsClosed
      /\ ProcOf \in [Thread -> Process] /\ None \in Answered
  BY TxeiAssumption, Values DEF Core, Placed, TypeOK
<1>1. /\ Goto(t, "connect", "clearReq") /\ MeiConnect(t)
      /\ out' = IF kind[t] = "ipt" THEN [out EXCEPT ![t].data = None] ELSE out
      /\ UNCHANGED <<kind, ret, req, rsp, fate, alone>>
  BY DEF Connect
<1>2. /\ pc[t] = "connect" /\ pc'[t] = "clearReq" /\ pc' \in [Thread -> Places]
      /\ \A u \in Thread \ {t} : pc'[u] = pc[u]
  BY <1>0, <1>1, GotoStep DEF Places
<1>3. /\ TxeiTypeOK(Msg, Answer)' /\ HandlesExclusive' /\ OthersUntouched(t)
      /\ fd'[t] # NoFd /\ LinkOf(t)' = NoTraffic
  BY <1>0, <1>1, MeiConnectStep
<1>4. /\ out'[t].len = out[t].len
      /\ out'[t].data = IF kind[t] = "ipt" THEN None ELSE out[t].data
      /\ \A u \in Thread \ {t} : out'[u] = out[u]
      /\ out' \in [Thread -> [len : Answered, data : Answered]]
  BY <1>0, <1>1 DEF TypeOK
<1>5. TypeOK'
  BY <1>0, <1>1, <1>2, <1>3, <1>4 DEF TypeOK
<1>6. \A u \in Thread \ {t} : Kept(u)
  BY <1>1, <1>2, <1>3, <1>4 DEF Kept, OthersUntouched
<1>7. /\ \A u \in Thread \ {t} : Placed(u)'
      /\ \A u \in Thread : Secluded(u)'
  <2>1. \A u \in Thread : GlobalsKept(u)
    BY <1>1 DEF GlobalsKept, Req, Resp
  <2> QED BY <1>1, <1>2, <1>6, <2>1, OthersStay
<1>8. ConnectionsClosed'
  <2>1. ASSUME NEW u \in Thread, pc'[u] = "idle" PROVE fd'[u] = NoFd
    BY <1>0, <1>2, <1>6, <2>1 DEF ConnectionsClosed, Kept, Untouched
  <2>2. PICK f \in FreeFd(ProcOf[t]) :
          /\ fd' = [fd EXCEPT ![t] = f]
          /\ files' = [files EXCEPT ![ProcOf[t]] = @ \cup {f}]
    BY <1>1 DEF MeiConnect
  <2>3. fd'[t] = f /\ fd[t] = NoFd
    BY <1>0, <1>2, <2>2 DEF TypeOK, TxeiTypeOK, Placed, Connected
  <2>4. ASSUME NEW p \in Process, NEW g \in files'[p]
        PROVE  \E u \in Thread : ProcOf[u] = p /\ fd'[u] = g
    <3>1. CASE g \in files[p]
      <4>1. PICK u \in Thread : ProcOf[u] = p /\ fd[u] = g
        BY <1>0, <3>1 DEF ConnectionsClosed
      <4>2. g # NoFd
        BY <1>0, <3>1, TxeiAssumption DEF TypeOK, TxeiTypeOK, Fd, NoFd
      <4> QED BY <4>1, <4>2, <2>3, <1>6 DEF Kept, Untouched
    <3>2. CASE g \notin files[p]
      BY <1>0, <2>2, <2>3, <2>4, <3>2 DEF TypeOK, TxeiTypeOK
    <3> QED BY <3>1, <3>2
  <2> QED BY <2>1, <2>4 DEF ConnectionsClosed
<1>9. Placed(t)'
  <2>1. alone[t] => Told(t)'
    <3>1. None # Caller
      BY IptAssumption
    <3>2. alone[t] => out[t].len = Caller /\ out[t].data \in {Caller, None}
      BY <1>0, <1>2 DEF Placed, Told, Tells
    <3>3. kind[t] = "msg" /\ alone[t] => out[t].data # Caller
      BY <1>0, <1>2 DEF Placed, Told, Tells
    <3>4. kind[t] \in Kind
      BY <1>0, <1>2 DEF Placed, Connected, TypeOK
    <3> QED BY <1>1, <1>2, <1>4, <3>1, <3>2, <3>3, <3>4 DEF Told, Tells, Kind
  <2>2. alone[t] => Globals(t)' /\ Traffic(t)'
    BY <1>0, <1>1, <1>2, <1>3 DEF Placed, Globals, Traffic, Unsent
  <2>3. Connected(t)'
    BY <1>0, <1>1, <1>2, <1>3 DEF Placed, Connected
  <2> QED BY <1>1, <2>1, <2>2, <2>3 DEF Placed
<1> QED BY <1>3, <1>5, <1>7, <1>8, <1>9 DEF Core, Placed

-----------------------------------------------------------------------------
(* The ends of a call.                                                     *)

LEMMA CloseInv ==
  ASSUME Core, NEW t \in Thread, Close(t)
  PROVE  Core'
<1>0. /\ TypeOK /\ Placed(t) /\ TxeiTypeOK(Msg, Answer) /\ HandlesExclusive /\ ConnectionsClosed
      /\ ProcOf \in [Thread -> Process]
  BY TxeiAssumption DEF Core, Placed, TypeOK
<1>1. /\ Goto(t, "close", "idle") /\ MeiDisconnect(t)
      /\ ret' = IF kind[t] = "ipt" THEN [ret EXCEPT ![t] = IPT_SUCCESS] ELSE ret
      /\ UNCHANGED <<kind, out, req, rsp, fate, alone>>
  BY DEF Close
<1>2. /\ pc[t] = "close" /\ pc'[t] = "idle" /\ pc' \in [Thread -> Places]
      /\ \A u \in Thread \ {t} : pc'[u] = pc[u]
  BY <1>0, <1>1, GotoStep DEF Places
<1>3. fd[t] # NoFd
  BY <1>0, <1>2 DEF Placed, Connected
<1>4. /\ TxeiTypeOK(Msg, Answer)' /\ HandlesExclusive' /\ OthersUntouched(t) /\ fd'[t] = NoFd
  BY <1>0, <1>1, <1>3, MeiDisconnectStep
<1>5. /\ kind[t] # "ipt" => ret'[t] = ret[t]
      /\ \A u \in Thread \ {t} : ret'[u] = ret[u]
      /\ ret' \in [Thread -> Result]
  BY <1>0, <1>1 DEF TypeOK, Result
<1>6. TypeOK'
  BY <1>0, <1>1, <1>2, <1>4, <1>5 DEF TypeOK, Result
<1>7. \A u \in Thread \ {t} : Kept(u)
  BY <1>1, <1>2, <1>4, <1>5 DEF Kept, OthersUntouched
<1>8. /\ \A u \in Thread \ {t} : Placed(u)'
      /\ \A u \in Thread : Secluded(u)'
  <2>1. \A u \in Thread : GlobalsKept(u)
    BY <1>1 DEF GlobalsKept, Req, Resp
  <2> QED BY <1>1, <1>2, <1>7, <2>1, OthersStay
<1>9. ConnectionsClosed'
  <2>1. ASSUME NEW u \in Thread, pc'[u] = "idle" PROVE fd'[u] = NoFd
    BY <1>0, <1>2, <1>4, <1>7, <2>1 DEF ConnectionsClosed, Kept, Untouched
  <2>2. files' = [files EXCEPT ![ProcOf[t]] = @ \ {fd[t]}]
    BY <1>1 DEF MeiDisconnect
  <2>3. ASSUME NEW p \in Process, NEW g \in files'[p]
        PROVE  \E u \in Thread : ProcOf[u] = p /\ fd'[u] = g
    <3>1. g \in files[p] /\ ~(p = ProcOf[t] /\ g = fd[t])
      BY <1>0, <2>2, <2>3 DEF TypeOK, TxeiTypeOK
    <3>2. PICK u \in Thread : ProcOf[u] = p /\ fd[u] = g
      BY <1>0, <3>1 DEF ConnectionsClosed
    <3> QED BY <3>1, <3>2, <1>7 DEF Kept, Untouched
  <2> QED BY <2>1, <2>3 DEF ConnectionsClosed
<1>10. Placed(t)'
  <2>1. Own(t)' = Own(t)
    BY <1>1 DEF Own
  <2>2. alone[t] => Told(t)'
    BY <1>0, <1>1, <1>2, <1>5, <2>1 DEF Placed, Told, Tells
  <2>3. Globals(t)' /\ Traffic(t)'
    BY <1>2 DEF Globals, Traffic
  <2>4. Connected(t)'
    BY <1>2, <1>4 DEF Connected
  <2> QED BY <1>1, <2>2, <2>3, <2>4 DEF Placed
<1> QED BY <1>4, <1>6, <1>8, <1>9, <1>10 DEF Core, Placed

LEMMA ConnectFailsInv ==
  ASSUME Core, NEW t \in Thread, ConnectFails(t)
  PROVE  Core'
<1>0. TypeOK /\ Placed(t)
  BY DEF Core, Placed
<1>1. /\ Goto(t, "connect", "idle") /\ ret' = [ret EXCEPT ![t] = TEE_FAILURE]
      /\ UNCHANGED <<txeiVars, kind, out, req, rsp, fate, alone>>
  BY DEF ConnectFails, MeiConnectFails
<1>2. /\ pc[t] = "connect" /\ pc'[t] = "idle" /\ pc' \in [Thread -> Places]
      /\ \A u \in Thread \ {t} : pc'[u] = pc[u]
  BY <1>0, <1>1, GotoStep DEF Places
<1>3. /\ ret'[t] = TEE_FAILURE
      /\ \A u \in Thread \ {t} : ret'[u] = ret[u]
      /\ ret' \in [Thread -> Result]
  BY <1>0, <1>1 DEF TypeOK, Result
<1>4. TypeOK'
  BY <1>0, <1>1, <1>2, <1>3 DEF TypeOK, TxeiTypeOK, txeiVars, Result
<1>5. \A u \in Thread \ {t} : Kept(u)
  BY <1>1, <1>2, <1>3 DEF Kept, Untouched, LinkOf, txeiVars
<1>6. /\ \A u \in Thread \ {t} : Placed(u)'
      /\ \A u \in Thread : Secluded(u)'
  <2>1. \A u \in Thread : GlobalsKept(u)
    BY <1>1 DEF GlobalsKept, Req, Resp
  <2> QED BY <1>1, <1>2, <1>5, <2>1, OthersStay
<1>7. HandlesExclusive' /\ ConnectionsClosed'
  <2>1. \A u \in Thread : pc'[u] = "idle" => fd[u] = NoFd
    BY <1>0, <1>2 DEF Core, ConnectionsClosed, Placed, Connected
  <2> QED BY <1>1, <2>1, FilesStay DEF Core, HandlesExclusive, txeiVars
<1>8. Placed(t)'
  <2>1. Own(t) \notin {Caller, None} \/ kind[t] = None
    BY IptAssumption, Values, <1>0 DEF TypeOK
  <2>2. TEE_FAILURE # IPT_SUCCESS
    BY DEF TEE_FAILURE, IPT_SUCCESS
  <2>3. Own(t)' = Own(t)
    BY <1>1 DEF Own
  <2>4. alone[t] => Told(t)'
    BY <1>0, <1>1, <1>2, <1>3, <2>1, <2>2, <2>3 DEF Placed, Told, Tells
  <2>5. Globals(t)' /\ Traffic(t)'
    BY <1>2 DEF Globals, Traffic
  <2>6. Connected(t)'
    BY <1>0, <1>1, <1>2 DEF Placed, Connected, txeiVars
  <2> QED BY <1>1, <2>4, <2>5, <2>6 DEF Placed
<1> QED BY <1>4, <1>6, <1>7, <1>8 DEF Core, Placed

-----------------------------------------------------------------------------
(* Its beginning.                                                          *)

LEMMA BeginInv ==
  ASSUME Core, NEW t \in Thread, NEW k \in Kind, Begin(t, k)
  PROVE  Core'
<1>0. TypeOK /\ Placed(t) /\ ConnectionsClosed
  BY DEF Core, Placed
<1>1. /\ Goto(t, "idle", "connect")
      /\ kind' = [kind EXCEPT ![t] = k]
      /\ out' = [out EXCEPT ![t] = [len |-> Caller, data |-> IF k = "msg" THEN None ELSE Caller]]
      /\ fate' = [fate EXCEPT ![t] = "none"]
      /\ alone' = [u \in Thread |->
                     IF u = t THEN \A v \in Peers(t) : pc[v] = "idle"
                              ELSE alone[u] /\ (u \in Peers(t) => pc[u] = "idle")]
      /\ UNCHANGED <<txeiVars, ret, req, rsp>>
  BY DEF Begin
<1>2. /\ pc[t] = "idle" /\ pc'[t] = "connect" /\ pc' \in [Thread -> Places]
      /\ \A u \in Thread \ {t} : pc'[u] = pc[u]
  BY <1>0, <1>1, GotoStep DEF Places
<1>3. /\ kind'[t] = k /\ fate'[t] = "none" /\ out'[t].len = Caller
      /\ out'[t].data = IF k = "msg" THEN None ELSE Caller
      /\ \A u \in Thread \ {t} : kind'[u] = kind[u] /\ out'[u] = out[u] /\ fate'[u] = fate[u]
      /\ out' \in [Thread -> [len : Answered, data : Answered]]
  BY <1>0, <1>1, Values DEF TypeOK
<1>4. /\ alone'[t] => \A v \in Peers(t) : pc[v] = "idle"
      /\ \A u \in Thread \ {t} : alone'[u] => alone[u] /\ (u \in Peers(t) => pc[u] = "idle")
      /\ alone' \in [Thread -> BOOLEAN]
  <2>1. \A u \in Thread : alone[u] \in BOOLEAN
    BY <1>0 DEF TypeOK
  <2> QED BY <1>1, <2>1
<1>5. TypeOK'
  BY <1>0, <1>1, <1>2, <1>3, <1>4 DEF TypeOK, TxeiTypeOK, txeiVars
<1>6. ASSUME NEW u \in Thread \ {t} PROVE Kept(u) /\ GlobalsKept(u)
  BY <1>1, <1>2, <1>3 DEF Kept, Untouched, LinkOf, txeiVars, GlobalsKept, Req, Resp
<1>7. ASSUME NEW u \in Thread \ {t} PROVE Placed(u)'
  BY <1>4, <1>6, Frame DEF Core, Placed
<1>8. ASSUME NEW u \in Thread, alone'[u], pc'[u] # "idle", NEW v \in Peers(u)
      PROVE  pc'[v] = "idle"
  <2>1. v \in Thread /\ v # u /\ ProcOf[v] = ProcOf[u]
    BY DEF Peers
  <2>2. CASE u = t
    BY <1>2, <1>4, <1>8, <2>1, <2>2
  <2>3. CASE u # t
    <3>1. u \notin Peers(t) /\ pc[u] # "idle" /\ alone[u]
      BY <1>2, <1>4, <1>8, <2>3
    <3>2. v # t
      BY <3>1, <2>1, <2>3 DEF Peers
    <3> QED BY <3>1, <3>2, <2>1, <1>2 DEF Core, Secluded
  <2> QED BY <2>2, <2>3
<1>9. \A u \in Thread : Secluded(u)'
  BY <1>8 DEF Secluded, Peers
<1>10. HandlesExclusive' /\ ConnectionsClosed'
  <2>1. \A u \in Thread : pc'[u] = "idle" => fd[u] = NoFd
    BY <1>0, <1>2 DEF ConnectionsClosed
  <2> QED BY <1>1, <2>1, FilesStay DEF Core, HandlesExclusive, txeiVars
<1>11. Placed(t)'
  <2>1. None # Caller /\ k # None
    BY IptAssumption
  <2>2. fd'[t] = NoFd
    BY <1>0, <1>1, <1>2 DEF ConnectionsClosed, txeiVars
  <2> QED BY <1>2, <1>3, <2>1, <2>2 DEF Placed, Connected, Globals, Traffic, Told, Tells
<1> QED BY <1>5, <1>7, <1>9, <1>10, <1>11 DEF Core, Placed

LEMMA RejectInv ==
  ASSUME Core, NEW t \in Thread, NEW k \in Kind, Reject(t, k)
  PROVE  Core'
<1>0. TypeOK /\ Placed(t) /\ ConnectionsClosed
  BY DEF Core, Placed
<1>1. PICK b \in {Caller, None}, e \in ArgError[k] :
        /\ out' = [out EXCEPT ![t] = [len |-> Caller, data |-> b]]
        /\ ret' = [ret EXCEPT ![t] = e]
  BY DEF Reject
<1>2. /\ pc[t] = "idle" /\ kind' = [kind EXCEPT ![t] = k]
      /\ fate' = [fate EXCEPT ![t] = "none"]
      /\ alone' = [alone EXCEPT ![t] = TRUE]
      /\ UNCHANGED <<txeiVars, pc, req, rsp>>
  BY DEF Reject
<1>9. e \in {INVALID_PARAM, NULL_PARAM}
  BY DEF ArgError, Kind
<1>3. /\ kind'[t] = k /\ fate'[t] = "none" /\ ret'[t] = e
      /\ out'[t].len = Caller /\ out'[t].data = b
      /\ \A u \in Thread \ {t} : /\ kind'[u] = kind[u] /\ out'[u] = out[u] /\ fate'[u] = fate[u]
                                 /\ ret'[u] = ret[u] /\ alone'[u] = alone[u]
      /\ out' \in [Thread -> [len : Answered, data : Answered]]
      /\ ret' \in [Thread -> Result] /\ alone' \in [Thread -> BOOLEAN]
  BY <1>0, <1>1, <1>2, <1>9, Values DEF TypeOK, Result
<1>4. TypeOK'
  BY <1>0, <1>1, <1>2, <1>3 DEF TypeOK, TxeiTypeOK, txeiVars, Result
<1>5. ASSUME NEW u \in Thread \ {t} PROVE Placed(u)'
  <2>1. Kept(u) /\ GlobalsKept(u)
    BY <1>2, <1>3 DEF Kept, Untouched, LinkOf, txeiVars, GlobalsKept, Req, Resp
  <2> QED BY <1>3, <2>1, Frame DEF Core, Placed
<1>6. \A u \in Thread : Secluded(u)'
  BY <1>2, <1>3 DEF Core, Secluded, Peers
<1>7. HandlesExclusive' /\ ConnectionsClosed'
  BY <1>0, <1>2, FilesStay DEF Core, HandlesExclusive, ConnectionsClosed, txeiVars
<1>8. Placed(t)'
  <2>1. Own(t)' \in Msg
    BY <1>3 DEF Own, Msg
  <2>2. Own(t)' \notin {Caller, None}
    BY <2>1, IptAssumption
  <2>3. e # IPT_SUCCESS /\ e \in ArgError[kind'[t]]
    BY <1>3, <1>9 DEF INVALID_PARAM, NULL_PARAM, IPT_SUCCESS
  <2>4. fd'[t] = NoFd
    BY <1>0, <1>2 DEF ConnectionsClosed, txeiVars
  <2> QED BY <1>2, <1>3, <2>2, <2>3, <2>4 DEF Placed, Connected, Globals, Traffic, Told, Tells
<1> QED BY <1>4, <1>5, <1>6, <1>7, <1>8 DEF Core, Placed

-----------------------------------------------------------------------------
(* The firmware.                                                           *)

(* A reply to the message of a call nobody overlaps with says what became  *)
(* of that call, or finds the call about to return with an error.          *)
LEMMA RepliedStays ==
  ASSUME Core, NEW u \in Thread, fd[u] # NoFd, NEW m \in LinkOf(u).req,
         NEW r \in Answer, NEW what \in {"done", "refused", "mute"},
         \/ what = "done" /\ r \in Answers(m)
         \/ what = "refused" /\ r \in Refusals
         \/ what = "mute" /\ r = NoBytes,
         UNCHANGED <<fd, pc, kind, ret, out, req, rsp, alone>>,
         LinkOf(u)' = [req |-> {}, rsp |-> {r}], fate'[u] = what
  PROVE  Placed(u)'
<1>0. Placed(u) /\ (pc[u] \notin {"idle", "connect"})
  BY DEF Core, Placed, Connected
<1>1. Connected(u)'
  BY <1>0 DEF Placed, Connected
<1>2. SUFFICES ASSUME alone[u] PROVE Globals(u)' /\ Traffic(u)' /\ Told(u)'
  BY <1>1 DEF Placed
<1>3. Own(u)' = Own(u) /\ Blank(u)' = Blank(u) /\ Req(u)' = Req(u) /\ Resp(u)' = Resp(u)
  BY DEF Own, Blank, Req, Resp
<1>4. CASE pc[u] = "close"
  <2>1. ret[u] = TEE_FAILURE /\ out[u].data # Own(u)
    BY <1>0, <1>2, <1>4 DEF Placed, Traffic
  <2>2. TEE_FAILURE # IPT_SUCCESS
    BY DEF TEE_FAILURE, IPT_SUCCESS
  <2>3. Told(u)'
    BY <1>0, <1>2, <1>3, <1>4, <2>1, <2>2 DEF Placed, Told, Tells
  <2>4. Globals(u)' /\ Traffic(u)'
    BY <1>3, <1>4, <2>1 DEF Globals, Traffic
  <2> QED BY <2>3, <2>4
<1>5. CASE pc[u] # "close"
  <2>1. pc[u] \in {"select", "recv"} /\ InFlight(u) /\ m = Own(u)
    <3>1. pc[u] \in Places
      BY DEF Core, TypeOK
    <3>2. LinkOf(u).req # {}
      OBVIOUS
    <3>3. LinkOf(u) # NoTraffic /\ ~Unsent(u)
      BY <3>2 DEF NoTraffic, Unsent
    <3>4. pc[u] \in {"select", "recv"} /\ InFlight(u)
      BY <1>0, <1>2, <1>5, <3>1, <3>3 DEF Placed, Traffic, Places
    <3>5. LinkOf(u).req \subseteq {Own(u)}
      BY <3>4 DEF InFlight
    <3> QED BY <3>4, <3>5
  <2>2. (r = NoBytes /\ what = "mute") \/ Truthful(u, r)'
    <3>1. CASE what = "done" /\ r \in Answers(m)
      <4>1. r \in {ZeroRsp, [status |-> 0, len |-> Own(u), data |-> Own(u)]}
        BY <3>1, <2>1 DEF Answers, ZeroRsp
      <4> QED BY <3>1, <4>1, <1>3 DEF Truthful
    <3>2. CASE what = "refused" /\ r \in Refusals
      BY <3>2 DEF Truthful
    <3> QED BY <3>1, <3>2
  <2>3. InFlight(u)'
    BY <2>2 DEF InFlight
  <2>4. Told(u)'
    BY <1>0, <1>2, <1>3, <2>1 DEF Placed, Told, Tells
  <2>5. Globals(u)'
    BY <1>0, <1>2, <1>3, <2>1 DEF Placed, Globals
  <2>6. Traffic(u)'
    BY <2>1, <2>3 DEF Traffic
  <2> QED BY <2>4, <2>5, <2>6
<1> QED BY <1>4, <1>5

LEMMA FwStepInv ==
  ASSUME Core, NEW p \in Process, NEW f \in Fd, FwStep(p, f)
  PROVE  Core'
<1>0. TypeOK /\ TxeiTypeOK(Msg, Answer) /\ HandlesExclusive /\ ConnectionsClosed
  BY DEF Core, TypeOK
<1>1. PICK m \in link[p][f].req :
        \/ \E r \in Answers(m) : FwReplies(p, f, r, "done")
        \/ \E r \in Refusals : FwReplies(p, f, r, "refused")
        \/ "empty" \in Faults /\ FwReplies(p, f, NoBytes, "mute")
  BY DEF FwStep
<1>2. m \in Msg
  BY <1>0 DEF TxeiTypeOK
<1>3. PICK r \in Answer, what \in {"done", "refused", "mute"} :
        /\ \/ what = "done" /\ r \in Answers(m)
           \/ what = "refused" /\ r \in Refusals
           \/ what = "mute" /\ r = NoBytes
        /\ FwReplies(p, f, r, what)
  BY <1>1, <1>2, Values
<1>4. /\ MeiAnswer(p, f, r)
      /\ fate' = [t \in Thread |-> IF ProcOf[t] = p /\ fd[t] = f THEN what ELSE fate[t]]
      /\ UNCHANGED <<pc, kind, ret, out, req, rsp, alone>>
  BY <1>3 DEF FwReplies
<1>5. /\ TxeiTypeOK(Msg, Answer)' /\ HandlesExclusive' /\ fd' = fd
      /\ \A u \in Thread : ~(ProcOf[u] = p /\ fd[u] = f) => Untouched(u)
      /\ \A u \in Thread : ProcOf[u] = p /\ fd[u] = f =>
           LinkOf(u)' = [req |-> {}, rsp |-> {r}]
  BY <1>0, <1>4, MeiAnswerStep
<1>6. TypeOK'
  <2>1. fate' \in [Thread -> {"none", "done", "refused", "mute"}]
    BY <1>0, <1>4 DEF TypeOK
  <2> QED BY <1>0, <1>4, <1>5, <2>1 DEF TypeOK
<1>7. ConnectionsClosed'
  <2>1. files' = files
    BY <1>4 DEF MeiAnswer
  <2> QED BY <1>0, <1>4, <1>5, <2>1 DEF ConnectionsClosed
<1>8. ASSUME NEW u \in Thread PROVE Placed(u)'
  <2>1. CASE ProcOf[u] = p /\ fd[u] = f
    <3>1. fd[u] # NoFd
      BY <2>1, TxeiAssumption DEF Fd, NoFd
    <3>2. m \in LinkOf(u).req
      BY <2>1 DEF LinkOf
    <3>3. fate'[u] = what /\ LinkOf(u)' = [req |-> {}, rsp |-> {r}]
      BY <1>4, <1>5, <2>1
    <3> QED BY <1>3, <1>4, <1>5, <3>1, <3>2, <3>3, RepliedStays
  <2>2. CASE ~(ProcOf[u] = p /\ fd[u] = f)
    <3>1. Kept(u) /\ GlobalsKept(u)
      BY <1>4, <1>5, <2>2 DEF Kept, GlobalsKept, Req, Resp
    <3> QED BY <1>4, <3>1, Frame DEF Core, Placed
  <2> QED BY <2>1, <2>2
<1>9. \A u \in Thread : Secluded(u)'
  BY <1>4 DEF Core, Secluded
<1> QED BY <1>5, <1>6, <1>7, <1>8, <1>9 DEF Core, Placed

-----------------------------------------------------------------------------
LEMMA StepCore == Core /\ [Next]_vars => Core'
<1> SUFFICES ASSUME Core, [Next]_vars PROVE Core'
  OBVIOUS
<1>1. CASE UNCHANGED vars
  <2>1. UNCHANGED <<fd, files, link, pc, kind, ret, out, req, rsp, fate, alone>>
    BY <1>1 DEF vars, txeiVars
  <2>2. ASSUME NEW t \in Thread PROVE Placed(t)' /\ Secluded(t)'
    <3>1. Kept(t) /\ GlobalsKept(t)
      BY <2>1 DEF Kept, Untouched, LinkOf, GlobalsKept, Req, Resp
    <3>2. Secluded(t)'
      BY <2>1 DEF Core, Secluded
    <3> QED BY <2>1, <3>1, <3>2, Frame DEF Core, Placed
  <2>3. TypeOK' /\ HandlesExclusive' /\ ConnectionsClosed'
    BY <2>1 DEF Core, TypeOK, TxeiTypeOK, HandlesExclusive, ConnectionsClosed
  <2> QED BY <2>2, <2>3 DEF Core, Placed
<1>2. ASSUME NEW t \in Thread, NEW k \in Uses[t], Begin(t, k) \/ Reject(t, k)
      PROVE  Core'
  BY <1>2, IptAssumption, BeginInv, RejectInv
<1>3. ASSUME NEW t \in Thread, Connect(t) \/ ConnectFails(t) \/ Close(t) PROVE Core'
  BY <1>3, ConnectInv, ConnectFailsInv, CloseInv
<1>4. ASSUME NEW t \in Thread, Prepare(t) PROVE Core'
  BY <1>4, PrepareInv
<1>5. ASSUME NEW t \in Thread, ProcessCmd(t) PROVE Core'
  BY <1>5, SendCmdInv, RecvCmdInv, LocalInv DEF ProcessCmd
<1>6. ASSUME NEW t \in Thread, Check(t) \/ CopyLen(t) \/ CopyData(t) PROVE Core'
  BY <1>6, LocalInv
<1>7. ASSUME NEW p \in Process, NEW f \in Fd, FwStep(p, f) PROVE Core'
  BY <1>7, FwStepInv
<1> QED BY <1>1, <1>2, <1>3, <1>4, <1>5, <1>6, <1>7 DEF Next

-----------------------------------------------------------------------------
(* What is known of a call whoever overlaps with it.                       *)

(* A step that leaves a thread's locals and connection alone.              *)
LEMMA FatedFrame ==
  ASSUME NEW u \in Thread, Connected(u), Fated(u), Untouched(u),
         pc'[u] = pc[u], kind'[u] = kind[u], ret'[u] = ret[u], fate'[u] = fate[u]
  PROVE  Fated(u)'
<1>1. pc[u] \notin {"idle", "connect"} => LinkOf(u)' = LinkOf(u)
  BY DEF Untouched, Connected
<1>2. Unheard(u)' = Unheard(u)
  BY DEF Unheard
<1> QED BY <1>1, <1>2 DEF Fated, Undecided

Early == {"clearReq", "clearRsp", "cmd", "status", "len", "data", "room", "send"}

(* A step of thread t alone.                                               *)
Alone(t) ==
  /\ OthersUntouched(t)
  /\ \A u \in Thread \ {t} : /\ pc'[u] = pc[u] /\ kind'[u] = kind[u]
                             /\ ret'[u] = ret[u] /\ fate'[u] = fate[u]

LEMMA FatedStep ==
  ASSUME IInv, NEW t \in Thread, Alone(t), Fated(t)' PROVE \A u \in Thread : Fated(u)'
<1>1. ASSUME NEW u \in Thread \ {t} PROVE Fated(u)'
  BY FatedFrame DEF IInv, Core, Alone, OthersUntouched
<1> QED BY <1>1

LEMMA FatedParts ==
  ASSUME IInv, NEW t \in Thread
  PROVE  /\ TypeOK /\ TxeiTypeOK(Msg, Answer) /\ HandlesExclusive
         /\ Connected(t) /\ Fated(t)
         /\ ProcOf[t] \in Process /\ Req(t) \in Msg /\ Resp(t) \in Rsp
BY TxeiAssumption DEF IInv, Core, TypeOK, Req, Resp

(* The globals are filled in.                                              *)
LEMMA PrepareFated ==
  ASSUME IInv, NEW t \in Thread, Prepare(t) PROVE \A u \in Thread : Fated(u)'
<1>1. TypeOK /\ Connected(t) /\ Fated(t)
  BY FatedParts
<1>2. UNCHANGED <<txeiVars, kind, ret, fate>>
  BY DEF Prepare, ClearReq, ClearRsp, FillCmd, FillStatus, FillLen, FillData, FillRoom,
     SetReq, SetRsp
<1>3. /\ pc[t] \in Early \ {"send"} /\ pc'[t] \in Early
      /\ \A u \in Thread \ {t} : pc'[u] = pc[u]
  BY <1>1 DEF TypeOK, Early, Goto, Prepare, ClearReq, ClearRsp, FillCmd, FillStatus, FillLen,
     FillData, FillRoom
<1>4. Alone(t) /\ LinkOf(t)' = LinkOf(t)
  BY <1>2, <1>3 DEF Alone, txeiVars, OthersUntouched, Untouched, LinkOf
<1>5. fate[t] = "none" /\ LinkOf(t) = NoTraffic
  BY <1>1, <1>3 DEF Fated, Undecided, Early
<1>6. Fated(t)'
  BY <1>2, <1>3, <1>4, <1>5 DEF Fated, Early
<1> QED BY <1>4, <1>6, FatedStep

(* A place is left for another, and the connection is as it was.           *)
LEMMA LocalFated ==
  ASSUME IInv, NEW t \in Thread,
         SendCmdFails(t) \/ SelectEnds(t) \/ RecvCmdFails(t)
           \/ Check(t) \/ CopyLen(t) \/ CopyData(t)
  PROVE  \A u \in Thread : Fated(u)'
<1>1. TypeOK /\ Connected(t) /\ Fated(t) /\ Resp(t) \in Rsp
  BY FatedParts
<1>2. UNCHANGED <<txeiVars, kind, fate>>
  BY DEF SendCmdFails, SelectEnds, RecvCmdFails, Check, CopyLen, CopyData, MeiWriteFails,
     MeiReadFails
<1>3. /\ pc[t] \notin {"idle", "connect"}
      /\ pc'[t] \notin Early \cup {"idle", "connect"}
      /\ \A u \in Thread \ {t} : pc'[u] = pc[u] /\ ret'[u] = ret[u]
  BY <1>1 DEF TypeOK, Early, Goto, SendCmdFails, SelectEnds, RecvCmdFails, Check, CopyLen,
     CopyData
<1>4. Alone(t) /\ LinkOf(t)' = LinkOf(t)
  BY <1>2, <1>3 DEF Alone, txeiVars, OthersUntouched, Untouched, LinkOf
<1>5. Undecided(t)' => Undecided(t)
  BY <1>3, <1>4 DEF Undecided, Early
<1>7. Fated(t)'
  BY <1>1, <1>2, <1>3, <1>5 DEF Fated, Early
<1> QED BY <1>4, <1>7, FatedStep

(* The message goes out, once, or an answer is read.                       *)
LEMMA SendCmdFated ==
  ASSUME IInv, NEW t \in Thread, SendCmd(t) PROVE \A u \in Thread : Fated(u)'
<1>1. TypeOK /\ TxeiTypeOK(Msg, Answer) /\ HandlesExclusive /\ Fated(t) /\ Req(t) \in Msg
  BY FatedParts
<1>2. /\ MeiWrite(t, Req(t)) /\ Goto(t, "send", "select")
      /\ UNCHANGED <<kind, ret, fate>>
  BY DEF SendCmd
<1>3. OthersUntouched(t)
  BY <1>1, <1>2, MeiWriteStep
<1>4. /\ pc[t] = "send" /\ pc'[t] = "select"
      /\ \A u \in Thread \ {t} : pc'[u] = pc[u]
  BY <1>1, <1>2 DEF TypeOK, Goto
<1>5. fate'[t] = "none"
  BY <1>1, <1>2, <1>4 DEF Fated, Undecided
<1>6. Fated(t)'
  BY <1>4, <1>5 DEF Fated
<1> QED BY <1>2, <1>3, <1>4, <1>6, FatedStep DEF Alone

LEMMA RecvCmdFated ==
  ASSUME IInv, NEW t \in Thread, RecvCmd(t) PROVE \A u \in Thread : Fated(u)'
<1>1. TypeOK /\ TxeiTypeOK(Msg, Answer) /\ HandlesExclusive /\ Fated(t)
  BY FatedParts
<1>2. PICK r \in LinkOf(t).rsp : MeiRead(t, r)
  BY DEF RecvCmd
<1>3. Goto(t, "recv", "check") /\ UNCHANGED <<kind, ret, fate>>
  BY DEF RecvCmd
<1>4. OthersUntouched(t) /\ LinkOf(t)' = [req |-> LinkOf(t).req, rsp |-> {}]
  BY <1>1, <1>2, MeiReadStep
<1>5. /\ pc[t] = "recv" /\ pc'[t] = "check"
      /\ \A u \in Thread \ {t} : pc'[u] = pc[u]
  BY <1>1, <1>3 DEF TypeOK, Goto
<1>6. Undecided(t)' => Undecided(t)
  <2>1. LinkOf(t)'.req = LinkOf(t).req
    BY <1>4
  <2> QED BY <2>1, <1>5 DEF Undecided
<1>7. Fated(t)'
  BY <1>1, <1>3, <1>5, <1>6 DEF Fated
<1> QED BY <1>3, <1>4, <1>5, <1>7, FatedStep DEF Alone

(* A call begins, finds no connection, or returns.                         *)
LEMMA ConnectFated ==
  ASSUME IInv, NEW t \in Thread, Connect(t) PROVE \A u \in Thread : Fated(u)'
<1>1. TypeOK /\ TxeiTypeOK(Msg, Answer) /\ HandlesExclusive /\ Fated(t)
  BY FatedParts
<1>2. MeiConnect(t) /\ Goto(t, "connect", "clearReq") /\ UNCHANGED <<kind, ret, fate>>
  BY DEF Connect
<1>3. OthersUntouched(t) /\ LinkOf(t)' = NoTraffic
  BY <1>1, <1>2, MeiConnectStep
<1>4. /\ pc[t] = "connect" /\ pc'[t] = "clearReq"
      /\ \A u \in Thread \ {t} : pc'[u] = pc[u]
  BY <1>1, <1>2 DEF TypeOK, Goto
<1>5. fate'[t] = "none"
  BY <1>1, <1>2, <1>4 DEF Fated, Undecided
<1>6. Fated(t)'
  BY <1>3, <1>4, <1>5 DEF Fated
<1> QED BY <1>2, <1>3, <1>4, <1>6, FatedStep DEF Alone

LEMMA CloseFated ==
  ASSUME IInv, NEW t \in Thread, Close(t) PROVE \A u \in Thread : Fated(u)'
<1>1. /\ TypeOK /\ TxeiTypeOK(Msg, Answer) /\ HandlesExclusive /\ Connected(t) /\ Fated(t)
  BY FatedParts
<1>2. /\ MeiDisconnect(t) /\ Goto(t, "close", "idle") /\ UNCHANGED <<kind, fate>>
      /\ ret' = IF kind[t] = "ipt" THEN [ret EXCEPT ![t] = IPT_SUCCESS] ELSE ret
  BY DEF Close
<1>3. /\ pc[t] = "close" /\ pc'[t] = "idle"
      /\ \A u \in Thread \ {t} : pc'[u] = pc[u] /\ ret'[u] = ret[u]
  BY <1>1, <1>2 DEF TypeOK, Goto
<1>4. fd[t] # NoFd
  BY <1>1, <1>3 DEF Connected
<1>5. OthersUntouched(t)
  BY <1>1, <1>2, <1>4, MeiDisconnectStep
<1>6. ~Unheard(t)'
  <2>1. kind[t] = "ipt" => ret'[t] = IPT_SUCCESS
    BY <1>1, <1>2 DEF TypeOK
  <2> QED BY <2>1, <1>2 DEF Unheard
<1>7. Fated(t)'
  BY <1>3, <1>6 DEF Fated, Undecided
<1> QED BY <1>2, <1>3, <1>5, <1>7, FatedStep DEF Alone

LEMMA EdgeFated ==
  ASSUME IInv, NEW t \in Thread, NEW k, Begin(t, k) \/ Reject(t, k) \/ ConnectFails(t)
  PROVE  \A u \in Thread : Fated(u)'
<1>1. TypeOK /\ Fated(t)
  BY FatedParts
<1>2. UNCHANGED txeiVars
  BY DEF Begin, Reject, ConnectFails, MeiConnectFails
<1>3. \A u \in Thread \ {t} : /\ pc'[u] = pc[u] /\ kind'[u] = kind[u]
                             /\ ret'[u] = ret[u] /\ fate'[u] = fate[u]
  BY <1>1 DEF TypeOK, Goto, Begin, Reject, ConnectFails
<1>4. pc'[t] \in {"idle", "connect"} /\ fate'[t] = "none"
  BY <1>1 DEF TypeOK, Goto, Begin, Reject, ConnectFails, Fated, Undecided
<1>5. Fated(t)'
  BY <1>4 DEF Fated
<1>6. OthersUntouched(t)
  BY <1>2 DEF txeiVars, OthersUntouched, Untouched, LinkOf
<1> QED BY <1>3, <1>5, <1>6, FatedStep DEF Alone

(* The applet decides about a message that waits.                          *)
LEMMA FwStepFated ==
  ASSUME IInv, NEW p \in Process, NEW f \in Fd, FwStep(p, f)
  PROVE  \A u \in Thread : Fated(u)'
<1>1. TypeOK /\ TxeiTypeOK(Msg, Answer) /\ HandlesExclusive
  BY DEF IInv, Core, TypeOK
<1>2. PICK m \in link[p][f].req :
        \/ \E r \in Answers(m) : FwReplies(p, f, r, "done")
        \/ \E r \in Refusals : FwReplies(p, f, r, "refused")
        \/ "empty" \in Faults /\ FwReplies(p, f, NoBytes, "mute")
  BY DEF FwStep
<1>3. m \in Msg
  BY <1>1 DEF TxeiTypeOK
<1>4. PICK r \in Answer, what \in Fates : FwReplies(p, f, r, what)
  BY <1>2, <1>3, Values DEF Fates
<1>5. /\ MeiAnswer(p, f, r) /\ UNCHANGED <<pc, kind, ret>>
      /\ fate' = [t \in Thread |-> IF ProcOf[t] = p /\ fd[t] = f THEN what ELSE fate[t]]
  BY <1>4 DEF FwReplies
<1>6. /\ \A u \in Thread : ~(ProcOf[u] = p /\ fd[u] = f) => Untouched(u)
      /\ \A u \in Thread : ProcOf[u] = p /\ fd[u] = f =>
           LinkOf(u)' = [req |-> {}, rsp |-> {r}]
  BY <1>1, <1>5, MeiAnswerStep
<1>7. ASSUME NEW u \in Thread PROVE Fated(u)'
  <2>1. Connected(u) /\ Fated(u)
    BY FatedParts
  <2>2. CASE ProcOf[u] = p /\ fd[u] = f
    <3>1. fd[u] # NoFd /\ m \in LinkOf(u).req
      BY <2>2, TxeiAssumption DEF LinkOf, Fd, NoFd
    <3>2. pc[u] \notin Early \cup {"idle", "connect"}
      BY <3>1, <2>1 DEF Connected, Fated, NoTraffic, Early
    <3>3. LinkOf(u)'.req = {}
      BY <2>2, <1>6
    <3>4. ~Undecided(u)'
      BY <3>2, <3>3, <1>5 DEF Undecided, Early
    <3> QED BY <3>2, <3>4, <2>1, <1>5 DEF Fated, Early
  <2>3. CASE ~(ProcOf[u] = p /\ fd[u] = f)
    BY <2>1, <2>3, <1>5, <1>6, FatedFrame
  <2> QED BY <2>2, <2>3
<1> QED BY <1>7

-----------------------------------------------------------------------------
LEMMA InitInv == Init => IInv
<1> SUFFICES ASSUME Init PROVE IInv
  OBVIOUS
<1>1. ASSUME NEW t \in Thread PROVE Fated(t)
  BY DEF Init, Fated, Undecided
<1> QED BY <1>1, InitCore DEF IInv

LEMMA StepInv == IInv /\ [Next]_vars => IInv'
<1> SUFFICES ASSUME IInv, [Next]_vars PROVE \A u \in Thread : Fated(u)'
  BY StepCore DEF IInv
<1>1. CASE UNCHANGED vars
  <2>1. UNCHANGED <<fd, link, pc, kind, ret, fate>>
    BY <1>1 DEF vars, txeiVars
  <2> QED BY <2>1, FatedFrame DEF IInv, Core, Untouched, LinkOf
<1>2. ASSUME NEW t \in Thread, NEW k \in Uses[t], Begin(t, k) \/ Reject(t, k)
      PROVE  \A u \in Thread : Fated(u)'
  BY <1>2, EdgeFated
<1>3. ASSUME NEW t \in Thread, Connect(t) \/ ConnectFails(t) \/ Close(t)
      PROVE  \A u \in Thread : Fated(u)'
  BY <1>3, ConnectFated, EdgeFated, CloseFated
<1>4. ASSUME NEW t \in Thread, Prepare(t) \/ ProcessCmd(t)
      PROVE  \A u \in Thread : Fated(u)'
  BY <1>4, PrepareFated, SendCmdFated, RecvCmdFated, LocalFated DEF ProcessCmd
<1>5. ASSUME NEW t \in Thread, Check(t) \/ CopyLen(t) \/ CopyData(t)
      PROVE  \A u \in Thread : Fated(u)'
  BY <1>5, LocalFated
<1>6. ASSUME NEW p \in Process, NEW f \in Fd, FwStep(p, f)
      PROVE  \A u \in Thread : Fated(u)'
  BY <1>6, FwStepFated
<1> QED BY <1>1, <1>2, <1>3, <1>4, <1>5, <1>6 DEF Next

(* The inductive invariant of libipt (ipt.c:84-189, mvfw_api.c:52-147).    *)
THEOREM Invariance == Spec => []IInv
<1> QED BY InitInv, StepInv, PTL DEF Spec

(* Every variable keeps its type.                                          *)
THEOREM TypeCorrect == Spec => []TypeOK
<1>1. IInv => TypeOK
  BY DEF IInv, Core
<1> QED BY <1>1, Invariance, PTL

(* No connection outlives its call: every exit after ipt_tee_intf_init     *)
(* passes through ipt_tee_intf_deinit (ipt.c:178-186, mvfw_api.c:134-142). *)
THEOREM NoConnectionLeaks == Spec => []ConnectionsClosed
<1>1. IInv => ConnectionsClosed
  BY DEF IInv, Core
<1> QED BY <1>1, Invariance, PTL

(* Without overlap, g_resp_param holds the answer to the caller's own      *)
(* message when it is copied (ipt.c:173-176, mvfw_api.c:128-131).          *)
THEOREM AnswersAreOwn == Spec => []OwnAnswer
<1>1. IInv => OwnAnswer
  BY DEF IInv, Core, OwnAnswer, Ended, Told, Tells
<1> QED BY <1>1, Invariance, PTL

(* Without overlap, the status an MVFW command returns (mvfw_api.c:120) is *)
(* what the applet decided about that command.                             *)
THEOREM StatusesAreOwn == Spec => []StatusIsOwn
<1>1. IInv => StatusIsOwn
  BY DEF IInv, Core, StatusIsOwn, Ended, Told, Tells
<1> QED BY <1>1, Invariance, PTL

-----------------------------------------------------------------------------
(* A thread that shares its process with no other is never overlapped.     *)
LEMMA NobodyElse ==
  ASSUME \A t \in Thread : Peers(t) = {}
  PROVE  Spec => [](\A t \in Thread : alone[t])
<1> DEFINE Unjoined == alone \in [Thread -> BOOLEAN] /\ \A t \in Thread : alone[t]
<1>1. Init => Unjoined
  BY DEF Init
<1>2. ASSUME Unjoined, [Next]_vars PROVE Unjoined'
  <2>1. ASSUME NEW t \in Thread, NEW k \in Uses[t], Begin(t, k) \/ Reject(t, k) PROVE Unjoined'
    BY <1>2, <2>1 DEF Begin, Reject
  <2>2. ASSUME NEW t \in Thread,
               Connect(t) \/ ConnectFails(t) \/ Prepare(t) \/ ProcessCmd(t) \/ Check(t)
                 \/ CopyLen(t) \/ CopyData(t) \/ Close(t)
        PROVE  Unjoined'
    BY <1>2, <2>2
       DEF Connect, ConnectFails, Prepare, ClearReq, ClearRsp, FillCmd, FillStatus, FillLen,
           FillData, FillRoom, SetReq, SetRsp, ProcessCmd, SendCmd, SendCmdFails, SelectEnds,
           RecvCmd, RecvCmdFails, Check, CopyLen, CopyData, Close
  <2>3. ASSUME NEW p \in Process, NEW f \in Fd, FwStep(p, f) PROVE Unjoined'
    BY <1>2, <2>3 DEF FwStep, FwReplies
  <2>4. CASE UNCHANGED vars
    BY <1>2, <2>4 DEF vars
  <2> QED BY <1>2, <2>1, <2>2, <2>3, <2>4 DEF Next
<1> QED BY <1>1, <1>2, PTL DEF Spec

(* What mvfw_api.c:119 says of g_resp_param.header is true where no two    *)
(* threads share a process: the overlap of two calls is all that can turn  *)
(* a refusal into a success.                                               *)
THEOREM StatusCarriedBackUnshared ==
  ASSUME \A t \in Thread : Peers(t) = {}
  PROVE  Spec => []StatusIsCarriedBack
<1>1. StatusIsOwn /\ (\A t \in Thread : alone[t]) => StatusIsCarriedBack
  BY DEF StatusIsOwn, StatusIsCarriedBack, Tells
<1> QED BY <1>1, NobodyElse, StatusesAreOwn, PTL

-----------------------------------------------------------------------------
(* Ipt implements Exchange.                                                *)

(* What the firmware did is never at odds with what the caller has learnt. *)
LEMMA LearntTrue == IInv => \A t \in Thread : fate[t] \in Learnt(t)
<1> SUFFICES ASSUME IInv, NEW t \in Thread PROVE fate[t] \in Learnt(t)
  OBVIOUS
<1>1. fate[t] \in Fates \cup {"none"}
  BY DEF IInv, Core, TypeOK, Fates
<1>2. Ended(t) => Compatible(t, fate[t])
  <2>1. Ended(t) /\ Unheard(t) => fate[t] = "none"
    BY DEF IInv, Fated, Undecided, Ended
  <2>2. Ended(t) /\ alone[t] => Told(t)
    BY DEF IInv, Core
  <2> QED BY <2>1, <2>2 DEF Ended, Told, Tells, Compatible
<1> QED BY <1>1, <1>2 DEF Learnt

LEMMA LearntTrueNext == IInv' => (\A t \in Thread : fate[t] \in Learnt(t))'
BY LearntTrue, PTL

LEMMA ToldMapsTo == ToldMap' \in [Thread -> SUBSET Commands!Anything]
<1>1. ToldMap' = [u \in Thread |-> Learnt(u)']
  BY DEF ToldMap
<1>2. ASSUME NEW u \in Thread PROVE Learnt(u)' \subseteq Commands!Anything
  BY DEF Learnt, Commands!Anything
<1> QED BY <1>1, <1>2

(* What a step that leaves the locals of thread u alone leaves alone.      *)
LEMMA Alike ==
  ASSUME NEW u \in Thread, pc'[u] = pc[u], kind'[u] = kind[u], ret'[u] = ret[u],
         out'[u] = out[u], alone'[u] = alone[u] \/ ~Ended(u)
  PROVE  (u \in Busy' <=> u \in Busy) /\ Learnt(u)' = Learnt(u)
<1>1. u \in Busy' <=> u \in Busy
  BY DEF Busy
<1>2. Ended(u)' = Ended(u)
  BY DEF Ended
<1>3. Ended(u) => \A d : Compatible(u, d)' = Compatible(u, d)
  BY DEF Compatible, Unheard, Own, Tells
<1>4. Learnt(u)' = Learnt(u)
  BY <1>2, <1>3 DEF Learnt
<1> QED BY <1>1, <1>4

LEMMA Stutters ==
  ASSUME fate' = fate,
         \A u \in Thread : (u \in Busy' <=> u \in Busy) /\ Learnt(u)' = Learnt(u)
  PROVE  UNCHANGED Commands!vars
<1>1. Busy' = Busy
  BY DEF Busy
<1>2. ToldMap' = ToldMap
  BY DEF ToldMap
<1> QED BY <1>1, <1>2 DEF Commands!vars

(* The steps of a call under way that do not end it.                       *)
InnerStep(t) ==
  Connect(t) \/ Prepare(t) \/ ProcessCmd(t) \/ Check(t) \/ CopyLen(t) \/ CopyData(t)

LEMMA InnerStutters ==
  ASSUME IInv, NEW t \in Thread, InnerStep(t) PROVE UNCHANGED Commands!vars
<1>1. TypeOK
  BY DEF IInv, Core
<1>2. /\ fate' = fate /\ kind' = kind /\ alone' = alone
      /\ pc[t] # "idle" /\ pc'[t] # "idle"
      /\ \A u \in Thread \ {t} : pc'[u] = pc[u] /\ ret'[u] = ret[u] /\ out'[u] = out[u]
  <2>1. CASE Connect(t)
    BY <2>1, <1>1 DEF TypeOK, Connect, Goto
  <2>2. CASE Prepare(t)
    BY <2>2, <1>1 DEF TypeOK, Goto, Prepare, ClearReq, ClearRsp, FillCmd, FillStatus, FillLen,
       FillData, FillRoom, SetReq, SetRsp
  <2>3. CASE ProcessCmd(t)
    BY <2>3, <1>1 DEF TypeOK, Goto, ProcessCmd, SendCmd, SendCmdFails, SelectEnds, RecvCmd,
       RecvCmdFails
  <2>4. CASE Check(t) \/ CopyLen(t) \/ CopyData(t)
    BY <2>4, <1>1 DEF TypeOK, Goto, Check, CopyLen, CopyData
  <2> QED BY <2>1, <2>2, <2>3, <2>4 DEF InnerStep
<1>3. ASSUME NEW u \in Thread
      PROVE  (u \in Busy' <=> u \in Busy) /\ Learnt(u)' = Learnt(u)
  <2>1. CASE u = t
    BY <2>1, <1>2 DEF Busy, Learnt, Ended
  <2>2. CASE u # t
    BY <2>2, <1>2, Alike
  <2> QED BY <2>1, <2>2
<1> QED BY <1>2, <1>3, Stutters

(* A call begins: nothing is known of it.                                  *)
LEMMA BeginImplements ==
  ASSUME IInv, NEW t \in Thread, NEW k, Begin(t, k) PROVE Commands!Begin(t)
<1>1. TypeOK
  BY DEF IInv, Core
<1>2. /\ Goto(t, "idle", "connect") /\ ret' = ret
      /\ fate' = [fate EXCEPT ![t] = "none"]
      /\ \A u \in Thread \ {t} : kind'[u] = kind[u] /\ out'[u] = out[u]
      /\ alone' = [u \in Thread |->
                     IF u = t THEN \A v \in Peers(t) : pc[v] = "idle"
                              ELSE alone[u] /\ (u \in Peers(t) => pc[u] = "idle")]
  BY <1>1 DEF Begin, TypeOK
<1>3. /\ pc[t] = "idle" /\ pc'[t] = "connect"
      /\ \A u \in Thread \ {t} : pc'[u] = pc[u]
  BY <1>1, <1>2 DEF TypeOK, Goto
<1>4. ASSUME NEW u \in Thread \ {t}
      PROVE  (u \in Busy' <=> u \in Busy) /\ Learnt(u)' = Learnt(u)
  <2>1. Ended(u) => alone'[u] = alone[u]
    BY <1>1, <1>2 DEF Ended, TypeOK
  <2> QED BY <2>1, <1>2, <1>3, Alike
<1>5. t \notin Busy /\ Busy' = Busy \cup {t}
  BY <1>3, <1>4 DEF Busy
<1>6. ToldMap' = [ToldMap EXCEPT ![t] = Commands!Anything]
  <2>1. Learnt(t)' = Commands!Anything
    BY <1>3 DEF Learnt, Ended, Commands!Anything
  <2>2. ToldMap' = [u \in Thread |-> Learnt(u)']
    BY DEF ToldMap
  <2> QED BY <2>1, <2>2, <1>4 DEF ToldMap
<1> QED BY <1>2, <1>5, <1>6 DEF Commands!Begin

(* What the end of a call of thread t says concerns that thread only, and  *)
(* is true.                                                                *)
LEMMA Concludes ==
  ASSUME IInv', NEW t \in Thread,
         \A u \in Thread \ {t} : Learnt(u)' = Learnt(u)
  PROVE  Commands!Conclude(t, fate'[t])
<1>1. \A u \in Thread : ToldMap'[u] = Learnt(u)' /\ ToldMap[u] = Learnt(u)
  BY DEF ToldMap
<1>2. fate'[t] \in ToldMap'[t]
  BY <1>1, LearntTrueNext
<1>3. ToldMap' = [ToldMap EXCEPT ![t] = ToldMap'[t]]
  <2>1. ToldMap' = [u \in Thread |-> ToldMap'[u]]
    BY ToldMapsTo
  <2> QED BY <2>1, <1>1 DEF ToldMap
<1>4. ToldMap'[t] \subseteq Commands!Anything
  BY ToldMapsTo
<1> QED BY <1>2, <1>3, <1>4 DEF Commands!Conclude

LEMMA RejectImplements ==
  ASSUME IInv, IInv', NEW t \in Thread, NEW k, Reject(t, k) PROVE Commands!Reject(t)
<1>1. TypeOK
  BY DEF IInv, Core
<1>2. /\ pc[t] = "idle" /\ pc' = pc /\ fate' = [fate EXCEPT ![t] = "none"]
      /\ \A u \in Thread \ {t} : /\ kind'[u] = kind[u] /\ out'[u] = out[u]
                                 /\ ret'[u] = ret[u] /\ alone'[u] = alone[u]
  BY <1>1 DEF Reject, TypeOK
<1>3. fate'[t] = "none"
  BY <1>1, <1>2 DEF TypeOK
<1>4. \A u \in Thread \ {t} : Learnt(u)' = Learnt(u)
  BY <1>2, Alike
<1>5. t \notin Busy /\ Busy' = Busy
  BY <1>2 DEF Busy
<1> QED BY <1>2, <1>3, <1>4, <1>5, Concludes DEF Commands!Reject

LEMMA ReturnImplements ==
  ASSUME IInv, IInv', NEW t \in Thread, ConnectFails(t) \/ Close(t)
  PROVE  Commands!Return(t)
<1>1. TypeOK
  BY DEF IInv, Core
<1>2. /\ pc[t] # "idle" /\ pc'[t] = "idle" /\ fate' = fate
      /\ \A u \in Thread \ {t} : /\ pc'[u] = pc[u] /\ kind'[u] = kind[u] /\ out'[u] = out[u]
                                 /\ ret'[u] = ret[u] /\ alone'[u] = alone[u]
  BY <1>1 DEF ConnectFails, Close, Goto, TypeOK
<1>3. \A u \in Thread \ {t} : (u \in Busy' <=> u \in Busy) /\ Learnt(u)' = Learnt(u)
  BY <1>2, Alike
<1>4. t \in Busy /\ Busy' = Busy \ {t}
  BY <1>2, <1>3 DEF Busy
<1>5. Commands!Conclude(t, fate[t])
  BY <1>2, <1>3, Concludes
<1> QED BY <1>2, <1>4, <1>5 DEF Commands!Return

(* The applet decides once about a call, while it is under way.            *)
LEMMA FwStepImplements ==
  ASSUME IInv, NEW p \in Process, NEW f \in Fd, FwStep(p, f)
  PROVE  (\E t \in Thread : Commands!Decide(t)) \/ UNCHANGED Commands!vars
<1>1. TypeOK /\ TxeiTypeOK(Msg, Answer) /\ HandlesExclusive
  BY DEF IInv, Core, TypeOK
<1>2. PICK m \in link[p][f].req :
        \/ \E r \in Answers(m) : FwReplies(p, f, r, "done")
        \/ \E r \in Refusals : FwReplies(p, f, r, "refused")
        \/ "empty" \in Faults /\ FwReplies(p, f, NoBytes, "mute")
  BY DEF FwStep
<1>3. PICK what \in Fates : \E r : FwReplies(p, f, r, what)
  BY <1>2 DEF Fates
<1>4. /\ UNCHANGED <<pc, kind, ret, out, alone>>
      /\ fate' = [t \in Thread |-> IF ProcOf[t] = p /\ fd[t] = f THEN what ELSE fate[t]]
  BY <1>3 DEF FwReplies
<1>5. \A u \in Thread : (u \in Busy' <=> u \in Busy) /\ Learnt(u)' = Learnt(u)
  BY <1>4, Alike
<1>6. CASE \E t \in Thread : ProcOf[t] = p /\ fd[t] = f
  <2>1. PICK t \in Thread : ProcOf[t] = p /\ fd[t] = f
    BY <1>6
  <2>2. fd[t] # NoFd /\ m \in LinkOf(t).req
    BY <2>1, TxeiAssumption DEF LinkOf, Fd, NoFd
  <2>3. pc[t] \notin {"idle", "connect"}
    BY <2>2, FatedParts DEF Connected
  <2>4. fate[t] = "none"
    BY <2>2, <2>3, FatedParts DEF Fated, Undecided
  <2>5. \A u \in Thread \ {t} : ~(ProcOf[u] = p /\ fd[u] = f)
    BY <2>1, <2>2, <1>1 DEF HandlesExclusive
  <2>6. fate' = [fate EXCEPT ![t] = what]
    <3>1. DOMAIN fate = Thread /\ fate = [u \in Thread |-> fate[u]]
      BY <1>1 DEF TypeOK
    <3>2. \A u \in Thread : (ProcOf[u] = p /\ fd[u] = f) <=> u = t
      BY <2>1, <2>5
    <3>3. fate' = [u \in Thread |-> IF u = t THEN what ELSE fate[u]]
      BY <1>4, <3>2, Zenon
    <3> QED BY <3>1, <3>3
  <2>7. t \in Busy /\ Busy' = Busy /\ ToldMap' = ToldMap
    BY <2>3, <1>5 DEF Busy, ToldMap
  <2>8. Commands!Decide(t)
    BY <2>4, <2>6, <2>7 DEF Commands!Decide
  <2> QED BY <2>8
<1>7. CASE ~\E t \in Thread : ProcOf[t] = p /\ fd[t] = f
  <2>1. fate' = fate
    BY <1>1, <1>4, <1>7 DEF TypeOK
  <2> QED BY <2>1, <1>5, Stutters
<1> QED BY <1>6, <1>7

LEMMA InitImplements == Init => Commands!Init
<1> SUFFICES ASSUME Init PROVE Commands!Init
  OBVIOUS
<1>1. Busy = {} /\ fate = [t \in Thread |-> "none"]
  BY DEF Init, Busy
<1>2. ToldMap = [t \in Thread |-> Commands!Anything]
  BY DEF Init, ToldMap, Learnt, Ended, Commands!Anything
<1> QED BY <1>1, <1>2 DEF Commands!Init

LEMMA StepImplements == IInv /\ IInv' /\ [Next]_vars => [Commands!Next]_(Commands!vars)
<1> SUFFICES ASSUME IInv, IInv', [Next]_vars PROVE Commands!Next \/ UNCHANGED Commands!vars
  OBVIOUS
<1>1. CASE UNCHANGED vars
  BY <1>1, Alike, Stutters DEF vars
<1>2. ASSUME NEW t \in Thread, NEW k \in Uses[t], Begin(t, k) \/ Reject(t, k)
      PROVE  Commands!Next
  BY <1>2, BeginImplements, RejectImplements DEF Commands!Next
<1>3. ASSUME NEW t \in Thread, ConnectFails(t) \/ Close(t) PROVE Commands!Next
  BY <1>3, ReturnImplements DEF Commands!Next
<1>4. ASSUME NEW t \in Thread, InnerStep(t) PROVE UNCHANGED Commands!vars
  BY <1>4, InnerStutters
<1>5. ASSUME NEW p \in Process, NEW f \in Fd, FwStep(p, f)
      PROVE  Commands!Next \/ UNCHANGED Commands!vars
  BY <1>5, FwStepImplements DEF Commands!Next
<1> QED BY <1>1, <1>2, <1>3, <1>4, <1>5 DEF Next, InnerStep

(* Whichever threads overwrite each other's messages, the applet decides   *)
(* once at most about what a call has sent, before the call returns, and   *)
(* what the call returns is not at odds with that (ipt.c:84-189,           *)
(* mvfw_api.c:52-147).                                                     *)
THEOREM IptImplementsExchange == Spec => ImplementsExchange
<1> QED BY InitImplements, StepImplements, Invariance, PTL
    DEF Spec, Commands!Spec, ImplementsExchange
=============================================================================
