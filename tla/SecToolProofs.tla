--------------------------- MODULE SecToolProofs ---------------------------
(***************************************************************************)
(* ToolIInv is an inductive invariant of SecTool, for any shells, command  *)
(* lines, faults and sizes; what exit statuses and output files tell       *)
(* follows.                                                                *)
(***************************************************************************)
EXTENDS SecTool, UmipAccessProofs

(* What the invariant says of one process.                                 *)
Outcome(t) ==
  /\ Exited(t, "acd-write") /\ exit[t] # 0 => fate[t] # "done"
  /\ Exited(t, "acd-prov") /\ exit[t] \notin {0, 1, NoMemory % 256} => fate[t] # "done"
  /\ "empty" \notin Faults =>
       /\ Exited(t, "acd-write") /\ exit[t] = 0 /\ result[t] # 1 => fate[t] = "done"
       /\ Exited(t, "acd-prov") /\ exit[t] = 0 /\ line[t].file <= MaxData =>
            fate[t] = "done"
  /\ out[t] # "old" => fate[t] = "done" /\ resp[t].bytes > 0
  /\ Exited(t, "acd-prov") /\ exit[t] = 0 /\ fate[t] = "done" /\ resp[t].bytes > 0 =>
       out[t] = "new"
  /\ t \notin torn =>
       /\ locked[t] \subseteq {Softfuse}
       /\ Exited(t, "gpp-wp-lock") /\ exit[t] = 0 => locked[t] = {Softfuse}

Tool(t) == Place(t) /\ Selected(t) /\ Outcome(t)

LEMMA ByTool ==
  ToolIInv <=> /\ IInv /\ ToolTypeOK
               /\ \A t \in Thread : Tool(t)
BY DEF ToolIInv, Tool, Outcome, FailureNotDone, SuccessDone, OldFileKept, OutputNotLost,
       OnlySoftfuse

-----------------------------------------------------------------------------
(* Steps of one process and of the driver leave the other processes alone. *)

ToolFrame(u) ==
  /\ Keeps(u)
  /\ at'[u] = at[u] /\ line'[u] = line[u] /\ exit'[u] = exit[u] /\ out'[u] = out[u]
  /\ locked'[u] = locked[u] /\ (u \in torn' <=> u \in torn)

(* The tool selects the softfuses and nothing else.                        *)
GppKept == gpp'.part \in {gpp.part, 1} /\ gpp'.group \in {gpp.group, 0}

Pair == [part : Nat, group : Nat]

LEMMA ToolFramed ==
  ASSUME NEW u \in Thread, Tool(u), ToolFrame(u), GppKept
  PROVE  Tool(u)'
<1>1. Told(u) => Told(u)'
  BY DEF Told, HasBuffer, ToolFrame, Keeps, Untouched
<1>2. Unborn(u) => Unborn(u)'
  BY DEF Unborn, ToolFrame, Keeps, Untouched
<1>3. Place(u)'
  BY <1>1, <1>2 DEF Tool, Place, ToolFrame, Keeps, Untouched
<1>4. Selected(u)'
  BY DEF Tool, Selected, ToolFrame, GppKept
<1>5. Outcome(u)'
  BY DEF Tool, Outcome, Exited, ToolFrame, Keeps, GppKept
<1> QED BY <1>3, <1>4, <1>5 DEF Tool

(* To prove the invariant after a step of process t.                       *)
LEMMA ToolCompose ==
  ASSUME ToolIInv, NEW t \in Thread, IInv', ToolTypeOK', GppKept, Tool(t)',
         \A u \in Thread \ {t} : ToolFrame(u)
  PROVE  ToolIInv'
<1>1. \A u \in Thread \ {t} : Tool(u)'
  BY ToolFramed, ByTool
<1>2. \A u \in Thread : Tool(u)'
  BY <1>1
<1> QED BY <1>2 DEF ToolIInv, Tool, Outcome, FailureNotDone, SuccessDone, OldFileKept,
                    OutputNotLost, OnlySoftfuse

LEMMA ToolFacts ==
  ASSUME ToolIInv, NEW t \in Thread
  PROVE  /\ IInv /\ TypeOK /\ ToolTypeOK /\ Tool(t) /\ Place(t) /\ Selected(t) /\ Outcome(t)
         /\ at[t] \in Stages /\ line[t] \in LineSpace /\ exit[t] \in 0 .. 255
         /\ pc[t] \in Places /\ result[t] \in Int /\ resp[t] \in Rsp
         /\ gpp \in Pair /\ locked \in [Thread -> SUBSET Pair] /\ torn \subseteq Thread
         /\ t \notin torn => locked[t] \subseteq {Softfuse}
BY ByTool DEF Tool, Outcome, ToolTypeOK, TypeOK, Pair

-----------------------------------------------------------------------------
(* The process of shell t exits with v: its connection is closed.          *)
LEMMA ExitStep ==
  ASSUME ToolIInv, NEW t \in Thread, NEW v \in Int, Exit(t, v),
         pc[t] = "idle",
         out' \in [Thread -> {"old", "cut", "new"}],
         \A u \in Thread \ {t} : out'[u] = out[u],
         Outcome(t)'
  PROVE  ToolIInv'
<1>1. /\ at' = [at EXCEPT ![t] = "shell"]
      /\ exit' = [exit EXCEPT ![t] = v % 256]
      /\ UNCHANGED <<pc, ret, resp, call, result, acd, fate, line, gpp, locked, torn>>
  BY DEF Exit, To, gppVars
<1>2. IInv /\ TypeOK /\ TxeiTypeOK(Calls, Rsp) /\ HandlesExclusive /\ LegalRequests
  BY ToolFacts, Facts
<1>3. /\ TxeiTypeOK(Calls, Rsp)' /\ HandlesExclusive' /\ OthersUntouched(t)
      /\ fd'[t] = NoFd
      /\ \A p \in Process, f \in Fd : link'[p][f] \in {link[p][f], NoTraffic}
  <2>1. CASE fd[t] = NoFd
    <3>1. UNCHANGED <<fd, files, link>>
      BY <2>1 DEF Exit, txeiVars
    <3> QED BY <1>2, <2>1, <3>1 DEF TxeiTypeOK, HandlesExclusive, OthersUntouched, Untouched, LinkOf
  <2>2. CASE fd[t] # NoFd
    <3>1. MeiDisconnect(t)
      BY <2>2 DEF Exit
    <3> QED BY <1>2, <2>2, <3>1, MeiDisconnectStep
  <2> QED BY <2>1, <2>2
<1>4. TypeOK'
  BY <1>1, <1>2, <1>3 DEF TypeOK
<1>5. LegalRequests'
  BY <1>2, <1>3, LegalStays DEF NoTraffic
<1>6. ThreadInv(t)'
  <2>1. ThreadInv(t)
    BY <1>2, Facts
  <2>2. Succeeded(t)' <=> Succeeded(t)
    BY <1>1 DEF Succeeded
  <2>3. Tells(t, call[t], result[t], fate[t])' <=> Tells(t, call[t], result[t], fate[t])
    BY <1>1, TellsPrimed
  <2> QED BY <1>1, <1>3, <2>1, <2>2, <2>3
          DEF ThreadInv, InCall, OnConnection, Settled, Returned, NoFd
<1>7. \A u \in Thread \ {t} : ToolFrame(u)
  BY <1>1, <1>3, ToolFacts DEF ToolTypeOK, OthersUntouched, ToolFrame, Keeps
<1>8. IInv'
  BY <1>2, <1>3, <1>4, <1>5, <1>6, <1>7, Compose DEF ToolFrame
<1>9. ToolTypeOK'
  <2>1. v % 256 \in 0 .. 255
    OBVIOUS
  <2> QED BY <1>1, <1>4, <2>1, ToolFacts DEF ToolTypeOK, Stages
<1>10. Tool(t)'
  <2>1. at'[t] = "shell" /\ pc'[t] = "idle" /\ fd'[t] = NoFd
    BY <1>1, <1>3, ToolFacts DEF ToolTypeOK
  <2> QED BY <2>1 DEF Tool, Place, Selected, Selecting
<1> QED BY <1>1, <1>7, <1>8, <1>9, <1>10, ToolCompose DEF GppKept

(* A step within the process, the library idle.                            *)
LEMMA MoveTool ==
  ASSUME ToolIInv, NEW t \in Thread, NEW to \in Stages \ {"shell"}, To(t, to),
         UNCHANGED <<vars, line, exit, out>>,
         gpp' \in Pair, GppKept, torn' = torn, locked' \in [Thread -> SUBSET Pair],
         \A u \in Thread \ {t} : locked'[u] = locked[u],
         t \notin torn => locked'[t] \subseteq {Softfuse},
         at[t] # "shell", Place(t)', Selected(t)'
  PROVE  ToolIInv'
<1>1. UNCHANGED <<fd, files, link, pc, ret, resp, call, result, acd, fate, line, exit, out>>
  BY DEF vars, teeVars, txeiVars
<1>2. IInv'
  BY StutterInv, ToolFacts
<1>4. ToolTypeOK'
  BY <1>1, <1>2, ToolFacts DEF ToolTypeOK, To, IInv, Pair
<1>5. Outcome(t)'
  <2>1. at'[t] = to
    BY ToolFacts DEF To, ToolTypeOK
  <2> QED BY <1>1, <2>1, ToolFacts DEF Outcome, Exited
<1>6. \A u \in Thread \ {t} : ToolFrame(u)
  BY <1>1, ToolFacts DEF To, ToolTypeOK, ToolFrame, Keeps, Untouched, LinkOf
<1> QED BY <1>2, <1>4, <1>5, <1>6, ToolCompose DEF Tool

-----------------------------------------------------------------------------
(* A new process, at stage "to".                                           *)
LEMMA NewProcessStep ==
  ASSUME ToolIInv, NEW t \in Thread, at[t] = "shell", NEW l \in LineSpace,
         NewProcess(t, l), NEW to \in Stages, at' = [at EXCEPT ![t] = to],
         exit' \in [Thread -> 0 .. 255], \A u \in Thread \ {t} : exit'[u] = exit[u],
         to = "shell" /\ exit'[t] = 0 => l.cmd \in NothingToDo,
         to \in {"shell", "input", "call", "part", "lockPart"},
         to = "input" => l.cmd \in {"acd-write", "acd-prov"} /\ LineOk(l),
         to = "call" => Approved(l),
         to = "part" => l.cmd = "gpp-wp-status",
         to = "lockPart" => l.cmd = "gpp-wp-lock"
  PROVE  ToolIInv'
<1>1. /\ line' = [line EXCEPT ![t] = l]
      /\ out' = [out EXCEPT ![t] = "old"]
      /\ ret' = [ret EXCEPT ![t] = 0]
      /\ resp' = [resp EXCEPT ![t] = ClearResp]
      /\ call' = [call EXCEPT ![t] = NoCall]
      /\ result' = [result EXCEPT ![t] = 0]
      /\ fate' = [fate EXCEPT ![t] = "none"]
      /\ locked' = [locked EXCEPT ![t] = {}] /\ torn' = torn \ {t}
      /\ UNCHANGED <<fd, files, link, pc, acd, gpp>>
  BY DEF NewProcess, txeiVars
<1>2. IInv /\ TypeOK /\ TxeiTypeOK(Calls, Rsp) /\ HandlesExclusive /\ LegalRequests
  BY ToolFacts, Facts
<1>3. pc[t] = "idle" /\ fd[t] = NoFd
  BY ToolFacts DEF Place
<1>4. ClearResp \in Rsp
  BY AcdAssumption DEF ClearResp, Rsp
<1>5. TypeOK'
  BY <1>1, <1>2, <1>4 DEF TypeOK, TxeiTypeOK, TEE_SUCCESSFUL
<1>6. /\ call'[t] = NoCall /\ pc'[t] = "idle" /\ fd'[t] = NoFd /\ fate'[t] = "none"
      /\ line'[t] = l /\ out'[t] = "old" /\ at'[t] = to /\ locked'[t] = {}
  BY <1>1, <1>2, <1>3, ToolFacts DEF TypeOK, ToolTypeOK
<1>7. ThreadInv(t)'
  BY <1>6 DEF ThreadInv, InCall, OnConnection, Settled, Returned, NoFd
<1>8. \A u \in Thread \ {t} : ToolFrame(u)
  BY <1>1, <1>2, ToolFacts DEF TypeOK, ToolTypeOK, ToolFrame, Keeps, Untouched, LinkOf
<1>9. LegalRequests' /\ HandlesExclusive'
  BY <1>1, <1>2, LegalStays DEF HandlesExclusive
<1>10. IInv'
  BY <1>2, <1>5, <1>7, <1>8, <1>9, Compose DEF ToolFrame
<1>11. ToolTypeOK'
  BY <1>1, <1>5, ToolFacts DEF ToolTypeOK
<1>12. Tool(t)'
  <2>1. Place(t)' /\ Selected(t)'
    BY <1>6 DEF Place, Selected, Selecting, Unborn
  <2>2. Outcome(t)'
    BY <1>6 DEF Outcome, Exited, NothingToDo
  <2> QED BY <2>1, <2>2 DEF Tool
<1> QED BY <1>1, <1>8, <1>10, <1>11, <1>12, ToolFacts, ToolCompose DEF GppKept

LEMMA RunStep ==
  ASSUME ToolIInv, NEW t \in Thread, Run(t) PROVE ToolIInv'
<1>1. PICK l \in Lines[t] :
        /\ LineOk(l) /\ l.cmd \notin Unsupported \cup NothingToDo
        /\ NewProcess(t, l)
        /\ To(t, First(l.cmd))
  BY DEF Run
<1>2. l \in LineSpace /\ l.cmd \in Commands
  BY SecToolAssumption DEF LineSpace
<1>3. l.cmd \in Callers \cup {"gpp-wp-status", "gpp-wp-lock"}
  BY <1>1, <1>2 DEF Commands, Unsupported, NothingToDo, Callers
<1>4. /\ First(l.cmd) \in {"input", "call", "part", "lockPart"}
      /\ First(l.cmd) = "input" => l.cmd \in {"acd-write", "acd-prov"}
      /\ First(l.cmd) = "call" => l.cmd \in {"acd-lock", "acd-wipe", "acd-read"}
      /\ First(l.cmd) = "part" => l.cmd = "gpp-wp-status"
      /\ First(l.cmd) = "lockPart" => l.cmd = "gpp-wp-lock"
  BY <1>3 DEF First, Callers
<1>5. First(l.cmd) = "call" => Approved(l)
  BY <1>1, <1>4 DEF Approved, Callers
<1>6. exit' = exit /\ at[t] = "shell" /\ at' = [at EXCEPT ![t] = First(l.cmd)]
  BY <1>1 DEF Run, To
<1>7. First(l.cmd) \in Stages
  BY <1>4 DEF Stages
<1>8. exit' \in [Thread -> 0 .. 255]
  BY <1>6, ToolFacts DEF ToolTypeOK
<1> QED BY <1>1, <1>2, <1>4, <1>5, <1>6, <1>7, <1>8, NewProcessStep

LEMMA RunParsedStep ==
  ASSUME ToolIInv, NEW t \in Thread, RunParsed(t) PROVE ToolIInv'
<1>1. PICK l \in Lines[t] :
        /\ NewProcess(t, l)
        /\ exit' = [exit EXCEPT ![t] =
             IF LineOk(l) /\ l.cmd \in NothingToDo THEN EXIT_SUCCESS ELSE EXIT_FAILURE]
  BY DEF RunParsed
<1>2. l \in LineSpace
  BY SecToolAssumption
<1>3. at[t] = "shell" /\ at' = [at EXCEPT ![t] = "shell"]
  BY ToolFacts DEF RunParsed, ToolTypeOK
<1>4. /\ exit' \in [Thread -> 0 .. 255]
      /\ \A u \in Thread \ {t} : exit'[u] = exit[u]
      /\ exit'[t] = 0 => l.cmd \in NothingToDo
  BY <1>1, ToolFacts DEF ToolTypeOK, EXIT_SUCCESS, EXIT_FAILURE
<1> QED BY <1>1, <1>2, <1>3, <1>4, NewProcessStep DEF Stages

(* A process that exits leaves all but its exit status alone.              *)
LEMMA ExitKeeps ==
  ASSUME ToolIInv, NEW t \in Thread, NEW v \in Int, Exit(t, v)
  PROVE  /\ exit'[t] = v % 256
         /\ UNCHANGED <<line, fate, result, resp, gpp, locked, torn>>
         /\ t \notin torn' => locked'[t] \subseteq {Softfuse}
BY ToolFacts DEF Exit, ToolTypeOK, gppVars

-----------------------------------------------------------------------------
(* The input file.                                                         *)

LEMMA ReadInputStep ==
  ASSUME ToolIInv, NEW t \in Thread, ReadInput(t) PROVE ToolIInv'
<1>1. /\ at[t] = "input" /\ InputOk(line[t]) /\ To(t, "call")
      /\ UNCHANGED <<vars, line, exit, out, gpp, locked, torn>>
  BY DEF ReadInput, gppVars
<1>2. UNCHANGED <<fd, link, pc, call, fate>> /\ at'[t] = "call"
  BY <1>1, ToolFacts DEF vars, teeVars, txeiVars, To, ToolTypeOK
<1>3. Place(t)'
  BY <1>1, <1>2, ToolFacts DEF Place, Unborn, Approved, Callers
<1>4. Selected(t)'
  BY <1>2 DEF Selected, Selecting
<1>5. GppKept /\ gpp' \in Pair /\ (t \notin torn => locked'[t] \subseteq {Softfuse})
  BY <1>1, ToolFacts DEF GppKept, Outcome
<1> QED BY <1>1, <1>3, <1>4, <1>5, ToolFacts, MoveTool DEF Stages

LEMMA ReadInputFailsStep ==
  ASSUME ToolIInv, NEW t \in Thread, ReadInputFails(t) PROVE ToolIInv'
<1>1. at[t] = "input" /\ Exit(t, EXIT_FAILURE) /\ out' = out
  BY DEF ReadInputFails
<1>2. /\ pc[t] = "idle" /\ fate[t] = "none" /\ out[t] = "old"
      /\ line[t].cmd \in {"acd-write", "acd-prov"}
  BY <1>1, ToolFacts DEF Place, Unborn
<1>3. /\ exit'[t] = 1 /\ fate' = fate /\ line' = line
      /\ t \notin torn' => locked'[t] \subseteq {Softfuse}
  BY <1>1, ExitKeeps DEF EXIT_FAILURE
<1>4. Outcome(t)'
  BY <1>1, <1>2, <1>3 DEF Outcome, Exited
<1> QED BY <1>1, <1>2, <1>4, ToolFacts, ExitStep DEF ToolTypeOK, EXIT_FAILURE

LEMMA InputTooLargeStep ==
  ASSUME ToolIInv, NEW t \in Thread, InputTooLarge(t) PROVE ToolIInv'
<1>1. /\ at[t] = "input" /\ Exit(t, EXIT_SUCCESS) /\ out' = out
      /\ line[t].cmd = "acd-prov" /\ line[t].file > MaxData
  BY DEF InputTooLarge
<1>2. pc[t] = "idle" /\ fate[t] = "none" /\ out[t] = "old"
  BY <1>1, ToolFacts DEF Place, Unborn
<1>3. /\ exit'[t] = 0 /\ fate' = fate /\ line' = line
      /\ t \notin torn' => locked'[t] \subseteq {Softfuse}
  BY <1>1, ExitKeeps DEF EXIT_SUCCESS
<1>4. ~(line[t].file <= MaxData)
  BY <1>1, ToolFacts, AcdAssumption DEF LineSpace
<1>5. Outcome(t)'
  BY <1>1, <1>2, <1>3, <1>4 DEF Outcome, Exited
<1> QED BY <1>1, <1>2, <1>5, ToolFacts, ExitStep DEF ToolTypeOK, EXIT_SUCCESS

-----------------------------------------------------------------------------
(* The call of the library.                                                *)

(* A call that the tool makes has passed the checks of the library.        *)
LEMMA AcceptedCall ==
  ASSUME NEW l \in LineSpace, Approved(l)
  PROVE  /\ EarlyError(CallOf(l)) = 0
         /\ l.cmd = "acd-read" => GetError(CallOf(l)) = 0
<1>1. l.file \in Nat /\ l.cmd \in Callers /\ LineOk(l)
  BY DEF LineSpace, Approved
<1>2. CASE l.cmd \in {"acd-lock", "acd-wipe"}
  BY <1>2 DEF CallOf, EarlyError
<1>3. CASE l.cmd = "acd-read"
  <2>1. CallOf(l).op = "get" /\ CallOf(l).index = AcdIndex(l) /\ CallOf(l).out
    BY <1>3 DEF CallOf
  <2>2. AcdIndex(l) \in Index
    BY <1>1, <1>3 DEF LineOk, ReadOk
  <2> QED BY <1>3, <2>1, <2>2 DEF EarlyError, GetError
<1>4. CASE l.cmd = "acd-write"
  <2>1. /\ CallOf(l).op = "set" /\ CallOf(l).index = AcdIndex(l) /\ CallOf(l).buf
        /\ CallOf(l).size = DataSize(l) /\ CallOf(l).max = DataMaxSize(l)
    BY <1>4 DEF CallOf
  <2>2. /\ AcdIndex(l) \in Index /\ DataSize(l) # 0
        /\ DataSize(l) <= MaxData /\ DataMaxSize(l) <= MaxData
        /\ DataSize(l) <= DataMaxSize(l)
    BY <1>1, <1>4 DEF LineOk, WriteOk, Approved, InputOk
  <2>3. DataSize(l) \in Nat /\ DataMaxSize(l) \in Nat
    BY DEF LineSpace, DataSize, DataMaxSize
  <2>4. DataMaxSize(l) # 0
    BY <2>2, <2>3
  <2> QED BY <1>4, <2>1, <2>2, <2>3, <2>4, AcdAssumption DEF EarlyError, SetError, LegalSize
<1>5. CASE l.cmd = "acd-prov"
  <2>1. /\ CallOf(l).op = "prov" /\ CallOf(l).size = l.file
        /\ CallOf(l).buf /\ CallOf(l).out
    BY <1>5 DEF CallOf
  <2>2. l.file # 0 /\ l.file <= MaxData
    BY <1>1, <1>5 DEF Approved, InputOk
  <2> QED BY <1>5, <2>1, <2>2 DEF EarlyError, ProvError, LegalSize
<1> QED BY <1>1, <1>2, <1>3, <1>4, <1>5 DEF Callers

LEMMA CallOps ==
  ASSUME NEW l
  PROVE  /\ l.cmd = "acd-write" => CallOf(l).op = "set" /\ CallOf(l).size = DataSize(l)
         /\ l.cmd = "acd-prov" => CallOf(l).op = "prov" /\ CallOf(l).out
         /\ l.cmd = "acd-read" => CallOf(l).op = "get"
         /\ l.cmd \in Callers =>
              /\ CallOf(l).op # "none"
              /\ CallOf(l).op = "prov" => l.cmd = "acd-prov"
              /\ CallOf(l).op = "get" => l.cmd = "acd-read"
BY DEF CallOf, Callers

LEMMA CallLibraryStep ==
  ASSUME ToolIInv, NEW t \in Thread, CallLibrary(t) PROVE ToolIInv'
<1>1. /\ at[t] = "call" /\ Begin(t) /\ call'[t] = CallOf(line[t])
      /\ at' = [at EXCEPT ![t] = "lib"] /\ UNCHANGED <<line, exit, out, gpp, locked, torn>>
  BY DEF CallLibrary, To, gppVars
<1>2. /\ IInv' /\ TypeOK'
  BY <1>1, ToolFacts, BeginStep DEF IInv
<1>3. /\ ForgetHandle(t)
      /\ pc' = [pc EXCEPT ![t] = "connect"]
      /\ fate' = [fate EXCEPT ![t] = "none"]
      /\ UNCHANGED <<ret, resp, result>>
      /\ \E c \in Calls : call' = [call EXCEPT ![t] = c]
  BY <1>1 DEF Begin, Goto
<1>4. OthersUntouched(t)
  BY <1>3, ToolFacts, Facts, ForgetHandleStep
<1>5. \A u \in Thread \ {t} : ToolFrame(u)
  BY <1>1, <1>3, <1>4, ToolFacts DEF TypeOK, ToolTypeOK, OthersUntouched, ToolFrame, Keeps
<1>6. at'[t] = "lib" /\ pc'[t] = "connect"
  BY <1>1, <1>3, ToolFacts DEF TypeOK, ToolTypeOK
<1>7. Approved(line[t]) /\ out[t] = "old"
  BY <1>1, ToolFacts DEF Place, Unborn
<1>8. Approved(line[t])'
  BY <1>1, <1>7
<1>9. Place(t)'
  BY <1>1, <1>6, <1>7, <1>8 DEF Place, Selecting
<1>10. Selected(t)' /\ Outcome(t)'
  BY <1>1, <1>6, <1>7, ToolFacts DEF Selected, Selecting, Outcome, Exited
<1>11. ToolTypeOK'
  BY <1>1, <1>2, ToolFacts DEF ToolTypeOK, Stages
<1> QED BY <1>1, <1>2, <1>5, <1>9, <1>10, <1>11, ToolFacts, ToolCompose DEF Tool, GppKept

(* A step of a call that has begun: where it leads, and that it leaves the *)
(* others alone.                                                           *)
LEMMA ReturnForms ==
  ASSUME NEW t \in Thread, Return(t)
  PROVE  \E v : ReturnClosing(t, v) \/ ReturnLeaking(t, v)
BY DEF Return, GetReject, LockReturn, SetReturn, GetReturn, ProvReturn

LEMMA CallFrame ==
  ASSUME IInv, NEW t \in Thread, CallStep(t)
  PROVE  /\ \A u \in Thread \ {t} : Keeps(u)
         /\ call' = call /\ pc[t] # "idle"
<1>0. TypeOK /\ TxeiTypeOK(Calls, Rsp) /\ HandlesExclusive
  BY Facts
<1>1. CASE Connect(t)
  <2>1. OthersUntouched(t)
    BY <1>0, <1>1, MeiConnectStep DEF Connect, TeeOpen
  <2> QED BY <1>0, <1>1, <2>1 DEF Connect, TeeOpen, Goto, TypeOK, OthersUntouched, Keeps
<1>2. CASE ConnectFails(t)
  <2>1. UNCHANGED <<fd, link>>
    BY <1>2 DEF ConnectFails, TeeOpenFails, MeiConnectFails, txeiVars
  <2> QED BY <1>0, <1>2, <2>1 DEF ConnectFails, TeeOpenFails, Goto, TypeOK, Untouched, LinkOf,
                                  Keeps
<1>3. ASSUME UNCHANGED txeiVars,
             SendCmdFails(t) \/ SelectReady(t) \/ SelectGivesUp(t) \/ RecvCmdFails(t),
             UNCHANGED <<call, result, acd, fate>>
      PROVE  \A u \in Thread \ {t} : Keeps(u)
  BY <1>0, <1>3 DEF txeiVars, SendCmdFails, SelectReady, SelectGivesUp, RecvCmdFails, Goto,
                    TypeOK, Untouched, LinkOf, Keeps
<1>4. CASE Process_cmd(t)
  <2>1. UNCHANGED <<call, result, acd, fate>>
    BY <1>4 DEF Process_cmd
  <2>2. pc[t] # "idle"
    BY <1>4 DEF Process_cmd, ProcessCmd, SendCmd, SendCmdFails, SelectReady, SelectGivesUp,
                RecvCmd, RecvCmdFails
  <2>3. CASE SendCmd(t, call[t])
    <3>1. call[t] \in Calls
      BY <2>2, Facts DEF InCall
    <3>2. OthersUntouched(t)
      BY <1>0, <2>3, <3>1, MeiWriteStep DEF SendCmd
    <3> QED BY <1>0, <2>1, <2>2, <2>3, <3>2 DEF SendCmd, Goto, TypeOK, OthersUntouched, Keeps
  <2>4. CASE RecvCmd(t)
    <3>1. OthersUntouched(t)
      BY <1>0, <2>4, MeiReadStep DEF RecvCmd
    <3> QED BY <1>0, <2>1, <2>2, <2>4, <3>1 DEF RecvCmd, Goto, TypeOK, OthersUntouched, Keeps
  <2>5. CASE SendCmdFails(t) \/ SelectReady(t) \/ SelectGivesUp(t) \/ RecvCmdFails(t)
    <3>1. UNCHANGED txeiVars
      BY <2>5 DEF SendCmdFails, MeiWriteFails, SelectReady, SelectGivesUp, RecvCmdFails,
                  MeiReadFails
    <3> QED BY <1>3, <2>1, <2>2, <2>5, <3>1
  <2> QED BY <1>4, <2>3, <2>4, <2>5 DEF Process_cmd, ProcessCmd
<1>5. CASE Return(t)
  <2>1. pc[t] \in {"send", "check"}
    BY <1>5 DEF Return, GetReject, LockReturn, SetReturn, GetReturn, ProvReturn
  <2>2. fd[t] # NoFd
    BY <2>1, Facts DEF OnConnection
  <2>3. PICK v : ReturnClosing(t, v) \/ ReturnLeaking(t, v)
    BY <1>5, ReturnForms
  <2>4. OthersUntouched(t)
    <3>1. CASE MeiDisconnect(t)
      BY <1>0, <2>2, <3>1, MeiDisconnectStep
    <3>2. CASE UNCHANGED txeiVars
      BY <3>2 DEF txeiVars, OthersUntouched, Untouched, LinkOf
    <3> QED BY <2>3, <3>1, <3>2 DEF ReturnClosing, ReturnLeaking
  <2> QED BY <1>0, <2>1, <2>3, <2>4 DEF ReturnClosing, ReturnLeaking, Goto, TypeOK, OthersUntouched,
                                        Keeps
<1> QED BY <1>1, <1>2, <1>4, <1>5 DEF CallStep

(* An answer with bytes that was read: the command was carried out.        *)
LEMMA BytesAreDone ==
  ASSUME IInv, NEW t \in Thread, pc[t] = "check", ret[t] = 0,
         resp[t].status \in {0, WriteOnly}, resp[t].bytes > 0
  PROVE  fate[t] = "done"
<1>1. Taken(t)
  BY Facts, WordAssumption DEF OnConnection, TEE_FAILURE
<1>2. ClearResp.bytes = 0
  BY DEF ClearResp
<1>3. WriteOnly \notin FwError /\ 0 \notin FwError /\ WriteOnly # -1
  BY Ints, UmipAssumption DEF Codes
<1>4. fate[t] \in {"done", "refused"}
  BY <1>1, Facts DEF Taken, TypeOK
<1> QED BY <1>1, <1>2, <1>3, <1>4 DEF Taken, Truthful

(* What a call that returns v knows then.                                  *)
LEMMA ReturnTold ==
  ASSUME ToolIInv, NEW t \in Thread, NEW v \in Int, pc[t] = "check",
         \/ ReturnClosing(t, v)
         \/ ReturnLeaking(t, v) /\ (ret[t] = 0 => LinkOf(t).req = {}),
         call[t].op = "set" => v < 0 \/ v \in {1, call[t].size},
         call[t].op = "prov" =>
           v \in {0, 1, NoMemory, -1} \/ \E e \in Codes : v = -e,
         call[t].op = "prov" /\ v = 0 => ret[t] = 0 /\ resp[t].status = 0,
         call[t].op = "get" /\ ret[t] = 0 /\ resp[t].status \in {0, WriteOnly} =>
           v \in {NoMemory, resp[t].bytes}
  PROVE  Told(t)'
<1>1. /\ UNCHANGED <<ret, resp, call, fate>>
      /\ result' = [result EXCEPT ![t] = v]
  BY DEF ReturnClosing, ReturnLeaking
<1>2. result'[t] = v
  BY <1>1, ToolFacts DEF TypeOK
<1>3. fd'[t] = NoFd \/ (fd' = fd /\ link' = link)
  BY ToolFacts DEF ReturnClosing, ReturnLeaking, MeiDisconnect, TypeOK, TxeiTypeOK, txeiVars
<1>4. ReturnClosing(t, v) => fd'[t] = NoFd
  BY ToolFacts DEF ReturnClosing, MeiDisconnect, TypeOK, TxeiTypeOK
<1>5. ret'[t] = 0 /\ fd'[t] # NoFd => LinkOf(t)'.req = {}
  BY <1>1, <1>3, <1>4 DEF LinkOf
<1>6. /\ ret'[t] = 0 /\ resp'[t].status \in {0, WriteOnly} /\ resp'[t].bytes > 0 =>
           fate'[t] = "done"
  BY <1>1, ToolFacts, BytesAreDone
<1> QED BY <1>1, <1>2, <1>5, <1>6 DEF Told, HasBuffer

LEMMA LibraryTold ==
  ASSUME ToolIInv, NEW t \in Thread, Library(t), pc'[t] = "idle"
  PROVE  Told(t)'
<1>0. /\ at[t] = "lib" /\ CallStep(t) /\ pc[t] # "idle" /\ IInv /\ TypeOK
      /\ Approved(line[t]) /\ line[t] \in LineSpace /\ call[t] = CallOf(line[t])
  BY ToolFacts, CallFrame DEF Library, Place
<1>1. CASE ConnectFails(t)
  <2>1. ret'[t] # 0 /\ result'[t] = -1 /\ call' = call
    BY <1>0, <1>1, Ints, WordAssumption DEF ConnectFails, TeeOpenFails, TEE_FAILURE, TypeOK
  <2> QED BY <2>1 DEF Told, HasBuffer
<1>2. CASE Connect(t) \/ Process_cmd(t)
  BY <1>0, <1>2 DEF Connect, TeeOpen, Process_cmd, ProcessCmd, SendCmd, SendCmdFails, SelectReady,
                    SelectGivesUp, RecvCmd, RecvCmdFails, Goto, TypeOK
<1>3. CASE GetReject(t)
  BY <1>0, <1>3, AcceptedCall, CallOps DEF GetReject, Approved
<1>4. ASSUME pc[t] = "check", ret[t] # 0
      PROVE  AsInt(ret[t]) = -1 /\ AsInt(Minus(ret[t])) = 1
  BY <1>0, <1>4, Checked, Ints DEF TEE_SUCCESSFUL
<1>5. ASSUME pc[t] = "check", ret[t] = 0
      PROVE  /\ LinkOf(t).req = {}
             /\ resp[t].status # 0 =>
                  \E e \in Codes : AsInt(Minus(resp[t].status)) = -e /\ -e \in Int /\ -e < 0
  BY <1>0, <1>5, Checked, Ints DEF TEE_SUCCESSFUL
<1>6. CASE LockReturn(t)
  <2>1. \E v \in {-1, 0} :
          ReturnClosing(t, v) \/ (ReturnLeaking(t, v) /\ ret[t] # 0)
    BY <1>4, <1>6, Ints DEF LockReturn
  <2>2. pc[t] = "check" /\ call[t].op \in {"lock", "wipe"}
    BY <1>6 DEF LockReturn
  <2> QED BY <2>1, <2>2, ReturnTold
<1>7. CASE SetReturn(t)
  <2>1. pc[t] = "check" /\ call[t].op = "set" /\ call[t].size \in Nat
    BY <1>0, <1>7, Checked DEF SetReturn
  <2>2. CASE ret[t] # 0
    BY <1>4, <1>7, <2>1, <2>2, ReturnTold DEF SetReturn
  <2>3. CASE ret[t] = 0 /\ resp[t].status # 0
    BY <1>5, <1>7, <2>1, <2>3, ReturnTold DEF SetReturn
  <2>4. CASE ret[t] = 0 /\ resp[t].status = 0
    BY <1>7, <2>1, <2>4, ReturnTold DEF SetReturn
  <2> QED BY <2>2, <2>3, <2>4
<1>8. CASE GetReturn(t)
  <2>1. pc[t] = "check" /\ call[t].op = "get" /\ resp[t].bytes \in Int /\ NoMemory \in Int
    BY <1>0, <1>8, Checked, Ints, AcdAssumption DEF GetReturn, Rsp, Codes
  <2>2. CASE ret[t] # 0
    BY <1>4, <1>8, <2>1, <2>2, ReturnTold DEF GetReturn
  <2>3. CASE ret[t] = 0 /\ resp[t].status \notin {0, WriteOnly}
    BY <1>5, <1>8, <2>1, <2>3, ReturnTold DEF GetReturn
  <2>4. CASE ret[t] = 0 /\ resp[t].status \in {0, WriteOnly}
    BY <1>8, <2>1, <2>4, ReturnTold DEF GetReturn
  <2> QED BY <2>2, <2>3, <2>4
<1>9. CASE ProvReturn(t)
  <2>1. /\ pc[t] = "check" /\ call[t].op = "prov" /\ call[t].out /\ NoMemory \in Int
        /\ NoMemory # 0
    BY <1>0, <1>9, CallOps, Ints DEF ProvReturn, Approved, Codes
  <2>2. CASE ret[t] # 0
    BY <1>4, <1>9, <2>1, <2>2, ReturnTold DEF ProvReturn
  <2>3. CASE ret[t] = 0 /\ resp[t].status # 0
    BY <1>5, <1>9, <2>1, <2>3, ReturnTold DEF ProvReturn
  <2>4. CASE ret[t] = 0 /\ resp[t].status = 0
    BY <1>5, <1>9, <2>1, <2>4, ReturnTold DEF ProvReturn
  <2> QED BY <2>2, <2>3, <2>4
<1> QED BY <1>0, <1>1, <1>2, <1>3, <1>6, <1>7, <1>8, <1>9 DEF CallStep, Return

LEMMA LibraryStep ==
  ASSUME ToolIInv, NEW t \in Thread, Library(t) PROVE ToolIInv'
<1>1. at[t] = "lib" /\ CallStep(t) /\ UNCHANGED <<at, line, exit, out, gpp, locked, torn>>
  BY DEF Library, toolVars, gppVars
<1>2. IInv' /\ TypeOK'
  BY <1>1, ToolFacts, ConnectStep, ConnectFailsStep, SendCmdStep, SendCmdFailsStep, SelectStep,
     RecvCmdStep, RecvCmdFailsStep, GetRejectStep, LockReturnStep, SetReturnStep, GetReturnStep,
     ProvReturnStep
     DEF CallStep, Process_cmd, ProcessCmd, Return, IInv
<1>3. (\A u \in Thread \ {t} : ToolFrame(u)) /\ call' = call
  BY <1>1, ToolFacts, CallFrame DEF ToolFrame
<1>4. out[t] = "old" /\ Approved(line[t]) /\ call[t] = CallOf(line[t])
  BY <1>1, ToolFacts DEF Place
<1>5. Approved(line[t])'
  BY <1>1, <1>4
<1>6. Place(t)'
  BY <1>1, <1>3, <1>4, <1>5, LibraryTold DEF Place, Selecting
<1>7. Selected(t)' /\ Outcome(t)'
  BY <1>1, <1>4, ToolFacts DEF Selected, Selecting, Outcome, Exited
<1>8. ToolTypeOK'
  BY <1>1, <1>2, ToolFacts DEF ToolTypeOK
<1> QED BY <1>1, <1>2, <1>3, <1>6, <1>7, <1>8, ToolFacts, ToolCompose DEF Tool, GppKept

(* The firmware answers on descriptor f of process p.                      *)
LEMMA ToolFwStep ==
  ASSUME ToolIInv, NEW p \in Process, NEW f \in Fd, FwStep(p, f), UNCHANGED toolVars
  PROVE  ToolIInv'
<1>0. IInv /\ TypeOK /\ TxeiTypeOK(Calls, Rsp) /\ HandlesExclusive
  BY ByTool DEF IInv, TypeOK
<1>1. IInv' /\ TypeOK'
  BY <1>0, FwAcceptsStep, FwRefusesStep DEF FwStep, IInv
<1>2. UNCHANGED <<at, line, exit, out, gpp, locked, torn, pc, ret, resp, call, result>>
  BY DEF toolVars, gppVars, FwStep, FwAccepts, FwRefuses
<1>3. link[p][f].req # {} /\ \E r : MeiAnswer(p, f, r)
  BY DEF FwStep, FwAccepts, FwRefuses
<1>4. ASSUME NEW u \in Thread, ~(ProcOf[u] = p /\ fd[u] = f)
      PROVE  Tool(u)'
  <2>1. Untouched(u)
    BY <1>0, <1>3, <1>4, ToolFacts, Facts DEF MeiAnswer, Untouched, LinkOf, TxeiTypeOK
  <2>2. fate'[u] = fate[u]
    BY <1>0, <1>4 DEF FwStep, FwAccepts, FwRefuses, Waiting, TypeOK
  <2> QED BY <1>2, <2>1, <2>2, ToolFacts, ToolFramed DEF ToolFrame, Keeps, GppKept
<1>5. ASSUME NEW u \in Thread, ProcOf[u] = p, fd[u] = f
      PROVE  Tool(u)'
  <2>1. fd[u] # NoFd /\ LinkOf(u).req # {}
    BY <1>3, <1>5, TxeiAssumption DEF Fd, NoFd, LinkOf
  <2>2. at[u] = "lib" /\ out[u] = "old" /\ Approved(line[u]) /\ call[u] = CallOf(line[u])
    BY <2>1, ToolFacts DEF Place, Unborn, Stages, Selecting
  <2>3. pc[u] = "idle" => Told(u)'
    BY <1>2, <2>1, <2>2, ToolFacts DEF Place, Told, HasBuffer
  <2>4. Approved(line[u])'
    BY <1>2, <2>2
  <2>5. Place(u)'
    BY <1>2, <2>2, <2>3, <2>4 DEF Place, Selecting
  <2> QED BY <1>2, <2>2, <2>5, ToolFacts DEF Tool, Selected, Selecting, Outcome, Exited
<1>6. \A u \in Thread : Tool(u)'
  BY <1>4, <1>5
<1>7. ToolTypeOK'
  BY <1>1, <1>2, ByTool DEF ToolTypeOK
<1> QED BY <1>1, <1>6, <1>7 DEF ToolIInv, Tool, Outcome, FailureNotDone, SuccessDone, OldFileKept,
                                OutputNotLost, OnlySoftfuse

-----------------------------------------------------------------------------
(* What each command makes of what the library returned.                   *)

(* What the tool knows when the library has returned to command cmd.       *)
LEMMA BackFacts ==
  ASSUME ToolIInv, NEW t \in Thread, NEW cmds, BackFrom(t, cmds)
  PROVE  /\ at[t] = "lib" /\ pc[t] = "idle" /\ line[t].cmd \in cmds
         /\ out[t] = "old" /\ Told(t) /\ Approved(line[t]) /\ line[t] \in LineSpace
         /\ call[t] = CallOf(line[t]) /\ Returned(t) /\ Settled(t)
<1>1. at[t] = "lib" /\ pc[t] = "idle" /\ line[t].cmd \in cmds
  BY DEF BackFrom
<1>2. /\ out[t] = "old" /\ Told(t) /\ Approved(line[t]) /\ call[t] = CallOf(line[t])
      /\ line[t] \in LineSpace /\ Settled(t)
  BY <1>1, ToolFacts, Facts DEF Place
<1>3. call[t] # NoCall
  BY <1>2, CallOps DEF Approved, NoCall
<1> QED BY <1>1, <1>2, <1>3 DEF Returned

LEMMA LockDoneStep ==
  ASSUME ToolIInv, NEW t \in Thread, LockDone(t) PROVE ToolIInv'
<1>1. PICK v \in {0, 1} : Exit(t, v)
  BY DEF LockDone, EXIT_SUCCESS, EXIT_FAILURE
<1>2. BackFrom(t, {"acd-lock", "acd-wipe"}) /\ out' = out
  BY DEF LockDone
<1>3. Outcome(t)'
  BY <1>1, <1>2, BackFacts, ExitKeeps DEF Outcome, Exited
<1> QED BY <1>1, <1>2, <1>3, BackFacts, ToolFacts, ExitStep DEF ToolTypeOK

LEMMA WriteDoneStep ==
  ASSUME ToolIInv, NEW t \in Thread, WriteDone(t) PROVE ToolIInv'
<1>1. PICK v \in {0, 1} : Exit(t, v) /\ (v = 1 <=> result[t] < 0)
  BY DEF WriteDone, EXIT_SUCCESS, EXIT_FAILURE
<1>2. BackFrom(t, {"acd-write"}) /\ out' = out
  BY DEF WriteDone
<1>3. /\ line[t].cmd = "acd-write" /\ out[t] = "old" /\ Told(t) /\ Returned(t) /\ Settled(t)
      /\ Approved(line[t]) /\ line[t] \in LineSpace
      /\ call[t].op = "set" /\ call[t].size = DataSize(line[t])
  BY <1>2, BackFacts, CallOps
<1>4. v = 1 => fate[t] # "done"
  BY <1>1, <1>3 DEF Settled
<1>5. ASSUME "empty" \notin Faults, v = 0, result[t] # 1
      PROVE  fate[t] = "done"
  <2>1. result[t] = call[t].size
    BY <1>1, <1>3, <1>5 DEF Told
  <2>2. DataSize(line[t]) # 0 /\ DataSize(line[t]) <= MaxData
    BY <1>3 DEF Approved, InputOk, LineOk, WriteOk
  <2>3. DataSize(line[t]) \in Nat
    BY <1>3 DEF DataSize, LineSpace
  <2>4. Succeeded(t)
    BY <1>3, <1>5, <2>1, <2>2, <2>3, AcdAssumption DEF Succeeded
  <2> QED BY <1>3, <1>5, <2>4, ToolFacts, SuccessTells
<1>6. /\ exit'[t] = v /\ UNCHANGED <<line, fate, result, resp>>
      /\ t \notin torn' => locked'[t] \subseteq {Softfuse}
  BY <1>1, ExitKeeps
<1>7. Outcome(t)'
  BY <1>2, <1>3, <1>4, <1>5, <1>6 DEF Outcome, Exited
<1> QED BY <1>1, <1>2, <1>7, BackFacts, ToolFacts, ExitStep DEF ToolTypeOK

LEMMA ReadDoneStep ==
  ASSUME ToolIInv, NEW t \in Thread, ReadDone(t) PROVE ToolIInv'
<1>1. PICK v \in {0, 1} : Exit(t, v)
  BY DEF ReadDone, EXIT_SUCCESS, EXIT_FAILURE
<1>2. BackFrom(t, {"acd-read"}) /\ out' = out
  BY DEF ReadDone
<1>3. Outcome(t)'
  BY <1>1, <1>2, BackFacts, ExitKeeps DEF Outcome, Exited
<1> QED BY <1>1, <1>2, <1>3, BackFacts, ToolFacts, ExitStep DEF ToolTypeOK

(* The low byte of the status of a failed provisioning is not 0.           *)
LEMMA LowByte ==
  ASSUME NEW e \in Codes
  PROVE  e % 256 # 0 /\ (-e) % 256 # 0 /\ e \in Nat
<1>1. e \in Nat /\ e % 256 # 0
  BY Ints, ExitAssumption
<1> QED BY <1>1

LEMMA ProvDoneStep ==
  ASSUME ToolIInv, NEW t \in Thread, ProvDone(t) PROVE ToolIInv'
<1>1. /\ Exit(t, result[t]) /\ BackFrom(t, {"acd-prov"}) /\ out' = out
      /\ result[t] # 0 \/ resp[t].bytes = 0
  BY DEF ProvDone
<1>2. /\ line[t].cmd = "acd-prov" /\ out[t] = "old" /\ Told(t) /\ Returned(t) /\ Settled(t)
      /\ call[t].op = "prov"
  BY <1>1, BackFacts, CallOps
<1>3. /\ exit'[t] = result[t] % 256 /\ result[t] \in Int
      /\ UNCHANGED <<line, fate, result, resp>>
      /\ t \notin torn' => locked'[t] \subseteq {Softfuse}
  BY <1>1, ExitKeeps, ToolFacts
<1>4. result[t] \in {0, 1, NoMemory, -1} \/ \E e \in Codes : result[t] = -e
  BY <1>2 DEF Told
<1>5. NoMemory \in Codes
  BY DEF Codes
<1>6. exit'[t] \notin {0, 1, NoMemory % 256} => result[t] < 0
  <2>1. 0 % 256 = 0 /\ 1 % 256 = 1
    OBVIOUS
  <2>2. \A e \in Codes : -e < 0
    BY Ints
  <2> QED BY <1>3, <1>4, <2>1, <2>2
<1>7. exit'[t] = 0 => result[t] = 0
  <2>1. 1 % 256 # 0 /\ (-1) % 256 # 0
    <3>1. \A i \in Nat : i % 256 # 0 => (-i) % 256 # 0
      OBVIOUS
    <3> QED BY <3>1
  <2> QED BY <1>3, <1>4, <1>5, <2>1, LowByte
<1>8. "empty" \notin Faults /\ result[t] = 0 => fate[t] = "done"
  BY <1>2, ToolFacts, SuccessTells DEF Succeeded
<1>9. result[t] < 0 => fate[t] # "done"
  BY <1>2 DEF Settled
<1>10. resp[t].bytes = 0 => ~(resp[t].bytes > 0)
  OBVIOUS
<1>11. Outcome(t)'
  BY <1>1, <1>2, <1>3, <1>6, <1>7, <1>8, <1>9, <1>10 DEF Outcome, Exited
<1> QED BY <1>1, <1>3, <1>11, BackFacts, ToolFacts, ExitStep DEF ToolTypeOK

-----------------------------------------------------------------------------
(* The output file.                                                        *)

(* The output file is written once the library has closed its connection,  *)
(* and to carried out commands only.                                       *)
LEMMA OutputStage ==
  ASSUME ToolIInv, NEW t \in Thread, NEW cmd, BackFrom(t, {cmd}),
         cmd \in {"acd-read", "acd-prov"}, To(t, "output"),
         UNCHANGED <<vars, line, exit, out, gpp, locked, torn>>,
         fd[t] = NoFd, fate[t] = "done", resp[t].bytes > 0
  PROVE  ToolIInv'
<1>1. UNCHANGED <<fd, pc, call, fate, resp>> /\ at'[t] = "output"
  BY ToolFacts DEF vars, teeVars, txeiVars, To, ToolTypeOK
<1>2. /\ at[t] = "lib" /\ pc[t] = "idle" /\ line[t].cmd = cmd /\ out[t] = "old"
      /\ Approved(line[t]) /\ call[t] = CallOf(line[t])
  BY BackFacts
<1>3. Approved(line[t])'
  BY <1>2
<1>4. Place(t)'
  BY <1>1, <1>2, <1>3 DEF Place, Selecting
<1>5. Selected(t)'
  BY <1>1 DEF Selected, Selecting
<1>6. GppKept /\ gpp' \in Pair /\ (t \notin torn => locked'[t] \subseteq {Softfuse})
  BY ToolFacts DEF GppKept, Outcome
<1> QED BY <1>2, <1>4, <1>5, <1>6, ToolFacts, MoveTool DEF Stages

LEMMA ReadOutputStep ==
  ASSUME ToolIInv, NEW t \in Thread, ReadOutput(t) PROVE ToolIInv'
<1>1. /\ BackFrom(t, {"acd-read"}) /\ result[t] > 0 /\ HasBuffer(t)
      /\ To(t, "output") /\ UNCHANGED <<vars, line, exit, out, gpp, locked, torn>>
  BY DEF ReadOutput, gppVars
<1>2. Told(t) /\ Returned(t) /\ Settled(t) /\ call[t].op = "get"
  BY <1>1, BackFacts, CallOps
<1>3. fd[t] = NoFd
  BY <1>2 DEF Settled
<1>4. resp[t].bytes > 0 /\ fate[t] = "done"
  BY <1>1, <1>2 DEF Told, HasBuffer
<1> QED BY <1>1, <1>3, <1>4, OutputStage

LEMMA ProvOutputStep ==
  ASSUME ToolIInv, NEW t \in Thread, ProvOutput(t) PROVE ToolIInv'
<1>1. /\ BackFrom(t, {"acd-prov"}) /\ result[t] = 0 /\ resp[t].bytes > 0
      /\ To(t, "output") /\ UNCHANGED <<vars, line, exit, out, gpp, locked, torn>>
  BY DEF ProvOutput, gppVars
<1>2. Told(t) /\ Returned(t) /\ Settled(t) /\ call[t].op = "prov"
  BY <1>1, BackFacts, CallOps
<1>3. fd[t] = NoFd
  BY <1>1, <1>2 DEF Settled, Succeeded
<1>4. fate[t] = "done"
  BY <1>1, <1>2 DEF Told
<1> QED BY <1>1, <1>3, <1>4, OutputStage

LEMMA OutputLeft ==
  ASSUME ToolIInv, NEW t \in Thread, NEW v \in {0, 1}, Exit(t, v), at[t] = "output",
         NEW o \in {"old", "cut", "new"}, out' = [out EXCEPT ![t] = o],
         v = 0 /\ line[t].cmd = "acd-prov" => o = "new"
  PROVE  ToolIInv'
<1>1. /\ pc[t] = "idle" /\ line[t].cmd \in {"acd-read", "acd-prov"}
      /\ fate[t] = "done" /\ resp[t].bytes > 0
  BY ToolFacts DEF Place
<1>2. /\ out'[t] = o /\ out' \in [Thread -> {"old", "cut", "new"}]
      /\ \A u \in Thread \ {t} : out'[u] = out[u]
  BY ToolFacts DEF ToolTypeOK
<1>3. /\ exit'[t] = v /\ UNCHANGED <<line, fate, resp>>
      /\ t \notin torn' => locked'[t] \subseteq {Softfuse}
  BY ExitKeeps
<1>4. Outcome(t)'
  BY <1>1, <1>2, <1>3 DEF Outcome, Exited
<1> QED BY <1>1, <1>2, <1>4, ToolFacts, ExitStep

LEMMA WriteOutputStep ==
  ASSUME ToolIInv, NEW t \in Thread, OutputStep(t) PROVE ToolIInv'
<1>1. CASE WriteOutput(t)
  BY <1>1, OutputLeft DEF WriteOutput, EXIT_SUCCESS
<1>2. CASE WriteOutputFails(t)
  <2>1. PICK o \in {"old", "cut", "new"} : out' = [out EXCEPT ![t] = o]
    BY <1>2 DEF WriteOutputFails
  <2>2. at[t] = "output" /\ Exit(t, IF line[t].cmd = "acd-prov" THEN 1 ELSE 0)
    BY <1>2 DEF WriteOutputFails, EXIT_SUCCESS, EXIT_FAILURE
  <2>3. CASE line[t].cmd = "acd-prov"
    <3>1. Exit(t, 1) /\ ~(1 = 0 /\ line[t].cmd = "acd-prov")
      BY <2>2, <2>3
    <3> QED BY <2>1, <2>2, <3>1, OutputLeft
  <2>4. CASE line[t].cmd # "acd-prov"
    <3>1. Exit(t, 0)
      BY <2>2, <2>4
    <3> QED BY <2>1, <2>2, <2>4, <3>1, OutputLeft
  <2> QED BY <2>3, <2>4
<1> QED BY <1>1, <1>2 DEF OutputStep

-----------------------------------------------------------------------------
(* The write protection of the softfuses.                                  *)

(* A step to another stage of it.                                          *)
LEMMA SelectingStep ==
  ASSUME ToolIInv, NEW t \in Thread, at[t] \in Selecting, NEW to \in Selecting, To(t, to),
         UNCHANGED <<vars, line, exit, out, torn>>,
         gpp' \in Pair, GppKept, NEW L \in SUBSET Pair, locked' = [locked EXCEPT ![t] = L],
         t \notin torn => L \subseteq {Softfuse},
         to \in {"lockGroup", "lock"} /\ t \notin torn => gpp'.part = 1,
         to = "lock" /\ t \notin torn => gpp'.group = 0,
         to \in {"part", "group", "status"} /\ line[t].cmd = "gpp-wp-lock" =>
           t \in torn \/ Softfuse \in L
  PROVE  ToolIInv'
<1>1. UNCHANGED <<fd, pc, call, fate>> /\ at'[t] = to
  BY ToolFacts DEF vars, teeVars, txeiVars, To, ToolTypeOK
<1>2. /\ Unborn(t) /\ pc[t] = "idle" /\ line[t].cmd \in {"gpp-wp-lock", "gpp-wp-status"}
  BY ToolFacts DEF Place, Selected, Selecting
<1>3. Place(t)'
  BY <1>1, <1>2 DEF Place, Selecting, Unborn
<1>6. /\ locked'[t] = L /\ locked' \in [Thread -> SUBSET Pair]
      /\ \A u \in Thread \ {t} : locked'[u] = locked[u]
  BY ToolFacts
<1>4. Selected(t)'
  BY <1>1, <1>2, <1>6 DEF Selected
<1>5. to \in Stages \ {"shell"} /\ at[t] # "shell"
  BY DEF Selecting, Stages
<1> QED BY <1>3, <1>4, <1>5, <1>6, MoveTool

LEMMA GppExit ==
  ASSUME ToolIInv, NEW t \in Thread, at[t] \in Selecting, NEW v \in {0, 1}, Exit(t, v),
         out' = out, v = 0 => at[t] = "status"
  PROVE  ToolIInv'
<1>1. /\ Unborn(t) /\ pc[t] = "idle" /\ line[t].cmd \in {"gpp-wp-lock", "gpp-wp-status"}
      /\ at[t] = "status" /\ line[t].cmd = "gpp-wp-lock" => t \in torn \/ Softfuse \in locked[t]
      /\ t \notin torn => locked[t] \subseteq {Softfuse}
  BY ToolFacts DEF Place, Selected, Selecting, Outcome
<1>2. exit'[t] = v /\ UNCHANGED <<line, fate, gpp, locked, torn>>
  BY ExitKeeps
<1>3. Outcome(t)'
  BY <1>1, <1>2 DEF Outcome, Exited, Unborn
<1> QED BY <1>1, <1>3, ToolFacts, ExitStep DEF ToolTypeOK

LEMMA GppStepInv ==
  ASSUME ToolIInv, NEW t \in Thread, GppStep(t) PROVE ToolIInv'
<1>0. /\ gpp \in Pair /\ locked[t] \in SUBSET Pair
      /\ t \notin torn => locked[t] \subseteq {Softfuse}
  BY ToolFacts DEF Outcome
<1>1. CASE SelectPart(t)
  <2>1. /\ at[t] \in {"lockPart", "part"} /\ gpp' = [gpp EXCEPT !.part = 1]
        /\ To(t, IF at[t] = "part" THEN "group" ELSE "lockGroup")
        /\ UNCHANGED <<vars, line, exit, out, locked, torn>>
    BY <1>1 DEF SelectPart
  <2>2. gpp' \in Pair /\ GppKept /\ gpp'.part = 1
    BY <1>0, <2>1 DEF GppKept, Pair
  <2>3. at[t] = "part" /\ line[t].cmd = "gpp-wp-lock" => t \in torn \/ Softfuse \in locked[t]
    BY ToolFacts DEF Selected
  <2>6. locked' = [locked EXCEPT ![t] = locked[t]]
    BY <2>1, ToolFacts
  <2>4. CASE at[t] = "part"
    BY <1>0, <2>1, <2>2, <2>3, <2>4, <2>6, SelectingStep DEF Selecting
  <2>5. CASE at[t] = "lockPart"
    BY <1>0, <2>1, <2>2, <2>5, <2>6, SelectingStep DEF Selecting
  <2> QED BY <2>1, <2>4, <2>5
<1>2. CASE SelectGroup(t)
  <2>1. /\ at[t] \in {"lockGroup", "group"} /\ gpp' = [gpp EXCEPT !.group = 0]
        /\ To(t, IF at[t] = "group" THEN "status" ELSE "lock")
        /\ UNCHANGED <<vars, line, exit, out, locked, torn>>
    BY <1>2 DEF SelectGroup
  <2>2. /\ at[t] = "lockGroup" /\ t \notin torn => gpp.part = 1
        /\ at[t] = "group" /\ line[t].cmd = "gpp-wp-lock" =>
             t \in torn \/ Softfuse \in locked[t]
    BY <2>1, ToolFacts DEF Selected
  <2>3. gpp' \in Pair /\ GppKept /\ gpp'.part = gpp.part /\ gpp'.group = 0
    BY <1>0, <2>1 DEF GppKept, Pair
  <2>6. locked' = [locked EXCEPT ![t] = locked[t]]
    BY <2>1, ToolFacts
  <2>4. CASE at[t] = "group"
    BY <1>0, <2>1, <2>2, <2>3, <2>4, <2>6, SelectingStep DEF Selecting
  <2>5. CASE at[t] = "lockGroup"
    BY <1>0, <2>1, <2>2, <2>3, <2>5, <2>6, SelectingStep DEF Selecting
  <2> QED BY <2>1, <2>4, <2>5
<1>3. CASE ProtectGpp(t)
  <2>1. /\ at[t] = "lock" /\ To(t, "part") /\ UNCHANGED <<vars, line, exit, out, gpp, torn>>
        /\ locked' = [locked EXCEPT ![t] = {gpp}]
    BY <1>3 DEF ProtectGpp
  <2>2. t \notin torn => gpp.part = 1 /\ gpp.group = 0
    BY <2>1, ToolFacts DEF Selected
  <2>3. t \notin torn => gpp = Softfuse
    BY <1>0, <2>2 DEF Softfuse, Pair
  <2>4. gpp' \in Pair /\ GppKept /\ {gpp} \in SUBSET Pair
    BY <1>0, <2>1 DEF GppKept
  <2> QED BY <2>1, <2>3, <2>4, SelectingStep DEF Selecting
<1>4. CASE ReadStatus(t)
  BY <1>4, GppExit DEF ReadStatus, EXIT_SUCCESS, Selecting
<1>5. CASE GppFails(t)
  BY <1>5, GppExit DEF GppFails, EXIT_FAILURE
<1> QED BY <1>1, <1>2, <1>3, <1>4, <1>5 DEF GppStep

(* Another program selects: who has selected and not locked is torn.       *)
LEMMA SelectElsewhereStep ==
  ASSUME ToolIInv, SelectElsewhere PROVE ToolIInv'
<1>1. UNCHANGED <<vars, fd, files, link, pc, ret, resp, call, result, acd, fate,
                  at, line, exit, out, locked>>
  BY DEF SelectElsewhere, vars, teeVars, txeiVars
<1>2. IInv' /\ TypeOK'
  BY <1>1, ByTool, StutterInv DEF IInv
<1>3. gpp \in Pair /\ torn \subseteq Thread
  BY ByTool DEF ToolTypeOK, Pair
<1>4. /\ gpp' \in Pair /\ torn' \subseteq Thread /\ torn \subseteq torn'
      /\ \A t \in Thread :
           /\ at[t] \in {"lockGroup", "lock"} /\ t \notin torn' => gpp'.part = gpp.part
           /\ at[t] = "lock" /\ t \notin torn' => gpp'.group = gpp.group
  <2>1. CASE /\ \E n \in OtherParts : gpp' = [gpp EXCEPT !.part = n]
             /\ torn' = torn \cup {t \in Thread : at[t] \in {"lockGroup", "lock"}}
    BY <1>3, <2>1, SecToolAssumption DEF Pair
  <2>2. CASE /\ \E n \in OtherGroups : gpp' = [gpp EXCEPT !.group = n]
             /\ torn' = torn \cup {t \in Thread : at[t] = "lock"}
    BY <1>3, <2>2, SecToolAssumption DEF Pair
  <2> QED BY <2>1, <2>2 DEF SelectElsewhere
<1>5. ASSUME NEW t \in Thread PROVE Tool(t)'
  <2>1. Told(t) => Told(t)'
    BY <1>1 DEF Told, HasBuffer, LinkOf
  <2>2. Unborn(t) => Unborn(t)'
    BY <1>1 DEF Unborn
  <2>3. Place(t)'
    BY <1>1, <2>1, <2>2, ToolFacts DEF Place
  <2>4. Selected(t)'
    BY <1>1, <1>4, ToolFacts DEF Selected
  <2>5. Outcome(t)'
    BY <1>1, <1>4, ToolFacts DEF Outcome, Exited
  <2> QED BY <2>3, <2>4, <2>5 DEF Tool
<1>6. ToolTypeOK'
  BY <1>1, <1>2, <1>4, ByTool DEF ToolTypeOK, Pair
<1> QED BY <1>2, <1>5, <1>6 DEF ToolIInv, Tool, Outcome, FailureNotDone, SuccessDone, OldFileKept,
                                OutputNotLost, OnlySoftfuse

-----------------------------------------------------------------------------
LEMMA ToolInitInv ==
  ASSUME ToolInit PROVE ToolIInv
<1>1. IInv /\ TypeOK
  BY InitInv DEF ToolInit, IInv
<1>2. ToolTypeOK
  BY <1>1 DEF ToolInit, ToolTypeOK, Stages, LineSpace, NoLine, Commands, EXIT_FAILURE
<1>3. ASSUME NEW t \in Thread PROVE Tool(t)
  <2>1. at[t] = "shell" /\ pc[t] = "idle" /\ fd[t] = NoFd /\ out[t] = "old"
    BY DEF ToolInit, Init, TeeInit, TxeiInit
  <2>2. line[t].cmd = "help" /\ locked[t] = {}
    BY DEF ToolInit, NoLine
  <2> QED BY <2>1, <2>2 DEF Tool, Place, Selected, Selecting, Outcome, Exited
<1> QED BY <1>1, <1>2, <1>3, ByTool DEF ToolInit

LEMMA ToolStutter ==
  ASSUME ToolIInv, UNCHANGED allVars PROVE ToolIInv'
<1>1. UNCHANGED <<vars, fd, files, link, pc, ret, resp, call, result, acd, fate,
                  at, line, exit, out, gpp, locked, torn>>
  BY DEF allVars, vars, teeVars, txeiVars, toolVars, gppVars
<1>2. IInv' /\ TypeOK'
  BY <1>1, ByTool, StutterInv DEF IInv
<1>3. ASSUME NEW t \in Thread PROVE Tool(t)'
  BY <1>1, <1>3, ToolFacts, ToolFramed DEF ToolFrame, Keeps, Untouched, LinkOf, GppKept
<1>4. ToolTypeOK'
  BY <1>1, <1>2, ByTool DEF ToolTypeOK
<1> QED BY <1>2, <1>3, <1>4 DEF ToolIInv, Tool, Outcome, FailureNotDone, SuccessDone, OldFileKept,
                                OutputNotLost, OnlySoftfuse

(* Every step of the shells, the library and the firmware preserves        *)
(* ToolIInv.                                                               *)
LEMMA ToolNextInv ==
  ASSUME ToolIInv, [ToolNext]_allVars PROVE ToolIInv'
<1>1. ASSUME NEW t \in Thread, Run(t) \/ RunParsed(t) PROVE ToolIInv'
  BY <1>1, RunStep, RunParsedStep
<1>2. ASSUME NEW t \in Thread, InputStep(t) PROVE ToolIInv'
  BY <1>2, ReadInputStep, ReadInputFailsStep, InputTooLargeStep DEF InputStep
<1>3. ASSUME NEW t \in Thread, CallLibrary(t) \/ Library(t) PROVE ToolIInv'
  BY <1>3, CallLibraryStep, LibraryStep
<1>4. ASSUME NEW t \in Thread, DoneStep(t) PROVE ToolIInv'
  BY <1>4, LockDoneStep, WriteDoneStep, ReadDoneStep, ReadOutputStep, ProvDoneStep,
     ProvOutputStep DEF DoneStep
<1>5. ASSUME NEW t \in Thread, OutputStep(t) \/ GppStep(t) PROVE ToolIInv'
  BY <1>5, WriteOutputStep, GppStepInv
<1>6. ASSUME NEW p \in Process, NEW f \in Fd, FwStep(p, f), UNCHANGED toolVars
      PROVE  ToolIInv'
  BY <1>6, ToolFwStep
<1>7. CASE SelectElsewhere
  BY <1>7, SelectElsewhereStep
<1>8. CASE UNCHANGED allVars
  BY <1>8, ToolStutter
<1> QED BY <1>1, <1>2, <1>3, <1>4, <1>5, <1>6, <1>7, <1>8 DEF ToolNext, ToolStep

(* What a process has checked and been told, at each of its places, and    *)
(* the library's own invariant under the calls of the tool.                *)
THEOREM ToolInvariance == ToolSpec => []ToolIInv
<1>1. ToolInit => ToolIInv
  BY ToolInitInv
<1>2. ToolIInv /\ [ToolNext]_allVars => ToolIInv'
  BY ToolNextInv
<1> QED BY <1>1, <1>2, PTL DEF ToolSpec

(* Type correctness: exit statuses are bytes (sec_tools_app.c:585-950).    *)
THEOREM ToolTypeCorrect == ToolSpec => []ToolTypeOK
<1>1. ToolIInv => ToolTypeOK
  BY DEF ToolIInv
<1> QED BY <1>1, ToolInvariance, PTL

(* Numbers that pass the checks of main pass those of the library          *)
(* (sec_tools_app.c:652-757, umip_access.c:222-253, 354-361, 470-507).     *)
THEOREM LibraryAcceptsAll == ToolSpec => []LibraryAccepts
<1>1. ASSUME ToolIInv PROVE LibraryAccepts
  <2>1. ASSUME NEW t \in Thread, at[t] = "call"
        PROVE  Approved(line[t]) /\ line[t] \in LineSpace
    BY <1>1, <2>1, ToolFacts DEF Place
  <2> QED BY <2>1, AcceptedCall DEF LibraryAccepts
<1> QED BY <1>1, ToolInvariance, PTL

(* A failure of acd-write means that nothing was written; of acd-prov,     *)
(* unless its status is 1 or that of NoMemory, that nothing was            *)
(* provisioned (sec_tools_app.c:478-530, 892-925).                         *)
THEOREM FailuresNotDone == ToolSpec => []FailureNotDone
<1>1. ToolIInv => FailureNotDone
  BY DEF ToolIInv
<1> QED BY <1>1, ToolInvariance, PTL

(* Success of acd-write and acd-prov means that the firmware carried the   *)
(* command out, with the exceptions SuccessDone lists.                     *)
THEOREM SuccessesDone == ToolSpec => []SuccessDone
<1>1. ToolIInv => SuccessDone
  BY DEF ToolIInv
<1> QED BY <1>1, ToolInvariance, PTL

(* The output file is touched only when the firmware answered with data    *)
(* (misc_utils.c:205-283).                                                 *)
THEOREM OldFilesKept == ToolSpec => []OldFileKept
<1>1. ToolIInv => OldFileKept
  BY DEF ToolIInv
<1> QED BY <1>1, ToolInvariance, PTL

(* What provisioning returned is in the file, or acd-prov failed           *)
(* (sec_tools_app.c:478-530).                                              *)
THEOREM OutputsNotLost == ToolSpec => []OutputNotLost
<1>1. ToolIInv => OutputNotLost
  BY DEF ToolIInv
<1> QED BY <1>1, ToolInvariance, PTL

(* gpp-wp-lock protects the softfuses and nothing else, unless another     *)
(* program selected between its own selection and its lock                 *)
(* (sec_tools_app.c:125-298).                                              *)
THEOREM OnlySoftfuses == ToolSpec => []OnlySoftfuse
<1>1. ToolIInv => OnlySoftfuse
  BY DEF ToolIInv
<1> QED BY <1>1, ToolInvariance, PTL

=============================================================================
