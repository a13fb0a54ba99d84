--------------------------- MODULE ToolRefinement ---------------------------
(***************************************************************************)
(* SecTool implements AcdCommands, for any shells, command lines, faults   *)
(* and sizes: under the mapping at the end of SecTool, every step of a     *)
(* process or of the firmware is one step of the commands or none.         *)
(***************************************************************************)
EXTENDS SecToolProofs, AcdRefinement

(* What ToolIInv does not say of connections.  No descriptor is open that  *)
(* no process knows of, and what waits on the descriptor of a process is   *)
(* the command it runs, not decided yet, also when the call has returned.  *)
Held ==
  \A p \in Process : \A f \in files[p] : \E t \in Thread : ProcOf[t] = p /\ fd[t] = f

Pending(t) ==
  fd[t] # NoFd /\ LinkOf(t).req # {} => LinkOf(t).req = {call[t]} /\ fate[t] = "none"

TInv == ToolIInv /\ Traffic /\ Held /\ \A t \in Thread : Pending(t)

LEMMA TFacts ==
  ASSUME TInv, NEW t \in Thread
  PROVE  /\ ToolIInv /\ IInv /\ RInv /\ Traffic /\ Held /\ Pending(t)
         /\ TypeOK /\ TxeiTypeOK(Calls, Rsp) /\ HandlesExclusive
         /\ ProcOf[t] \in Process
BY ToolFacts, Facts DEF TInv, RInv

-----------------------------------------------------------------------------
(* TInv is inductive.                                                      *)

LEMMA HeldOpens ==
  ASSUME TypeOK, Held, NEW t \in Thread, MeiConnect(t), fd[t] = NoFd
  PROVE  Held'
<1>1. PICK f \in Fd : /\ fd' = [fd EXCEPT ![t] = f]
                      /\ files' = [files EXCEPT ![ProcOf[t]] = @ \cup {f}]
  BY DEF MeiConnect, FreeFd
<1>2. ASSUME NEW p \in Process, NEW g \in files'[p]
      PROVE  \E u \in Thread : ProcOf[u] = p /\ fd'[u] = g
  <2>1. CASE g \in files[p]
    <3>1. PICK u \in Thread : ProcOf[u] = p /\ fd[u] = g
      BY <2>1 DEF Held
    <3>2. g # NoFd
      BY <2>1, TxeiAssumption DEF TypeOK, TxeiTypeOK, Fd, NoFd
    <3> QED BY <1>1, <3>1, <3>2 DEF TypeOK, TxeiTypeOK
  <2>2. CASE g \notin files[p]
    BY <1>1, <1>2, <2>2, TxeiAssumption DEF TypeOK, TxeiTypeOK
  <2> QED BY <2>1, <2>2
<1> QED BY <1>2 DEF Held

LEMMA HeldCloses ==
  ASSUME TypeOK, Held, NEW t \in Thread, MeiDisconnect(t)
  PROVE  Held'
<1>1. /\ fd' = [fd EXCEPT ![t] = NoFd]
      /\ files' = [files EXCEPT ![ProcOf[t]] = @ \ {fd[t]}]
  BY DEF MeiDisconnect
<1>2. ASSUME NEW p \in Process, NEW g \in files'[p]
      PROVE  \E u \in Thread : ProcOf[u] = p /\ fd'[u] = g
  <2>1. g \in files[p] /\ ~(p = ProcOf[t] /\ g = fd[t])
    BY <1>1, <1>2, TxeiAssumption DEF TypeOK, TxeiTypeOK
  <2>2. PICK u \in Thread : ProcOf[u] = p /\ fd[u] = g
    BY <2>1 DEF Held
  <2> QED BY <1>1, <2>1, <2>2 DEF TypeOK, TxeiTypeOK
<1> QED BY <1>2 DEF Held

LEMMA HeldStays ==
  ASSUME Held, UNCHANGED <<fd, files>> PROVE Held'
BY DEF Held

(* A process in a call: what waits is its command.                         *)
LEMMA PendingInCall ==
  ASSUME IInv, NEW t \in Thread, pc[t] # "idle"
  PROVE  Pending(t)
<1>1. OnConnection(t) /\ pc[t] \in Places
  BY Facts DEF TypeOK
<1> QED BY <1>1 DEF Pending, OnConnection, Places, InFlight, Unsent, Taken, NoTraffic

LEMMA PendingInCallNext ==
  ASSUME IInv', NEW t \in Thread, pc'[t] # "idle"
  PROVE  Pending(t)'
<1>1. OnConnection(t)' /\ pc'[t] \in Places
  BY DEF IInv, TypeOK
<1> QED BY <1>1 DEF Pending, OnConnection, Places, InFlight, Unsent, Taken, NoTraffic

LEMMA PendingKept ==
  ASSUME NEW u \in Thread, Pending(u), Keeps(u)
  PROVE  Pending(u)'
BY DEF Pending, Keeps, Untouched

(* To prove the invariant after a step of process t.                       *)
LEMMA TCompose ==
  ASSUME TInv, NEW t \in Thread, ToolIInv', Traffic', Held', Pending(t)',
         \A u \in Thread \ {t} : Keeps(u)
  PROVE  TInv'
<1>1. ASSUME NEW u \in Thread \ {t} PROVE Pending(u)'
  BY <1>1, TFacts, PendingKept
<1> QED BY <1>1 DEF TInv

(* A step that leaves the library and the connections alone.               *)
LEMMA TQuiet ==
  ASSUME TInv, NEW t \in Thread, ToolIInv', UNCHANGED txeiVars,
         fd[t] = NoFd, \A u \in Thread \ {t} : Keeps(u)
  PROVE  TInv'
<1>1. UNCHANGED <<fd, files, link>>
  BY DEF txeiVars
<1>2. Traffic' /\ Held'
  BY <1>1, TFacts, HeldStays DEF Traffic
<1>3. Pending(t)'
  BY <1>1 DEF Pending
<1> QED BY <1>2, <1>3, TCompose

(* A step that leaves all of the library alone.                            *)
LEMMA TStill ==
  ASSUME TInv, ToolIInv', UNCHANGED vars
  PROVE  TInv'
<1>1. UNCHANGED <<fd, files, link, call, fate>>
  BY DEF vars, teeVars, txeiVars
<1>2. Traffic' /\ Held'
  BY <1>1, HeldStays DEF Traffic, TInv
<1>3. \A t \in Thread : Pending(t)'
  BY <1>1 DEF Pending, LinkOf, TInv
<1> QED BY <1>2, <1>3 DEF TInv

LEMMA TRun ==
  ASSUME TInv, NEW t \in Thread, Run(t) \/ RunParsed(t), ToolIInv'
  PROVE  TInv'
<1>1. at[t] = "shell" /\ \E l : NewProcess(t, l)
  BY DEF Run, RunParsed
<1>2. fd[t] = NoFd
  BY <1>1, TFacts, ToolFacts DEF Place
<1>3. UNCHANGED txeiVars /\ \A u \in Thread \ {t} : Keeps(u)
  BY <1>1, TFacts DEF NewProcess, TypeOK, txeiVars, Keeps, Untouched, LinkOf
<1> QED BY <1>2, <1>3, TQuiet

LEMMA TExit ==
  ASSUME TInv, NEW t \in Thread, NEW v \in Int, Exit(t, v), ToolIInv'
  PROVE  TInv'
<1>1. UNCHANGED <<pc, ret, resp, call, result, fate>>
  BY DEF Exit
<1>2. CASE fd[t] = NoFd
  <2>1. UNCHANGED txeiVars
    BY <1>2 DEF Exit
  <2>2. \A u \in Thread \ {t} : Keeps(u)
    BY <1>1, <2>1 DEF txeiVars, Keeps, Untouched, LinkOf
  <2> QED BY <1>2, <2>1, <2>2, TQuiet
<1>3. CASE fd[t] # NoFd
  <2>1. MeiDisconnect(t)
    BY <1>3 DEF Exit
  <2>2. Traffic' /\ Held'
    BY <2>1, TFacts, TrafficCloses, HeldCloses
  <2>3. OthersUntouched(t) /\ fd'[t] = NoFd
    BY <1>3, <2>1, TFacts, MeiDisconnectStep
  <2>4. \A u \in Thread \ {t} : Keeps(u)
    BY <1>1, <2>3 DEF OthersUntouched, Keeps
  <2>5. Pending(t)'
    BY <2>3 DEF Pending
  <2> QED BY <2>2, <2>4, <2>5, TCompose
<1> QED BY <1>2, <1>3

LEMMA TCall ==
  ASSUME TInv, NEW t \in Thread, CallLibrary(t), ToolIInv'
  PROVE  TInv'
<1>1. Begin(t) /\ at[t] = "call"
  BY DEF CallLibrary
<1>2. fd[t] = NoFd
  BY <1>1, TFacts, ToolFacts DEF Place, Unborn
<1>3. ForgetHandle(t) /\ fd' = [fd EXCEPT ![t] = NoFd] /\ UNCHANGED <<files, link>>
  BY <1>1 DEF Begin, ForgetHandle
<1>4. fd' = fd
  BY <1>2, <1>3, TFacts DEF TxeiTypeOK
<1>5. UNCHANGED txeiVars
  BY <1>3, <1>4 DEF txeiVars
<1>6. \A u \in Thread \ {t} : Keeps(u)
  BY <1>1, <1>5, TFacts DEF Begin, Goto, TypeOK, txeiVars, Keeps, Untouched, LinkOf
<1> QED BY <1>2, <1>5, <1>6, TQuiet

LEMMA TLibrary ==
  ASSUME TInv, NEW t \in Thread, Library(t), ToolIInv'
  PROVE  TInv'
<1>0. IInv /\ RInv /\ TypeOK /\ TxeiTypeOK(Calls, Rsp) /\ Held /\ IInv'
  BY TFacts DEF ToolIInv
<1>1. CallStep(t)
  BY DEF Library
<1>2. (\A u \in Thread \ {t} : Keeps(u)) /\ pc[t] # "idle"
  BY <1>0, <1>1, CallFrame
<1>3. Traffic'
  BY <1>0, <1>1, TrafficStep DEF Next
<1>4. PICK v : \/ Connect(t) \/ ConnectFails(t) \/ Process_cmd(t)
               \/ ReturnClosing(t, v) \/ ReturnLeaking(t, v)
  BY <1>1, ReturnForms DEF CallStep
<1>5. Held'
  <2>1. CASE Connect(t)
    <3>1. MeiConnect(t) /\ fd[t] = NoFd
      BY <1>0, <2>1, Facts DEF Connect, TeeOpen, OnConnection
    <3> QED BY <1>0, <3>1, HeldOpens
  <2>2. CASE ConnectFails(t) \/ ReturnLeaking(t, v)
    BY <1>0, <2>2, HeldStays DEF ConnectFails, TeeOpenFails, MeiConnectFails, ReturnLeaking,
                                 txeiVars
  <2>3. CASE Process_cmd(t)
    <3>1. UNCHANGED <<fd, files>>
      BY <2>3 DEF Process_cmd, ProcessCmd, SendCmd, MeiWrite, SendCmdFails, MeiWriteFails,
                  SelectReady, SelectGivesUp, RecvCmd, MeiRead, RecvCmdFails, MeiReadFails,
                  txeiVars
    <3> QED BY <1>0, <3>1, HeldStays
  <2>4. CASE ReturnClosing(t, v)
    BY <1>0, <2>4, HeldCloses DEF ReturnClosing
  <2> QED BY <1>4, <2>1, <2>2, <2>3, <2>4
<1>6. Pending(t)'
  <2>1. CASE pc'[t] # "idle"
    BY <1>0, <2>1, PendingInCallNext
  <2>2. CASE ConnectFails(t) \/ ReturnLeaking(t, v)
    <3>1. UNCHANGED <<fd, link, call, fate>>
      BY <2>2 DEF ConnectFails, TeeOpenFails, MeiConnectFails, ReturnLeaking, txeiVars
    <3>2. Pending(t)
      BY TFacts
    <3> QED BY <3>1, <3>2 DEF Pending, LinkOf
  <2>3. CASE ReturnClosing(t, v)
    <3>1. fd'[t] = NoFd
      BY <1>0, <2>3 DEF ReturnClosing, MeiDisconnect, TxeiTypeOK
    <3> QED BY <3>1 DEF Pending
  <2>4. CASE Connect(t) \/ Process_cmd(t)
    <3>1. pc'[t] # "idle"
      BY <1>0, <2>4 DEF Connect, TeeOpen, Process_cmd, ProcessCmd, SendCmd, SendCmdFails,
                        SelectReady, SelectGivesUp, RecvCmd, RecvCmdFails, Goto, TypeOK
    <3> QED BY <2>1, <3>1
  <2> QED BY <1>4, <2>2, <2>3, <2>4
<1> QED BY <1>2, <1>3, <1>5, <1>6, TCompose

(* The firmware's answer: nothing waits on that descriptor any more.       *)
LEMMA AnswerTyped ==
  ASSUME IInv, NEW p \in Process, NEW f \in Fd, FwStep(p, f)
  PROVE  \E r \in Rsp : MeiAnswer(p, f, r)
<1>1. CASE FwAccepts(p, f)
  <2>1. PICK c \in link[p][f].req : /\ CanAccept(acd, c)
                                    /\ \E r \in Answers(c) \cup Mute : MeiAnswer(p, f, r)
    BY <1>1 DEF FwAccepts
  <2>2. PICK r \in Answers(c) \cup Mute : MeiAnswer(p, f, r)
    BY <2>1
  <2>3. c \in Calls /\ EarlyError(c) = 0 /\ acd \in Table
    BY DEF IInv, TypeOK, TxeiTypeOK, LegalRequests
  <2>4. Returns(acd, c) \subseteq 0 .. MaxData
    BY <2>1, <2>3, AcceptTyped
  <2>5. r \in Rsp
    BY <2>2, <2>4, AcdAssumption DEF Answers, Mute, EmptyRead, Rsp, Codes
  <2> QED BY <2>2, <2>5
<1>2. CASE FwRefuses(p, f)
  BY <1>2, AcdAssumption DEF FwRefuses, Mute, EmptyRead, Rsp, Codes
<1> QED BY <1>1, <1>2 DEF FwStep

LEMMA TFirmware ==
  ASSUME TInv, NEW p \in Process, NEW f \in Fd, FwStep(p, f), ToolIInv'
  PROVE  TInv'
<1>1. PICK r \in Rsp : MeiAnswer(p, f, r)
  BY AnswerTyped DEF TInv, ToolIInv
<1>2. TxeiTypeOK(Calls, Rsp) /\ HandlesExclusive /\ IInv /\ Traffic /\ Held
  BY DEF TInv, ToolIInv, IInv, TypeOK
<1>3. /\ fd' = fd
      /\ \A u \in Thread : ~(ProcOf[u] = p /\ fd[u] = f) => Untouched(u)
      /\ \A u \in Thread : ProcOf[u] = p /\ fd[u] = f =>
           LinkOf(u)' = [req |-> {}, rsp |-> {r}]
  BY <1>1, <1>2, MeiAnswerStep
<1>4. Traffic' /\ Held'
  BY <1>1, <1>2, <1>3, TrafficAnswered, HeldStays DEF MeiAnswer
<1>5. ASSUME NEW u \in Thread PROVE Pending(u)'
  <2>1. CASE ProcOf[u] = p /\ fd[u] = f
    BY <1>3, <2>1 DEF Pending
  <2>2. CASE ~(ProcOf[u] = p /\ fd[u] = f)
    <3>1. call'[u] = call[u] /\ fate'[u] = fate[u]
      BY <2>2 DEF FwStep, FwAccepts, FwRefuses, Waiting
    <3>2. Pending(u)
      BY TFacts
    <3> QED BY <1>3, <2>2, <3>1, <3>2 DEF Pending, Untouched
  <2> QED BY <2>1, <2>2
<1> QED BY <1>4, <1>5 DEF TInv

(* How a process of shell t exits.                                         *)
ExitForm(t) ==
  \/ ReadInputFails(t) \/ InputTooLarge(t)
  \/ LockDone(t) \/ WriteDone(t) \/ ReadDone(t) \/ ProvDone(t)
  \/ WriteOutput(t) \/ WriteOutputFails(t)
  \/ ReadStatus(t) \/ GppFails(t)

(* The steps of a process outside the library that it survives.            *)
StayForm(t) ==
  \/ ReadInput(t) \/ ReadOutput(t) \/ ProvOutput(t)
  \/ SelectPart(t) \/ SelectGroup(t) \/ ProtectGpp(t)

LEMMA ToolForms ==
  ASSUME NEW t \in Thread, ToolStep(t)
  PROVE  ExitForm(t) \/ StayForm(t) \/ CallLibrary(t)
BY DEF ToolStep, InputStep, DoneStep, OutputStep, GppStep, ExitForm, StayForm

LEMMA ExitForms ==
  ASSUME ToolIInv, NEW t \in Thread, ExitForm(t)
  PROVE  \E v \in Int : Exit(t, v)
BY ToolFacts DEF ExitForm, ReadInputFails, InputTooLarge, LockDone, WriteDone, ReadDone, ProvDone,
   WriteOutput, WriteOutputFails, ReadStatus, GppFails, EXIT_SUCCESS, EXIT_FAILURE

LEMMA StayForms ==
  ASSUME ToolIInv, NEW t \in Thread, StayForm(t)
  PROVE  /\ UNCHANGED <<vars, line, exit>>
         /\ at[t] # "shell" /\ at'[t] # "shell"
         /\ \A u \in Thread \ {t} : at'[u] = at[u]
BY ToolFacts DEF StayForm, ReadInput, ReadOutput, ProvOutput, SelectPart, SelectGroup, ProtectGpp,
   BackFrom, To, ToolTypeOK

LEMMA TNext ==
  ASSUME TInv, [ToolNext]_allVars PROVE TInv'
<1>0. ToolIInv /\ ToolIInv'
  BY ToolNextInv DEF TInv
<1>1. ASSUME NEW t \in Thread, Run(t) \/ RunParsed(t) PROVE TInv'
  BY <1>0, <1>1, TRun
<1>2. ASSUME NEW t \in Thread, ToolStep(t) PROVE TInv'
  <2>1. CASE ExitForm(t)
    BY <1>0, <2>1, ExitForms, TExit
  <2>2. CASE StayForm(t)
    BY <1>0, <2>2, StayForms, TStill
  <2>3. CASE CallLibrary(t)
    BY <1>0, <2>3, TCall
  <2> QED BY <1>2, <2>1, <2>2, <2>3, ToolForms
<1>3. ASSUME NEW t \in Thread, Library(t) PROVE TInv'
  BY <1>0, <1>3, TLibrary
<1>4. ASSUME NEW p \in Process, NEW f \in Fd, FwStep(p, f) PROVE TInv'
  BY <1>0, <1>4, TFirmware
<1>5. CASE UNCHANGED allVars
  BY <1>0, <1>5, TStill DEF allVars
<1>6. CASE SelectElsewhere
  BY <1>0, <1>6, TStill DEF SelectElsewhere
<1> QED BY <1>1, <1>2, <1>3, <1>4, <1>5, <1>6 DEF ToolNext

(* Descriptors of the tool are all accounted for, and what waits on them   *)
(* are the commands of running processes.                                  *)
LEMMA TInvariance == ToolSpec => []TInv
<1>1. ToolInit => TInv
  <2>1. ASSUME ToolInit PROVE ToolIInv /\ RInv
    BY <2>1, ToolInitInv, InitInv
       DEF ToolInit, RInv, Traffic, Init, TeeInit, TxeiInit, NoTraffic
  <2>2. ASSUME ToolInit PROVE Held /\ \A t \in Thread : Pending(t)
    BY <2>2 DEF ToolInit, Init, TeeInit, TxeiInit, Held, Pending
  <2> QED BY <2>1, <2>2 DEF TInv, RInv
<1>2. TInv /\ [ToolNext]_allVars => TInv'
  BY TNext
<1> QED BY <1>1, <1>2, PTL DEF ToolSpec

-----------------------------------------------------------------------------
(* The mapping, one shell at a time.                                       *)

Fates == {"none", "done", "refused"}

(* The commands and the tool agree on the table.                           *)
LEMMA SameCommands ==
  /\ Shells!NoCall = NoCall /\ Shells!EmptyTable = EmptyTable
  /\ \A a, c : Shells!CanAccept(a, c) = CanAccept(a, c)
  /\ \A a, c : Shells!Accept(a, c) = Accept(a, c)
  /\ Shells!E!Anything = Fates
BY DEF Shells!NoCall, NoCall, Shells!EmptyTable, EmptyTable, Shells!CanAccept, CanAccept,
       Shells!Accept, Accept, Shells!Index, Index, Shells!E!Anything, Fates

(* The job of a shell, and what its exit status tells, after a step.       *)
JobOf(l) == IF Calling(l) THEN CallOf(l) ELSE NoCall

LearntOf(t, a, l, e) ==
  {d \in Fates : a = "shell" /\ l # NoLine => StatusTells(t, l, e, d)}

LEMMA MapsPrimed ==
  ASSUME NEW t \in Thread
  PROVE  /\ Job(t) = JobOf(line[t]) /\ Job(t)' = JobOf(line'[t])
         /\ Learnt(t) = LearntOf(t, at[t], line[t], exit[t])
         /\ Learnt(t)' = LearntOf(t, at'[t], line'[t], exit'[t])
BY DEF Job, JobOf, Learnt, LearntOf, Fates, StatusTells, Calling, LineOk, ReadOk, WriteOk,
       ProvOk, AcdIndex, DataSize, DataMaxSize, CallOf, NoCall, NoLine, Answered, Unreadable,
       Index, Callers

LEMMA OthersMapped ==
  ASSUME NEW u \in Thread, at'[u] = at[u], line'[u] = line[u], exit'[u] = exit[u]
  PROVE  Job(u)' = Job(u) /\ Learnt(u)' = Learnt(u)
BY MapsPrimed

(* While a process runs, nothing is known of its command.                  *)
LEMMA NothingLearnt ==
  ASSUME NEW t, NEW a, a # "shell", NEW l, NEW e
  PROVE  LearntOf(t, a, l, e) = Fates
BY DEF LearntOf

LEMMA LearntTyped ==
  ASSUME NEW t, NEW a, NEW l, NEW e
  PROVE  LearntOf(t, a, l, e) \in SUBSET Fates
BY DEF LearntOf

-----------------------------------------------------------------------------
(* Steps of a process.                                                     *)

(* A step of the process of shell t changes its own part of the mapping.   *)
Own(t) ==
  \A u \in Thread \ {t} : at'[u] = at[u] /\ line'[u] = line[u] /\ exit'[u] = exit[u]

LEMMA OneMapped ==
  ASSUME NEW t \in Thread, Own(t)
  PROVE  /\ JobMap' = [JobMap EXCEPT ![t] = JobOf(line'[t])]
         /\ ToldMap' = [ToldMap EXCEPT ![t] = LearntOf(t, at'[t], line'[t], exit'[t])]
         /\ JobMap[t] = JobOf(line[t])
         /\ ToldMap[t] = LearntOf(t, at[t], line[t], exit[t])
         /\ t \in Running <=> at[t] # "shell"
         /\ t \in Running' <=> at'[t] # "shell"
         /\ Running \ {t} = Running' \ {t}
<1>1. \A u \in Thread \ {t} : Job(u)' = Job(u) /\ Learnt(u)' = Learnt(u)
  BY OthersMapped DEF Own
<1>2. Job(t)' = JobOf(line'[t]) /\ Learnt(t)' = LearntOf(t, at'[t], line'[t], exit'[t])
  BY MapsPrimed
<1>3. JobMap' = [JobMap EXCEPT ![t] = JobOf(line'[t])]
  BY <1>1, <1>2 DEF JobMap
<1>4. ToldMap' = [ToldMap EXCEPT ![t] = LearntOf(t, at'[t], line'[t], exit'[t])]
  BY <1>1, <1>2 DEF ToldMap
<1>5. JobMap[t] = JobOf(line[t]) /\ ToldMap[t] = LearntOf(t, at[t], line[t], exit[t])
  BY MapsPrimed DEF JobMap, ToldMap
<1>6. /\ t \in Running <=> at[t] # "shell"
      /\ t \in Running' <=> at'[t] # "shell"
      /\ Running \ {t} = Running' \ {t}
  BY DEF Running, Own
<1> QED BY <1>3, <1>4, <1>5, <1>6

(* A process that goes on: no step of the commands.                        *)
Unnoticed == UNCHANGED <<acd, Running, JobMap, fate, ToldMap>>

LEMMA ProcessGoesOn ==
  ASSUME NEW t \in Thread, Own(t), at[t] # "shell", at'[t] # "shell",
         line'[t] = line[t], UNCHANGED <<fate, acd>>
  PROVE  Unnoticed
<1>1. LearntOf(t, at'[t], line'[t], exit'[t]) = LearntOf(t, at[t], line[t], exit[t])
  BY NothingLearnt
<1>2. /\ JobMap' = [JobMap EXCEPT ![t] = JobMap[t]]
      /\ ToldMap' = [ToldMap EXCEPT ![t] = ToldMap[t]]
      /\ Running' = Running
  BY <1>1, OneMapped
<1>3. JobMap' = JobMap /\ ToldMap' = ToldMap
  BY <1>2 DEF JobMap, ToldMap
<1> QED BY <1>2, <1>3 DEF Unnoticed

(* A command begins.                                                       *)
LEMMA ToolBegins ==
  ASSUME TInv, NEW t \in Thread, Run(t)
  PROVE  Shells!Begin(t)
<1>1. PICK l \in Lines[t] :
        /\ LineOk(l) /\ l.cmd \notin Unsupported \cup NothingToDo
        /\ NewProcess(t, l) /\ To(t, First(l.cmd))
  BY DEF Run
<1>2. at[t] = "shell" /\ exit' = exit
  BY DEF Run
<1>3. /\ at' = [at EXCEPT ![t] = First(l.cmd)] /\ line' = [line EXCEPT ![t] = l]
      /\ fate' = [fate EXCEPT ![t] = "none"] /\ acd' = acd
  BY <1>1 DEF NewProcess, To
<1>4. First(l.cmd) # "shell"
  BY DEF First
<1>5. ToolTypeOK
  BY DEF TInv, ToolIInv
<1>6. /\ Own(t) /\ at'[t] # "shell" /\ line'[t] = l
  BY <1>2, <1>3, <1>4, <1>5 DEF Own, ToolTypeOK
<1>7. JobOf(l) \in Calls \cup {NoCall}
  BY <1>1, SecToolAssumption DEF JobOf, Calling
<1>8. LearntOf(t, at'[t], line'[t], exit'[t]) = Fates
  BY <1>6, NothingLearnt
<1>9. /\ JobMap' = [JobMap EXCEPT ![t] = JobOf(l)]
      /\ ToldMap' = [ToldMap EXCEPT ![t] = Fates]
      /\ t \notin Running /\ Running' = Running \cup {t}
  BY <1>2, <1>6, <1>8, OneMapped
<1>10. Shells!E!Begin(t)
  BY <1>3, <1>9, SameCommands DEF Shells!E!Begin
<1> QED BY <1>3, <1>7, <1>9, <1>10, SameCommands DEF Shells!Begin

(* A command line is turned down, or there is nothing to do for it.        *)
LEMMA ToolRejects ==
  ASSUME TInv, NEW t \in Thread, RunParsed(t)
  PROVE  Shells!Reject(t)
<1>1. PICK l \in Lines[t] :
        /\ ~LineOk(l) \/ l.cmd \in Unsupported \cup NothingToDo
        /\ NewProcess(t, l)
        /\ exit' = [exit EXCEPT ![t] =
             IF LineOk(l) /\ l.cmd \in NothingToDo THEN EXIT_SUCCESS ELSE EXIT_FAILURE]
  BY DEF RunParsed
<1>2. at[t] = "shell" /\ at' = at
  BY DEF RunParsed
<1>3. /\ line' = [line EXCEPT ![t] = l]
      /\ fate' = [fate EXCEPT ![t] = "none"] /\ acd' = acd
  BY <1>1 DEF NewProcess
<1>4. ToolTypeOK
  BY DEF TInv, ToolIInv
<1>5. Own(t) /\ line'[t] = l
  BY <1>1, <1>2, <1>3, <1>4 DEF Own, ToolTypeOK
<1>6. ~Calling(l)
  BY <1>1 DEF Calling, Callers, Unsupported, NothingToDo
<1>7. /\ "none" \in LearntOf(t, at'[t], l, exit'[t])
      /\ LearntOf(t, at'[t], l, exit'[t]) \in SUBSET Fates
  BY <1>6, LearntTyped DEF LearntOf, StatusTells, Fates
<1>8. /\ JobMap' = [JobMap EXCEPT ![t] = NoCall]
      /\ ToldMap' = [ToldMap EXCEPT ![t] = LearntOf(t, at'[t], l, exit'[t])]
      /\ t \notin Running /\ Running' = Running
  BY <1>2, <1>5, <1>6, OneMapped DEF JobOf
<1>9. ToldMap \in [Thread -> SUBSET Fates]
  BY MapsPrimed, LearntTyped DEF ToldMap
<1>10. Shells!E!Conclude(t, "none")
  BY <1>7, <1>8, <1>9, SameCommands DEF Shells!E!Conclude
<1>11. Shells!E!Reject(t)
  BY <1>3, <1>8, <1>10 DEF Shells!E!Reject
<1> QED BY <1>3, <1>8, <1>11, SameCommands DEF Shells!Reject

(* A process exits with v, and v is the truth.                             *)
LEMMA ToolReturns ==
  ASSUME TInv, NEW t \in Thread, NEW v \in Int, Exit(t, v), at[t] # "shell",
         StatusTells(t, line[t], v % 256, fate[t])
  PROVE  Shells!Return(t)
<1>1. ToolTypeOK /\ TypeOK
  BY DEF TInv, ToolIInv, ToolTypeOK
<1>2. /\ at' = [at EXCEPT ![t] = "shell"] /\ exit' = [exit EXCEPT ![t] = v % 256]
      /\ UNCHANGED <<line, fate, acd>>
  BY DEF Exit, To
<1>3. Own(t) /\ at'[t] = "shell" /\ line'[t] = line[t] /\ exit'[t] = v % 256
  BY <1>1, <1>2 DEF Own, ToolTypeOK
<1>4. /\ fate[t] \in LearntOf(t, at'[t], line'[t], exit'[t])
      /\ LearntOf(t, at'[t], line'[t], exit'[t]) \in SUBSET Fates
  BY <1>1, <1>3, LearntTyped DEF LearntOf, TypeOK, Fates
<1>5. /\ JobMap' = [JobMap EXCEPT ![t] = JobMap[t]]
      /\ ToldMap' = [ToldMap EXCEPT ![t] = LearntOf(t, at'[t], line'[t], exit'[t])]
      /\ t \in Running /\ Running' = Running \ {t}
  BY <1>3, OneMapped
<1>6. JobMap' = JobMap
  BY <1>5 DEF JobMap
<1>7. ToldMap \in [Thread -> SUBSET Fates]
  BY MapsPrimed, LearntTyped DEF ToldMap
<1>8. Shells!E!Conclude(t, fate[t])
  BY <1>4, <1>5, <1>7, SameCommands DEF Shells!E!Conclude
<1>9. Shells!E!Return(t)
  BY <1>2, <1>5, <1>8 DEF Shells!E!Return
<1> QED BY <1>2, <1>6, <1>9 DEF Shells!Return

-----------------------------------------------------------------------------
(* What each exit status tells.                                            *)

LEMMA CallOpLock ==
  ASSUME NEW l, l.cmd \in {"acd-lock", "acd-wipe"}
  PROVE  CallOf(l).op \in {"lock", "wipe"}
BY DEF CallOf

(* What the library returned to a command, by its operation.               *)
LEMMA LibraryReturned ==
  ASSUME ToolIInv, NEW t \in Thread, NEW cmds, BackFrom(t, cmds)
  PROVE  /\ Tells(t, call[t], result[t], fate[t]) /\ result[t] \in Int
         /\ EarlyError(call[t]) = 0 /\ Calling(line[t])
         /\ line[t].cmd \in cmds /\ call[t] = CallOf(line[t])
         /\ line[t].cmd = "acd-read" => GetError(call[t]) = 0
         /\ at[t] # "shell"
<1>1. Approved(line[t]) /\ line[t] \in LineSpace /\ call[t] = CallOf(line[t])
      /\ Settled(t) /\ Returned(t) /\ at[t] = "lib" /\ line[t].cmd \in cmds
  BY BackFacts
<1> QED BY <1>1, AcceptedCall, ToolFacts DEF Settled, Approved, Calling

LEMMA LockTells ==
  ASSUME ToolIInv, NEW t \in Thread, BackFrom(t, {"acd-lock", "acd-wipe"})
  PROVE  StatusTells(t, line[t], IF result[t] < 0 THEN 1 ELSE 0, fate[t])
<1>1. call[t].op \in {"lock", "wipe"}
  BY LibraryReturned, CallOpLock
<1>2. \/ result[t] = -1 /\ (fate[t] = "none" \/ Unreadable(t))
      \/ result[t] = 0 /\ fate[t] # "none"
  BY <1>1, LibraryReturned DEF Tells
<1>3. Calling(line[t]) /\ line[t].cmd \in {"acd-lock", "acd-wipe"}
  BY LibraryReturned
<1> QED BY <1>2, <1>3 DEF StatusTells

LEMMA WriteTells ==
  ASSUME ToolIInv, NEW t \in Thread, BackFrom(t, {"acd-write"})
  PROVE  StatusTells(t, line[t], IF result[t] < 0 THEN 1 ELSE 0, fate[t])
<1>1. call[t].op = "set" /\ call[t].size = DataSize(line[t]) /\ line[t] \in LineSpace
  BY LibraryReturned, CallOps, ToolFacts
<1>2. call[t].size \in Nat
  BY <1>1 DEF DataSize, LineSpace
<1>3. \A e \in FwError : e \in Nat /\ -e < 0
  BY Ints DEF Codes
<1>4. \/ result[t] = -1 /\ fate[t] = "none"
      \/ result[t] = 1 /\ Unreadable(t)
      \/ -result[t] \in FwError /\ fate[t] = "refused"
      \/ result[t] = call[t].size /\ Answered(fate[t])
  BY <1>1, LibraryReturned DEF Tells
<1>5. result[t] \in Int /\ Calling(line[t]) /\ line[t].cmd = "acd-write"
  BY LibraryReturned
<1>6. \/ result[t] < 0 /\ fate[t] # "done"
      \/ ~(result[t] < 0) /\ (Answered(fate[t]) \/ Unreadable(t))
  BY <1>2, <1>3, <1>4, <1>5
<1> QED BY <1>5, <1>6 DEF StatusTells

LEMMA ReadTells ==
  ASSUME ToolIInv, NEW t \in Thread, BackFrom(t, {"acd-read"})
  PROVE  StatusTells(t, line[t], IF result[t] < 0 THEN 1 ELSE 0, fate[t])
<1>1. call[t].op = "get" /\ GetError(call[t]) = 0
  BY LibraryReturned, CallOps
<1>2. \A e \in FwError : e \in Nat /\ -e < 0
  BY Ints DEF Codes
<1>3. NoMemory \in Nat
  BY Ints DEF Codes
<1>4. \/ result[t] = -1 /\ fate[t] = "none"
      \/ result[t] = 1 /\ Unreadable(t)
      \/ -result[t] \in FwError /\ fate[t] = "refused"
      \/ result[t] \in {0, NoMemory} /\ Answered(fate[t])
      \/ result[t] \in 1 .. MaxData /\ fate[t] = "done"
  BY <1>1, LibraryReturned DEF Tells
<1>5. result[t] \in Int /\ Calling(line[t]) /\ line[t].cmd = "acd-read"
  BY LibraryReturned
<1>6. fate[t] = "done" => Answered(fate[t])
  BY DEF Answered
<1>7. \/ result[t] < 0 /\ fate[t] # "done"
      \/ ~(result[t] < 0) /\ (Answered(fate[t]) \/ Unreadable(t))
  BY <1>2, <1>3, <1>4, <1>5, <1>6
<1> QED BY <1>5, <1>7 DEF StatusTells

LEMMA ProvTells ==
  ASSUME ToolIInv, NEW t \in Thread, BackFrom(t, {"acd-prov"})
  PROVE  StatusTells(t, line[t], result[t] % 256, fate[t])
<1>1. call[t].op = "prov" /\ call[t].out
  BY LibraryReturned, CallOps
<1>2. result[t] \in Int /\ Calling(line[t]) /\ line[t].cmd = "acd-prov"
  BY LibraryReturned
<1>3. \/ result[t] = -1 /\ fate[t] = "none"
      \/ result[t] = 1
      \/ -result[t] \in FwError /\ fate[t] = "refused"
      \/ result[t] = 0 /\ Answered(fate[t])
      \/ result[t] = NoMemory
  BY <1>1, LibraryReturned DEF Tells
<1>4. CASE result[t] = -1 /\ fate[t] = "none"
  <2>1. (-1) % 256 # 0
    <3>1. \A i \in Nat : i % 256 # 0 => (-i) % 256 # 0
      OBVIOUS
    <3> QED BY <3>1
  <2> QED BY <1>2, <1>4, <2>1 DEF StatusTells
<1>5. CASE result[t] \in {1, NoMemory}
  <2>1. 1 % 256 = 1
    OBVIOUS
  <2> QED BY <1>2, <1>5, <2>1 DEF StatusTells
<1>6. CASE -result[t] \in FwError /\ fate[t] = "refused"
  <2>1. -result[t] \in Codes /\ -(-result[t]) = result[t]
    BY <1>2, <1>6 DEF Codes
  <2>2. result[t] % 256 # 0
    BY <2>1, LowByte
  <2> QED BY <1>2, <1>6, <2>2 DEF StatusTells
<1>7. CASE result[t] = 0 /\ Answered(fate[t])
  <2>1. 0 % 256 = 0
    OBVIOUS
  <2> QED BY <1>2, <1>7, <2>1 DEF StatusTells
<1> QED BY <1>3, <1>4, <1>5, <1>6, <1>7

LEMMA SmallStatus ==
  /\ EXIT_SUCCESS % 256 = 0 /\ EXIT_FAILURE % 256 = 1
  /\ EXIT_SUCCESS \in Int /\ EXIT_FAILURE \in Int
BY DEF EXIT_SUCCESS, EXIT_FAILURE

LEMMA ExitMaps ==
  ASSUME TInv, NEW t \in Thread, ExitForm(t)
  PROVE  Shells!Return(t)
<1>0. ToolIInv
  BY DEF TInv
<1>1. CASE ReadInputFails(t)
  <2>1. at[t] = "input" /\ Exit(t, EXIT_FAILURE)
    BY <1>1 DEF ReadInputFails
  <2>2. fate[t] = "none" /\ line[t].cmd \in {"acd-write", "acd-prov"} /\ LineOk(line[t])
    BY <1>0, <2>1, ToolFacts DEF Place, Unborn
  <2>3. StatusTells(t, line[t], 1, fate[t])
    BY <2>2 DEF StatusTells, Calling, Callers
  <2> QED BY <2>1, <2>3, SmallStatus, ToolReturns
<1>2. CASE InputTooLarge(t)
  <2>1. at[t] = "input" /\ Exit(t, EXIT_SUCCESS)
        /\ line[t].cmd = "acd-prov" /\ line[t].file > MaxData
    BY <1>2 DEF InputTooLarge
  <2>2. fate[t] = "none"
    BY <1>0, <2>1, ToolFacts DEF Place, Unborn
  <2>3. Calling(line[t])
    BY <1>0, <2>1, ToolFacts DEF Place, Calling, Callers
  <2>4. StatusTells(t, line[t], 0, fate[t])
    BY <2>1, <2>2, <2>3 DEF StatusTells
  <2> QED BY <2>1, <2>4, SmallStatus, ToolReturns
<1>3. ASSUME NEW cmds, BackFrom(t, cmds),
             Exit(t, IF result[t] < 0 THEN EXIT_FAILURE ELSE EXIT_SUCCESS),
             StatusTells(t, line[t], IF result[t] < 0 THEN 1 ELSE 0, fate[t])
      PROVE  Shells!Return(t)
  <2>1. at[t] # "shell"
    BY <1>3 DEF BackFrom
  <2>2. CASE result[t] < 0
    <3>1. Exit(t, EXIT_FAILURE) /\ StatusTells(t, line[t], EXIT_FAILURE % 256, fate[t])
      BY <1>3, <2>2, SmallStatus
    <3> QED BY <2>1, <3>1, SmallStatus, ToolReturns
  <2>3. CASE ~(result[t] < 0)
    <3>1. Exit(t, EXIT_SUCCESS) /\ StatusTells(t, line[t], EXIT_SUCCESS % 256, fate[t])
      BY <1>3, <2>3, SmallStatus
    <3> QED BY <2>1, <3>1, SmallStatus, ToolReturns
  <2> QED BY <2>2, <2>3
<1>4. CASE LockDone(t)
  BY <1>0, <1>3, <1>4, LockTells DEF LockDone
<1>5. CASE WriteDone(t)
  BY <1>0, <1>3, <1>5, WriteTells DEF WriteDone
<1>6. CASE ReadDone(t)
  <2>1. Exit(t, IF result[t] < 0 THEN EXIT_FAILURE ELSE EXIT_SUCCESS)
    BY <1>0, <1>6, ToolFacts DEF ReadDone
  <2> QED BY <1>0, <1>3, <1>6, <2>1, ReadTells DEF ReadDone
<1>7. CASE ProvDone(t)
  <2>1. BackFrom(t, {"acd-prov"}) /\ Exit(t, result[t])
    BY <1>7 DEF ProvDone
  <2>2. StatusTells(t, line[t], result[t] % 256, fate[t]) /\ result[t] \in Int
        /\ at[t] # "shell"
    BY <1>0, <2>1, ProvTells, LibraryReturned
  <2> QED BY <2>1, <2>2, ToolReturns
<1>8. CASE WriteOutput(t) \/ WriteOutputFails(t)
  <2>1. /\ at[t] = "output"
        /\ \/ Exit(t, EXIT_SUCCESS)
           \/ Exit(t, EXIT_FAILURE) /\ line[t].cmd = "acd-prov"
    BY <1>8 DEF WriteOutput, WriteOutputFails
  <2>2. /\ line[t].cmd \in {"acd-read", "acd-prov"} /\ fate[t] = "done"
        /\ Calling(line[t]) /\ Answered(fate[t])
    BY <1>0, <2>1, ToolFacts DEF Place, Approved, Calling, Answered
  <2>3. /\ StatusTells(t, line[t], 0, fate[t])
        /\ line[t].cmd = "acd-prov" => StatusTells(t, line[t], 1, fate[t])
    BY <2>2 DEF StatusTells
  <2> QED BY <2>1, <2>3, SmallStatus, ToolReturns
<1>9. CASE ReadStatus(t) \/ GppFails(t)
  <2>1. at[t] \in Selecting /\ at[t] # "shell" /\ (Exit(t, EXIT_SUCCESS) \/ Exit(t, EXIT_FAILURE))
    BY <1>9 DEF ReadStatus, GppFails, Selecting
  <2>2. fate[t] = "none" /\ ~Calling(line[t])
    BY <1>0, <2>1, ToolFacts DEF Place, Unborn, Selected, Calling, Callers
  <2>3. StatusTells(t, line[t], 0, fate[t]) /\ StatusTells(t, line[t], 1, fate[t])
    BY <2>2 DEF StatusTells
  <2> QED BY <2>1, <2>3, SmallStatus, ToolReturns
<1> QED BY <1>1, <1>2, <1>4, <1>5, <1>6, <1>7, <1>8, <1>9 DEF ExitForm

-----------------------------------------------------------------------------
(* The firmware decides about the command of a process that waits for it.  *)

LEMMA WaitingShell ==
  ASSUME TInv, NEW p \in Process, NEW f \in Fd, NEW c \in link[p][f].req
  PROVE  \E t \in Thread :
           /\ Waiting(p, f) = {t}
           /\ at[t] = "lib" /\ fate[t] = "none"
           /\ JobOf(line[t]) = c /\ c # NoCall
<1>1. f \in files[p] /\ f # NoFd
  BY TxeiAssumption DEF TInv, Traffic, NoTraffic, Fd, NoFd
<1>2. PICK t \in Thread : ProcOf[t] = p /\ fd[t] = f
  BY <1>1 DEF TInv, Held
<1>3. Waiting(p, f) = {t}
  BY <1>1, <1>2, TFacts DEF Waiting, HandlesExclusive
<1>4. call[t] = c /\ fate[t] = "none"
  BY <1>1, <1>2, TFacts DEF Pending, LinkOf
<1>5. at[t] = "lib" /\ Approved(line[t]) /\ call[t] = CallOf(line[t])
  BY <1>1, <1>2, TFacts, ToolFacts DEF Place, Unborn, Stages, Selecting
<1>6. JobOf(line[t]) = c /\ CallOf(line[t]).op # "none"
  BY <1>4, <1>5, CallOps DEF JobOf, Calling, Approved
<1>7. c # NoCall
  BY <1>4, <1>5, <1>6 DEF NoCall
<1> QED BY <1>3, <1>4, <1>5, <1>6, <1>7

LEMMA FirmwareMaps ==
  ASSUME TInv, NEW p \in Process, NEW f \in Fd, FwStep(p, f), UNCHANGED toolVars
  PROVE  Shells!Next
<1>1. PICK c \in link[p][f].req :
        \/ /\ CanAccept(acd, c) /\ acd' = Accept(acd, c)
           /\ fate' = [t \in Thread |-> IF t \in Waiting(p, f) THEN "done" ELSE fate[t]]
        \/ /\ acd' = acd
           /\ fate' = [t \in Thread |-> IF t \in Waiting(p, f) THEN "refused" ELSE fate[t]]
  BY DEF FwStep, FwAccepts, FwRefuses
<1>2. PICK t \in Thread : /\ Waiting(p, f) = {t}
                          /\ at[t] = "lib" /\ fate[t] = "none"
                          /\ JobOf(line[t]) = c /\ c # NoCall
  BY WaitingShell
<1>3. fate \in [Thread -> Fates]
  BY DEF TInv, ToolIInv, IInv, TypeOK, Fates
<1>4. UNCHANGED <<at, line, exit>> /\ Own(t)
  BY DEF toolVars, Own
<1>5. /\ JobMap' = [JobMap EXCEPT ![t] = JobMap[t]]
      /\ ToldMap' = [ToldMap EXCEPT ![t] = ToldMap[t]]
      /\ JobMap[t] = c /\ t \in Running /\ Running' = Running
  BY <1>2, <1>4, OneMapped
<1>6. JobMap' = JobMap /\ ToldMap' = ToldMap
  BY <1>5 DEF JobMap, ToldMap
<1>7. ASSUME NEW d \in {"done", "refused"},
             fate' = [u \in Thread |-> IF u \in Waiting(p, f) THEN d ELSE fate[u]]
      PROVE  Shells!E!Decide(t) /\ fate'[t] = d
  <2>1. fate' = [fate EXCEPT ![t] = d]
    BY <1>2, <1>3, <1>7
  <2> QED BY <1>2, <1>3, <1>5, <1>6, <2>1 DEF Shells!E!Decide
<1>8. CASE /\ CanAccept(acd, c) /\ acd' = Accept(acd, c)
           /\ fate' = [u \in Thread |-> IF u \in Waiting(p, f) THEN "done" ELSE fate[u]]
  <2>1. Shells!Apply(t)
    BY <1>2, <1>5, <1>6, <1>7, <1>8, SameCommands DEF Shells!Apply
  <2> QED BY <2>1 DEF Shells!Next
<1>9. CASE /\ acd' = acd
           /\ fate' = [u \in Thread |-> IF u \in Waiting(p, f) THEN "refused" ELSE fate[u]]
  <2>1. Shells!Refuse(t)
    BY <1>2, <1>5, <1>6, <1>7, <1>9, SameCommands DEF Shells!Refuse
  <2> QED BY <2>1 DEF Shells!Next
<1> QED BY <1>1, <1>8, <1>9

-----------------------------------------------------------------------------
LEMMA ToolInitMaps ==
  ASSUME ToolInit PROVE Shells!Init
<1>1. \A t \in Thread : at[t] = "shell" /\ line[t] = NoLine
  BY DEF ToolInit
<1>2. Running = {}
  BY <1>1 DEF Running
<1>3. \A t \in Thread : Learnt(t) = Fates /\ Job(t) = NoCall
  BY <1>1 DEF Learnt, Fates, Job, Calling, NoLine, Callers
<1>4. ToldMap = [t \in Thread |-> Fates] /\ JobMap = [t \in Thread |-> NoCall]
  BY <1>3 DEF ToldMap, JobMap
<1>5. fate = [t \in Thread |-> "none"] /\ acd = EmptyTable
  BY DEF ToolInit, Init
<1>6. Shells!E!Init
  BY <1>2, <1>4, <1>5, SameCommands DEF Shells!E!Init
<1> QED BY <1>4, <1>5, <1>6, SameCommands DEF Shells!Init

(* The steps within the library, and those a process survives.             *)
LEMMA InsideMaps ==
  ASSUME TInv, NEW t \in Thread, Library(t) \/ StayForm(t) \/ CallLibrary(t)
  PROVE  Unnoticed
<1>0. ToolIInv /\ ToolTypeOK /\ TypeOK
  BY TFacts DEF ToolIInv
<1>1. CASE Library(t)
  <2>1. at[t] = "lib" /\ CallStep(t) /\ UNCHANGED <<at, line, exit>>
    BY <1>1 DEF Library, toolVars
  <2>2. UNCHANGED <<fate, acd>>
    BY <2>1, ReturnForms DEF CallStep, Connect, ConnectFails, Process_cmd, ReturnClosing,
                             ReturnLeaking
  <2> QED BY <2>1, <2>2, ProcessGoesOn DEF Own
<1>2. CASE StayForm(t)
  <2>1. UNCHANGED <<fate, acd, line, exit>>
    BY <1>0, <1>2, StayForms DEF vars
  <2> QED BY <1>0, <1>2, <2>1, StayForms, ProcessGoesOn DEF Own
<1>3. CASE CallLibrary(t)
  <2>1. /\ at[t] = "call" /\ at' = [at EXCEPT ![t] = "lib"] /\ UNCHANGED <<line, exit, acd>>
        /\ fate' = [fate EXCEPT ![t] = "none"]
    BY <1>3 DEF CallLibrary, To, Begin
  <2>2. fate[t] = "none"
    BY <1>0, <2>1, ToolFacts DEF Place, Unborn
  <2>3. fate' = fate
    BY <1>0, <2>1, <2>2 DEF TypeOK
  <2>4. Own(t) /\ at'[t] = "lib"
    BY <1>0, <2>1 DEF Own, ToolTypeOK
  <2> QED BY <2>1, <2>3, <2>4, ProcessGoesOn
<1> QED BY <1>1, <1>2, <1>3

LEMMA ToolStepMaps ==
  ASSUME TInv, [ToolNext]_allVars PROVE [Shells!Next]_Shells!vars
<1>1. ASSUME NEW t \in Thread, Run(t) \/ RunParsed(t) PROVE Shells!Next
  BY <1>1, ToolBegins, ToolRejects DEF Shells!Next
<1>2. ASSUME NEW t \in Thread, ToolStep(t) PROVE Shells!Next \/ Unnoticed
  <2>1. CASE ExitForm(t)
    BY <2>1, ExitMaps DEF Shells!Next
  <2>2. CASE StayForm(t) \/ CallLibrary(t)
    BY <2>2, InsideMaps
  <2> QED BY <1>2, <2>1, <2>2, ToolForms
<1>3. ASSUME NEW t \in Thread, Library(t) PROVE Unnoticed
  BY <1>3, InsideMaps
<1>4. ASSUME NEW p \in Process, NEW f \in Fd, FwStep(p, f), UNCHANGED toolVars
      PROVE  Shells!Next
  BY <1>4, FirmwareMaps
<1>5. ASSUME UNCHANGED allVars \/ SelectElsewhere PROVE Unnoticed
  <2>1. UNCHANGED <<at, line, exit, fate, acd>>
    BY <1>5 DEF allVars, vars, toolVars, SelectElsewhere
  <2>2. \A u \in Thread : Job(u)' = Job(u) /\ Learnt(u)' = Learnt(u)
    BY <2>1, OthersMapped
  <2>3. Running' = Running /\ JobMap' = JobMap /\ ToldMap' = ToldMap
    BY <2>1, <2>2 DEF Running, JobMap, ToldMap
  <2> QED BY <2>1, <2>3 DEF Unnoticed
<1>6. Unnoticed => UNCHANGED Shells!vars
  BY DEF Unnoticed, Shells!vars
<1> QED BY <1>1, <1>2, <1>3, <1>4, <1>5, <1>6 DEF ToolNext

(* The commands of sec_tools_app.c do what AcdCommands promises: at most   *)
(* one call of theirs takes effect, before the process exits, and the exit *)
(* status tells what StatusTells reads in it.                              *)
THEOREM ToolImplements == ToolSpec => ImplementsCommands
<1>1. ToolInit => Shells!Init
  BY ToolInitMaps
<1>2. TInv /\ [ToolNext]_allVars => [Shells!Next]_Shells!vars
  BY ToolStepMaps
<1> QED BY <1>1, <1>2, TInvariance, PTL DEF ToolSpec, Shells!Spec, ImplementsCommands

=============================================================================
