------------------------------ MODULE SecTool ------------------------------
(***************************************************************************)
(* The command line tool of the ACD library (App/sec_tool, with the file   *)
(* functions of Lib/sec_tool_lib/src/misc_utils.c, in the BAYTRAIL build): *)
(* a thread of UmipAccess is a shell here, and every command line it runs  *)
(* is a process of its own, which makes at most one call of the library.   *)
(* What the process left open is closed when it exits.                     *)
(*                                                                         *)
(* The kernel's write protection of the softfuse partition is external.    *)
(***************************************************************************)
EXTENDS UmipAccess

CONSTANTS
  Lines,      (* Lines[t]: the command lines run from shell t              *)
  MaxSchema,  (* ACD_MAX_PROVISIONNG_SCHEMA                                *)
  OtherParts, (* the partitions and the groups of the MMC driver that other*)
  OtherGroups (* programs select, at any time                              *)

Commands ==
  {"acd-lock", "acd-wipe", "acd-read", "acd-write", "acd-prov", "epid-prov",
   "pmdb-read", "pmdb-write", "pmdb-lock", "rpmb-prov", "gpp-wp-status",
   "gpp-wp-lock", "help", "none"}

(* A command line: the command (its option, or "none" when there is no     *)
(* option at all), whether it has the number of arguments the              *)
(* command wants, its numbers as they are typed (index or schema, data     *)
(* size, data max size), and how many bytes can be read of its input file, *)
(* 0 when it is missing, empty or not readable.                            *)
LineSpace ==
  [cmd : Commands, args : BOOLEAN, index : Int, size : Int, max : Int, file : Nat]

NoLine ==
  [cmd |-> "help", args |-> FALSE, index |-> 0, size |-> 0, max |-> 0, file |-> 0]

EXIT_SUCCESS == 0
EXIT_FAILURE == 1

-----------------------------------------------------------------------------
(* main: the numbers of a command line, in uint8_t and uint16_t, and their *)
(* checks; a schema is an int.                                             *)
AcdIndex(l)    == l.index % 256
DataSize(l)    == l.size % 65536
DataMaxSize(l) == l.max % 65536

ReadOk(l) == AcdIndex(l) \in Index

(* Mutant: the two sizes are not compared.                                 *)
WriteOkUncompared(l) ==
  /\ AcdIndex(l) \in Index
  /\ DataSize(l) <= MaxData
  /\ DataMaxSize(l) <= MaxData

WriteOk(l) ==
  /\ AcdIndex(l) \in Index
  /\ DataSize(l) <= MaxData
  /\ DataMaxSize(l) <= MaxData
  /\ DataSize(l) <= DataMaxSize(l)

ProvOk(l) == l.index \in 0 .. MaxSchema

(* -help is obeyed before any argument is counted.                         *)
LineOk(l) ==
  /\ l.args \/ l.cmd = "help"
  /\ l.cmd = "acd-read"  => ReadOk(l)
  /\ l.cmd = "acd-write" => WriteOk(l)
  /\ l.cmd = "acd-prov"  => ProvOk(l)

(* The call of the library a command line amounts to.                      *)
CallOf(l) ==
  CASE l.cmd = "acd-lock" ->
         [op |-> "lock", index |-> 0, size |-> 0, max |-> 0, buf |-> TRUE, out |-> TRUE]
    [] l.cmd = "acd-wipe" ->
         [op |-> "wipe", index |-> 0, size |-> 0, max |-> 0, buf |-> TRUE, out |-> TRUE]
    [] l.cmd = "acd-read" ->
         [op |-> "get", index |-> AcdIndex(l), size |-> 0, max |-> 0,
          buf |-> TRUE, out |-> TRUE]
    [] l.cmd = "acd-write" ->
         [op |-> "set", index |-> AcdIndex(l), size |-> DataSize(l),
          max |-> DataMaxSize(l), buf |-> TRUE, out |-> FALSE]
    [] OTHER ->
         [op |-> "prov", index |-> l.index, size |-> l.file, max |-> 0,
          buf |-> TRUE, out |-> TRUE]

Callers == {"acd-lock", "acd-wipe", "acd-read", "acd-write", "acd-prov"}

(* EPID provisioning is disabled and a line without an option only gets    *)
(* the usage message, which are no failures; PMDB and RPMB are not         *)
(* supported, which is one.                                                *)
Unsupported == {"pmdb-read", "pmdb-write", "pmdb-lock", "rpmb-prov"}
NothingToDo == {"help", "epid-prov", "none"}

ASSUME SecToolAssumption ==
  /\ Lines \in [Thread -> SUBSET LineSpace]
  /\ MaxSchema \in Nat
  /\ OtherParts \subseteq Nat /\ OtherGroups \subseteq Nat
  /\ MaxIndex < 256 /\ MaxData < 65536
  /\ \A t \in Thread : \A l \in Lines[t] :
       l.cmd \in Callers /\ LineOk(l) => CallOf(l) \in Calls

(* An exit status is the low byte of what main returns: no code of the     *)
(* library has a low byte that is taken for success.                       *)
ASSUME ExitAssumption == \A e \in Codes : e % 256 # 0

VARIABLES
  at,      (* at[t]: where the process run from shell t is                 *)
  line,    (* line[t]: the command line it runs, or ran last               *)
  exit,    (* exit[t]: its exit status                                     *)
  out,     (* out[t]: its output file as it was before ("old"), cut short, *)
           (* or replaced by the data ("new")                              *)
  gpp,     (* the driver's write protection: the partition and the group   *)
           (* selected                                                     *)
  locked,  (* locked[t]: the pair of them that the process locked for good *)
  torn     (* the shells whose process has lost its selection of partition *)
           (* or group to another program before its lock (a history       *)
           (* variable)                                                    *)

gppVars  == <<gpp, locked, torn>>
toolVars == <<at, line, exit, out, gppVars>>
allVars  == <<vars, toolVars>>

Softfuse == [part |-> 1, group |-> 0]

Stages ==
  {"shell", "input", "call", "lib", "output",
   "lockPart", "lockGroup", "lock", "part", "group", "status"}

ToolInit ==
  /\ Init
  /\ at = [t \in Thread |-> "shell"]
  /\ line = [t \in Thread |-> NoLine]
  /\ exit = [t \in Thread |-> EXIT_FAILURE]
  /\ out = [t \in Thread |-> "old"]
  /\ gpp = [part |-> 0, group |-> 1]
  /\ locked = [t \in Thread |-> {}]
  /\ torn = {}

-----------------------------------------------------------------------------
To(t, stage) == at' = [at EXCEPT ![t] = stage]

(* The process exits, and the kernel closes what it left open.             *)
Exit(t, status) ==
  /\ To(t, "shell")
  /\ exit' = [exit EXCEPT ![t] = status % 256]
  /\ IF fd[t] = NoFd THEN UNCHANGED txeiVars ELSE MeiDisconnect(t)
  /\ UNCHANGED <<pc, ret, resp, call, result, acd, fate, line, gppVars>>

(* A new process, which has made no call.                                  *)
NewProcess(t, l) ==
  /\ line' = [line EXCEPT ![t] = l]
  /\ out' = [out EXCEPT ![t] = "old"]
  /\ ret' = [ret EXCEPT ![t] = 0]
  /\ resp' = [resp EXCEPT ![t] = ClearResp]
  /\ call' = [call EXCEPT ![t] = NoCall]
  /\ result' = [result EXCEPT ![t] = 0]
  /\ fate' = [fate EXCEPT ![t] = "none"]
  /\ locked' = [locked EXCEPT ![t] = {}]
  /\ torn' = torn \ {t}
  /\ UNCHANGED <<txeiVars, pc, acd, gpp>>

(* Where a command line that passes the checks leads.                      *)
First(cmd) ==
  CASE cmd \in {"acd-write", "acd-prov"}             -> "input"
    [] cmd \in {"acd-lock", "acd-wipe", "acd-read"}  -> "call"
    [] cmd = "gpp-wp-status"                         -> "part"
    [] OTHER                                         -> "lockPart"

Run(t) ==
  /\ at[t] = "shell"
  /\ \E l \in Lines[t] :
       /\ LineOk(l) /\ l.cmd \notin Unsupported \cup NothingToDo
       /\ NewProcess(t, l)
       /\ To(t, First(l.cmd))
  /\ UNCHANGED exit

(* A command line that is at an end when it is parsed: it is wrong, or     *)
(* there is nothing to do for it.                                          *)
RunParsed(t) ==
  /\ at[t] = "shell"
  /\ \E l \in Lines[t] :
       /\ ~LineOk(l) \/ l.cmd \in Unsupported \cup NothingToDo
       /\ NewProcess(t, l)
       /\ exit' = [exit EXCEPT ![t] =
            IF LineOk(l) /\ l.cmd \in NothingToDo THEN EXIT_SUCCESS ELSE EXIT_FAILURE]
  /\ UNCHANGED at

-----------------------------------------------------------------------------
(* read_data_from_file, and what is made of the size of the file: acd-prov *)
(* leaves with the status of the successful read when it is too large.     *)

InputOk(l) ==
  /\ l.file # 0
  /\ IF l.cmd = "acd-write" THEN l.file = DataSize(l) ELSE l.file <= MaxData

ReadInput(t) ==
  /\ at[t] = "input"
  /\ InputOk(line[t])
  /\ To(t, "call")
  /\ UNCHANGED <<vars, line, exit, out, gppVars>>

ReadInputFails(t) ==
  /\ at[t] = "input"
  /\ \/ line[t].file = 0 \/ "read" \in Faults \/ "alloc" \in Faults
     \/ line[t].cmd = "acd-write" /\ ~InputOk(line[t])
  /\ Exit(t, EXIT_FAILURE)
  /\ UNCHANGED out

InputTooLarge(t) ==
  /\ at[t] = "input"
  /\ line[t].cmd = "acd-prov" /\ line[t].file > MaxData
  /\ Exit(t, EXIT_SUCCESS)
  /\ UNCHANGED out

(* The call.  That its arguments pass the checks of the library is what    *)
(* LibraryAccepts is about.                                                *)
CallLibrary(t) ==
  /\ at[t] = "call"
  /\ Begin(t) /\ call'[t] = CallOf(line[t])
  /\ To(t, "lib")
  /\ UNCHANGED <<line, exit, out, gppVars>>

Library(t) ==
  /\ at[t] = "lib"
  /\ CallStep(t)
  /\ UNCHANGED toolVars

-----------------------------------------------------------------------------
(* What each command makes of what the library returned.                   *)
BackFrom(t, cmds) == at[t] = "lib" /\ pc[t] = "idle" /\ line[t].cmd \in cmds

LockDone(t) ==
  /\ BackFrom(t, {"acd-lock", "acd-wipe"})
  /\ Exit(t, IF result[t] < 0 THEN EXIT_FAILURE ELSE EXIT_SUCCESS)
  /\ UNCHANGED out

(* Mutant: anything but the size is a failure.                             *)
WriteDoneStrict(t) ==
  /\ BackFrom(t, {"acd-write"})
  /\ Exit(t, IF result[t] # call[t].size THEN EXIT_FAILURE ELSE EXIT_SUCCESS)
  /\ UNCHANGED out

(* Mutant: only -1 is a failure.                                           *)
WriteDoneMinusOne(t) ==
  /\ BackFrom(t, {"acd-write"})
  /\ Exit(t, IF result[t] = -1 THEN EXIT_FAILURE ELSE EXIT_SUCCESS)
  /\ UNCHANGED out

(* Any int that is not negative is success, the 1 of a failed read too.    *)
WriteDone(t) ==
  /\ BackFrom(t, {"acd-write"})
  /\ Exit(t, IF result[t] < 0 THEN EXIT_FAILURE ELSE EXIT_SUCCESS)
  /\ UNCHANGED out

(* get_customer_data allocated a buffer.                                   *)
HasBuffer(t) ==
  ret[t] = 0 /\ resp[t].status \in {0, WriteOnly} /\ result[t] # NoMemory

(* write_data_to_file touches nothing without a buffer and bytes in it;    *)
(* what it returns is not looked at.                                       *)
ReadDone(t) ==
  /\ BackFrom(t, {"acd-read"})
  /\ \/ result[t] < 0 /\ Exit(t, EXIT_FAILURE)
     \/ /\ result[t] = 0 \/ (result[t] > 0 /\ ~HasBuffer(t))
        /\ Exit(t, EXIT_SUCCESS)
  /\ UNCHANGED out

ReadOutput(t) ==
  /\ BackFrom(t, {"acd-read"})
  /\ result[t] > 0 /\ HasBuffer(t)
  /\ To(t, "output")
  /\ UNCHANGED <<vars, line, exit, out, gppVars>>

(* The status of a failed provisioning is what main returns.               *)
ProvDone(t) ==
  /\ BackFrom(t, {"acd-prov"})
  /\ result[t] # 0 \/ resp[t].bytes = 0
  /\ Exit(t, result[t])
  /\ UNCHANGED out

(* Mutant: the output file is opened, and cut, before the provisioning.    *)
ProvOutputEarly(t) ==
  /\ BackFrom(t, {"acd-prov"})
  /\ To(t, "output")
  /\ UNCHANGED <<vars, line, exit, out, gppVars>>

ProvOutput(t) ==
  /\ BackFrom(t, {"acd-prov"})
  /\ result[t] = 0 /\ resp[t].bytes > 0
  /\ To(t, "output")
  /\ UNCHANGED <<vars, line, exit, out, gppVars>>

(* write_data_to_file; acd-prov passes its failure on.                     *)
WriteOutput(t) ==
  /\ at[t] = "output"
  /\ out' = [out EXCEPT ![t] = "new"]
  /\ Exit(t, EXIT_SUCCESS)

(* Mutant: the result of write_data_to_file is not looked at, as in        *)
(* acd-read.                                                               *)
WriteOutputFailsUnread(t) ==
  /\ at[t] = "output"
  /\ \E o \in {"old", "cut"} : out' = [out EXCEPT ![t] = o]
  /\ Exit(t, EXIT_SUCCESS)

WriteOutputFails(t) ==
  /\ at[t] = "output"
  /\ \E o \in {"old", "cut"} : out' = [out EXCEPT ![t] = o]
  /\ Exit(t, IF line[t].cmd = "acd-prov" THEN EXIT_FAILURE ELSE EXIT_SUCCESS)

-----------------------------------------------------------------------------
(* gpp_writeprotect and gpp_read_wp_status: the driver's attributes are    *)
(* opened, the partition and the group selected, and the protection set or *)
(* read.  The selection is the driver's, one for all the programs that     *)
(* have the attributes open.                                               *)

Selecting == {"lockPart", "lockGroup", "lock", "part", "group", "status"}

SelectPart(t) ==
  /\ at[t] \in {"lockPart", "part"}
  /\ gpp' = [gpp EXCEPT !.part = 1]
  /\ To(t, IF at[t] = "part" THEN "group" ELSE "lockGroup")
  /\ UNCHANGED <<vars, line, exit, out, locked, torn>>

(* Mutant: the group is left as the driver has it.                         *)
SelectGroupOmitted(t) ==
  /\ at[t] \in {"lockGroup", "group"}
  /\ To(t, IF at[t] = "group" THEN "status" ELSE "lock")
  /\ UNCHANGED <<vars, line, exit, out, gppVars>>

SelectGroup(t) ==
  /\ at[t] \in {"lockGroup", "group"}
  /\ gpp' = [gpp EXCEPT !.group = 0]
  /\ To(t, IF at[t] = "group" THEN "status" ELSE "lock")
  /\ UNCHANGED <<vars, line, exit, out, locked, torn>>

(* The pair that is selected is locked, and gpp_writeprotect goes on to    *)
(* read the status: its result is that.                                    *)
ProtectGpp(t) ==
  /\ at[t] = "lock"
  /\ locked' = [locked EXCEPT ![t] = {gpp}]
  /\ To(t, "part")
  /\ UNCHANGED <<vars, line, exit, out, gpp, torn>>

(* Another program selects a partition or a group (external): whoever has  *)
(* selected one and not locked yet has lost it.                            *)
SelectElsewhere ==
  /\ \/ /\ \E n \in OtherParts : gpp' = [gpp EXCEPT !.part = n]
        /\ torn' = torn \cup {t \in Thread : at[t] \in {"lockGroup", "lock"}}
     \/ /\ \E n \in OtherGroups : gpp' = [gpp EXCEPT !.group = n]
        /\ torn' = torn \cup {t \in Thread : at[t] = "lock"}
  /\ UNCHANGED <<vars, at, line, exit, out, locked>>

(* Any of the four statuses is success.                                    *)
ReadStatus(t) ==
  /\ at[t] = "status"
  /\ Exit(t, EXIT_SUCCESS)
  /\ UNCHANGED out

(* An open, a write or a read fails, or the status is out of range.        *)
GppFails(t) ==
  /\ at[t] \in Selecting
  /\ Exit(t, EXIT_FAILURE)
  /\ UNCHANGED out

-----------------------------------------------------------------------------
InputStep(t) == ReadInput(t) \/ ReadInputFails(t) \/ InputTooLarge(t)

DoneStep(t) ==
  \/ LockDone(t)
  \/ WriteDone(t)
  \/ ReadDone(t)
  \/ ReadOutput(t)
  \/ ProvDone(t)
  \/ ProvOutput(t)

OutputStep(t) == WriteOutput(t) \/ WriteOutputFails(t)

GppStep(t) ==
  \/ SelectPart(t)
  \/ SelectGroup(t)
  \/ ProtectGpp(t)
  \/ ReadStatus(t)
  \/ GppFails(t)

ToolStep(t) ==
  \/ InputStep(t)
  \/ CallLibrary(t)
  \/ DoneStep(t)
  \/ OutputStep(t)
  \/ GppStep(t)

ToolNext ==
  \/ \E t \in Thread : Run(t) \/ RunParsed(t) \/ ToolStep(t) \/ Library(t)
  \/ \E p \in Process, f \in Fd : FwStep(p, f) /\ UNCHANGED toolVars
  \/ SelectElsewhere

ToolSpec == ToolInit /\ [][ToolNext]_allVars

-----------------------------------------------------------------------------
ToolTypeOK ==
  /\ TypeOK
  /\ at \in [Thread -> Stages]
  /\ line \in [Thread -> LineSpace]
  /\ exit \in [Thread -> 0 .. 255]
  /\ out \in [Thread -> {"old", "cut", "new"}]
  /\ gpp \in [part : Nat, group : Nat]
  /\ locked \in [Thread -> SUBSET [part : Nat, group : Nat]]
  /\ torn \subseteq Thread

Exited(t, cmd) == at[t] = "shell" /\ line[t].cmd = cmd

(* What passes the checks of the tool, on numbers cut to 8 and 16 bits,    *)
(* passes those of the library, on the same numbers: its positive codes    *)
(* for illegal arguments, which the tool takes for success, never come.    *)
LibraryAccepts ==
  \A t \in Thread : at[t] = "call" =>
    /\ EarlyError(CallOf(line[t])) = 0
    /\ line[t].cmd = "acd-read" => GetError(CallOf(line[t])) = 0

(* acd-write that failed has written nothing, and never will: it may be    *)
(* run again.  Of acd-prov that is so except for two exit statuses: 1, for *)
(* an answer or an output file that failed, and the low byte of NoMemory.  *)
FailureNotDone ==
  \A t \in Thread :
    /\ Exited(t, "acd-write") /\ exit[t] # 0 => fate[t] # "done"
    /\ Exited(t, "acd-prov") /\ exit[t] \notin {0, 1, NoMemory % 256} =>
         fate[t] # "done"

(* acd-write and acd-prov that succeeded were carried out, with three      *)
(* exceptions: an input file too large for acd-prov, an answer to          *)
(* set_customer_data that could not be read, which it reports as 1, and    *)
(* reads that return no bytes.                                             *)
SuccessDone ==
  "empty" \notin Faults =>
    \A t \in Thread :
      /\ Exited(t, "acd-write") /\ exit[t] = 0 /\ result[t] # 1 => fate[t] = "done"
      /\ Exited(t, "acd-prov") /\ exit[t] = 0 /\ line[t].file <= MaxData =>
           fate[t] = "done"

(* The output file is the same as before until the firmware has answered   *)
(* this command with data.                                                 *)
OldFileKept ==
  \A t \in Thread : out[t] # "old" => fate[t] = "done" /\ resp[t].bytes > 0

(* What provisioning returned is in the output file, or acd-prov failed.   *)
OutputNotLost ==
  \A t \in Thread :
    Exited(t, "acd-prov") /\ exit[t] = 0 /\ fate[t] = "done" /\ resp[t].bytes > 0 =>
      out[t] = "new"

(* Whatever partition and group the driver had selected before, and        *)
(* however processes of the tool interleave, the softfuses are locked by   *)
(* gpp-wp-lock and nothing else is, unless another program has selected in *)
(* the driver between this process's own selection and its lock.  The      *)
(* driver offers no way to do the two in one step: this is all the tool    *)
(* can promise, and its success tells no more.                             *)
OnlySoftfuse ==
  \A t \in Thread : t \notin torn =>
    /\ locked[t] \subseteq {Softfuse}
    /\ Exited(t, "gpp-wp-lock") /\ exit[t] = 0 => locked[t] = {Softfuse}

-----------------------------------------------------------------------------
(* Why the invariants above hold.                                          *)

(* Before its call, a process has nothing on a connection.                 *)
Unborn(t) == call[t] = NoCall /\ fate[t] = "none" /\ fd[t] = NoFd /\ out[t] = "old"

Approved(l) ==
  l.cmd \in Callers /\ LineOk(l) /\ (l.cmd \in {"acd-write", "acd-prov"} => InputOk(l))

(* What a return of the library tells: of the ints that may be returned,   *)
(* and of a response that was read.                                        *)
Told(t) ==
  /\ call[t].op = "set" => result[t] < 0 \/ result[t] \in {1, call[t].size}
  /\ call[t].op = "prov" =>
       result[t] \in {0, 1, NoMemory, -1} \/ \E e \in Codes : result[t] = -e
  /\ call[t].op = "prov" /\ result[t] = 0 => ret[t] = 0 /\ resp[t].status = 0
  /\ call[t].op = "get" /\ HasBuffer(t) => result[t] = resp[t].bytes
  /\ ret[t] = 0 /\ fd[t] # NoFd => LinkOf(t).req = {}
  /\ ret[t] = 0 /\ resp[t].status \in {0, WriteOnly} /\ resp[t].bytes > 0 =>
       fate[t] = "done"

Place(t) ==
  /\ at[t] # "lib" => pc[t] = "idle"
  /\ at[t] = "shell" => fd[t] = NoFd
  /\ at[t] \in {"input", "call"} \cup Selecting => Unborn(t)
  /\ at[t] = "input" => line[t].cmd \in {"acd-write", "acd-prov"} /\ LineOk(line[t])
  /\ at[t] \in {"call", "lib", "output"} => Approved(line[t])
  /\ at[t] \in {"lib", "output"} => call[t] = CallOf(line[t]) /\ out[t] = "old"
  /\ at[t] = "lib" /\ pc[t] = "idle" => Told(t)
  /\ at[t] = "output" =>
       /\ line[t].cmd \in {"acd-read", "acd-prov"}
       /\ fd[t] = NoFd /\ fate[t] = "done" /\ resp[t].bytes > 0

Selected(t) ==
  /\ at[t] \in Selecting => line[t].cmd \in {"gpp-wp-lock", "gpp-wp-status"}
  /\ at[t] \in {"lockGroup", "lock"} /\ t \notin torn => gpp.part = 1
  /\ at[t] = "lock" /\ t \notin torn => gpp.group = 0
  /\ at[t] \in {"part", "group", "status"} /\ line[t].cmd = "gpp-wp-lock" =>
       t \in torn \/ Softfuse \in locked[t]

(* The inductive invariant: that of the library, and what a process has    *)
(* checked and been told at each of its places.                            *)
ToolIInv ==
  /\ IInv
  /\ ToolTypeOK
  /\ \A t \in Thread : Place(t) /\ Selected(t)
  /\ FailureNotDone
  /\ SuccessDone
  /\ OldFileKept
  /\ OutputNotLost
  /\ OnlySoftfuse
-----------------------------------------------------------------------------
(* SecTool implements AcdCommands: what the exit status tells.             *)

(* A command line that leads to a call of the library.                     *)
Calling(l) == l.cmd \in Callers /\ LineOk(l)

Job(t) == IF Calling(line[t]) THEN CallOf(line[t]) ELSE NoCall

(* That fate d is not at odds with exit status e of command line l, run    *)
(* from shell t.  0 from acd-lock and acd-wipe means that the firmware     *)
(* answered and no more; 1 from acd-prov means nothing, as an input, an    *)
(* answer or an output file that fails, and a code of the firmware may all *)
(* be 1.                                                                   *)
StatusTells(t, l, e, d) ==
  IF ~Calling(l) THEN d = "none"
  ELSE \/ /\ l.cmd \in {"acd-lock", "acd-wipe"}
          /\ \/ e = 0 /\ d # "none"
             \/ e = 1 /\ (d = "none" \/ Unreadable(t))
       \/ /\ l.cmd \in {"acd-read", "acd-write"}
          /\ \/ e = 0 /\ (Answered(d) \/ Unreadable(t))
             \/ e = 1 /\ d # "done"
       \/ /\ l.cmd = "acd-prov"
          /\ \/ e = 0 /\ (Answered(d) \/ (d = "none" /\ l.file > MaxData))
             \/ e \in {1, NoMemory % 256}
             \/ e # 0 /\ d # "done"

(* What became of the command of shell t, as far as its exit status tells. *)
Learnt(t) ==
  {d \in {"none", "done", "refused"} :
     at[t] = "shell" /\ line[t] # NoLine => StatusTells(t, line[t], exit[t], d)}

Running == {t \in Thread : at[t] # "shell"}
JobMap  == [t \in Thread |-> Job(t)]
ToldMap == [t \in Thread |-> Learnt(t)]

Shells == INSTANCE AcdCommands WITH
  Shell <- Thread, busy <- Running, job <- JobMap, decided <- fate, told <- ToldMap

(* The table changes only for the command line of a process that still     *)
(* runs, once at most for each, and exit statuses tell the truth.          *)
ImplementsCommands == Shells!Spec

=============================================================================
