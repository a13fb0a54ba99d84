# TLA+ models of the TXEI host software

This directory holds TLA+ modules that model the host side of Intel's TXE
interface as it is found in this repository: the library that talks to the MEI
device, the Android Customer Data (ACD) library built on it and its command line
tool, the keymaster library, the library for memory shared with the firmware,
libipt, and the SEP service with its Java client. TLC checks the models on small instances; TLAPS proves
the central invariants for every value of the constants.

## 1. The system

| Component | Source | State it keeps | Operations |
|---|---|---|---|
| libtxei | `Lib/txei_lib.c` | a `MEI_HANDLE` per connection: one descriptor on `/dev/mei` | `mei_connect`, `mei_disconnect`, `mei_sndmsg` (write, then a `select` with a timeout), `mei_rcvmsg` (blocking read); DMA buffers |
| TEE interface | `Lib/common/src/tee_if.c` | none beyond the handle | `tee_init`, `tee_deinit`, `process_cmd` = `send_cmd` + `recv_cmd` |
| ACD library | `Lib/sec_tool_lib/src/umip_access.c` | none between calls | `lock_`, `wipe_`, `set_`, `get_`, `provision_customer_data`; PMDB and RPMB functions (unsupported in the BAYTRAIL build) |
| ACD firmware (external) | - | the table of customer data: locked or not, fields, keys | carries out or refuses commands |
| SEP service | `Lib/service/sepserviceapp` `ISEPServiceImpl.java` | the static `IHAError` | about 20 operations on libiha (external), `IHAGetLastError` |
| its client | `Lib/service/apimanagers` `IHAManager.java` | the static `IHAManagerError`, a binder proxy per object | the same operations: argument check, binder call, fetch of the error |
| SEPManager, SEPServiceApp, sepdrmjni | `Lib/service` | a flag `isInitialized` | registration, initialisation, stubs |
| libipt | `Lib/IPT_OTP/libipt/src` | global `g_req_param`, `g_resp_param` | IPT commands to an applet in the firmware, MVFW commands |
| libsepkeymaster | `libsepkeymaster` | the statics `caps_obtained`, `key_opaque_size` of the process; a log level | `sep_keymaster_send_cmd`: a keymaster command translated to HECI, sent, and the answer translated back |
| libmeimm | `meimm` | `struct meimm`: status, descriptor, mapping | init, allocate and map, free memory, deinit; getters and copy |
| sec_tool | `App/sec_tool`, `misc_utils.c` | none; its files, and the write protection the driver keeps | one command line per process: an ACD command, or the write protection of the softfuses |
| txei_test | `App` | none | a manual test |

How they interact: the ACD library, libipt and the tools call the TEE interface,
which calls libtxei, which talks to the firmware through the MEI driver.
libsepkeymaster carries its own copy of libtxei (`txei_drv.c`). The SEP
service talks to libiha, outside the repository, over JNI, and to its clients over the binder.

What is hard in it, and what makes each part correct:

* **libtxei and the TEE interface.** A command is written, awaited for ten
  seconds and then read in a blocking read, and no step undoes an earlier one: a send
  that is reported to have failed may still take effect; a read may wait for an
  answer nobody will send. Correct: handles are never confused between threads;
  a call can only be stuck where no command was written.
* **ACD library.** Error exits drop the connection without closing it, and status
  words pass through `uint32_t`, negation and `int`. Correct: what the caller is
  told can be relied on, now and later, and connections are not lost by calls that
  succeed.
* **SEP service.** Exceptions do not cross the binder, so a failure travels as
  two unsynchronised statics and a second call. Correct: a failure reaches the caller
  of the operation that failed, and only that one.
* **libipt.** Request and answer are globals without a lock, and every call uses
  them twice, with a blocking exchange in between. Correct: a call that no other overlaps with
  gets the answer to its own message and no remains of an earlier one, and every
  exit closes the connection.
* **libsepkeymaster.** The first calls of several threads all ask the firmware for its
  capabilities and store them without a lock, while others build requests from them; a send
  that timed out leaves the command with the driver. Correct: every request is built for the
  size the firmware stated; the code and the result of a call say what the firmware
  said, and which commands may be repeated; every exit closes.
* **libmeimm.** A handle goes through states with a step of the kernel between any two, each
  of which may fail, and shares the descriptors of its process with libraries it does not
  know. Correct: a handle that says it has memory has it; a close hits only its own
  descriptor; every descriptor is accounted for.
* **sec_tool.** The outcome of a command has to fit one byte of exit status, from ints with three
  meanings; its arguments are narrowed before they are checked. Correct: the checks of tool
  and library agree, a failure may be repeated, a success was carried out, output is neither
  lost nor overwritten for nothing, and nothing but the softfuses is locked for good as long as
  nobody else selects in the driver just then.

`PROJECT.json` lists every hazard with its line and the properties that watch it.

## 2. Modules

```
Txei  <-  TeeIf  <-  UmipAccess  <-  MCUmipAccess        (EXTENDS)
AcdTable <- UmipAccess, AcdService
UmipAccess: INSTANCE AcdService            (refinement)
Txei <- TxeiProofs;  UmipAccess, TxeiProofs <- UmipAccessProofs <- AcdRefinement
Txei <- Ipt <- MCIpt;  Ipt, TxeiProofs <- IptProofs
IhaErrorChannel <- MCIhaErrorChannel;  IhaErrorChannel <- IhaErrorChannelProofs
Txei <- Keymaster, Meimm <- KeyDevice <- MCKeyDevice;  KeyDevice, TxeiProofs <- KeyDeviceProofs
UmipAccess <- SecTool <- MCSecTool;  SecTool, UmipAccessProofs <- SecToolProofs
Exchange <- KeyDevice, Ipt, AcdCommands;  AcdCommands <- SecTool   (INSTANCE, refinement)
SecToolProofs, AcdRefinement <- ToolRefinement
```

**Txei** models libtxei. A handle is its descriptor (`fd[t]`: every call of the
libraries above opens a handle of its own, so a thread has one at a time);
`files[p]` is the part of a process's descriptor table that is open on
`/dev/mei`, `link[p][f]` what travels on a descriptor: at most one request and at most
one answer. `open` returns the lowest free descriptor, which is 0 in a
process without standard input; `mei_sndmsg` and `mei_rcvmsg` refuse 0. Its
operators are steps, conjoined by the caller with its own. `Faults` names
the kernel calls that may fail.

**TeeIf** adds the program counter. `send_cmd` is a write (`SendCmd`) and the
end of a select (`SelectReady`, `SelectGivesUp`), because the firmware and other threads
act in between; `process_cmd` continues with `recv_cmd` whatever `send_cmd`
returned. `ret` and `resp` are the caller's locals. `uint32_t` arithmetic is modulo
`Word`.

**AcdTable** holds the calls and the firmware's table, shared by the next two.
The firmware is external: it may refuse any command, must refuse to lock or write a
locked table or to read an empty field, and otherwise carries the command out.

**UmipAccess** models the five calls: argument checks before connecting
(`Begin`, `Reject`) or after (`GetReject`), and what each makes of the return value and
the response (`LockReturn`, `SetReturn`, `GetReturn`, `ProvReturn`), with `ReturnClosing`
for the exits through `acd_deinit` and `ReturnLeaking` for the exits by
`ptrHandle = NULL; return`. `fate[t]` records what the firmware did about the
current call; no guard of the program reads it.

**AcdService** is what the library promises: a call takes effect at one
instant between its begin and its return, if at all, and the return says
"ok", "no" (not done, and never will be) or "unknown" (a command still under way may
be carried out at any later time). `VerdictOf` in UmipAccess says which ints mean what.

**IhaErrorChannel** models ISEPServiceImpl's and IHAManager's handling of
errors. Every statement that reads or writes one of the two statics is an action, named
for what it does: `Test`, `Take`, `Clear`, `Ask`, `Reset`, `Store`, `Reread` are the
statements of the two `IHAGetLastError`. Operations fall in the kinds the code
treats alike: `IHAInit` (clears the local error, fetches none), `IHADeInit` (fetches
none), `checked` (all others) and `fetch`. The service may die at any moment:
its static is lost, every proxy fails with a RemoteException until the application
gets a new one. `told`, `done` and `alone` are history variables.

**Ipt** models libipt on top of Txei. Its calls are of the kinds that the code treats alike:
`ipt` (`ipt_send_message`), `msg` (`mvsepfw_sendmessage`) and `ctl` (the other MVFW
commands). Each statement that reads or writes `g_req_param` or `g_resp_param` (`req[p]`,
`rsp[p]`) is an action: clear, fill in, send, receive, look at the status, copy the length, copy the
data. A message is a record of whose command, length and text it holds (`Own(t)` is the one
thread t means to send), so that a message mixed from two threads is told apart; an
answer names the message it answers. `None` is a zeroed field, `Caller` what the caller
had in its buffer before. `process_cmd` is written out again because it reads and writes the
globals. `fate` and `alone` are history variables. The codes of the argument checks (`ArgError`) are the
numbers of `mvfw_error.h` and `ipt_error.h`, in the same number space as the applet's statuses (`FwError`).

**Keymaster** models `sep_keymaster_send_cmd`. `at[t]` is the place of a call, `phase[t]`
whether it is in `get_caps` or has come to its own command: both go through `send_req_to_fw` and
`mei_snd_rcv` (`Open`, `Write`, `Receive...`), each over a connection of its own. A statement
that touches a static is an action: `Begin` looks at `caps_obtained`, `StoreSize` and `Latch`
set the two, `Build` allocates the request for the size of that moment and `Fill` fills it
in for the size of the next. (Within one `..._cmd_buf` function the size is read more than
once; these reads are taken as one.) A command is what its checks look at: its
lengths, whether its type and inner lengths are legal, and the caller's buffer. `Needed`, `RequestLength` and the
others are the arithmetic of the code on the real sizes of its structs, modulo `Word`. `Behind(c)`: the
call has left so little room that the first field of the answer is read behind the response buffer;
what is found there is any of `Stray`. `said[t]`, the
answer the firmware gave, and `blank[p]`, that a read returned no bytes, are history variables.

**Meimm** models the handles on `/dev/meimm`, of libmeimm and of `mei_alloc_dma`. `mm[t]` is the
status of the struct and whether its pointer is mapped. `MeimmAllocMap` opens
the device whatever the handle already holds; `lost[p]`, a history variable, keeps what no
handle holds any more.

**KeyDevice** composes the two in one process: some threads send keymaster commands, others
work with shared memory, and all draw on one descriptor table.

**SecTool** puts the command line tool on top of UmipAccess: a thread is a shell, a command
line a process of its own that makes at most one call. `Run` and `RunParsed` are `main` up to the
checks, with the numbers as they are typed (`AcdIndex`, `DataSize`, `DataMaxSize` narrow them);
`ReadInput...` the reading of the input file, `CallLibrary` and `Library` the call, the
`...Done` actions what each command makes of its result, `WriteOutput...` the output file, and
`Exit` the low byte of the status, with the kernel closing what was left open. `Select...`,
`ProtectGpp` and `ReadStatus` are the accesses to the driver's attributes, one by one.
`SelectElsewhere` is any other program that selects a partition or a group there, at any time;
`torn`, a history variable, holds the shells whose process has lost its selection to one before it locked.

**Exchange** is what libsepkeymaster and libipt both promise, without connections, buffers
or codes: the firmware decides at most once about the command of a call, after its begin and before
its return; the return leaves a set of decisions possible that contains the one that was made,
and once the call is over nothing is decided any more. Each library says at the end of its module
what its returns leave possible (`Possible`, `Compatible`, collected in `Learnt`).

**AcdCommands** is what the command lines of sec_tool promise: each is an exchange as in
Exchange, and the firmware's table changes by the calls of commands that are under way and by nothing else.
The library itself promises less (AcdService: a command whose answer was not read may be carried out
later); the tool gets the rest from the end of its process, which closes what the library left open.
`StatusTells` says what the byte of exit status means for each command, the
ambiguous values included.

The operators introduced as "Mutant:" in these modules are not part of the models.
Each is a plausible bug; with it in place of the definition it follows, the
property named in `PROJECT.json` fails, which shows that the property depends on that code.

## 3. Runs

| Run | Instance | Checks |
|---|---|---|
| `acd_all` | 1 thread, 12 calls (each kind, each way to be illegal), all faults, 3 descriptors with 0 free | `TypeOK`, `LeakOnlyOnFailure`, `IInv`, `ImplementsService` |
| `acd_threads` | 2 threads of a process, 3 calls, connect and read failures, 2 descriptors | `HandlesExclusive`, `NegativeIsFinal`, `ReturnTells`, `NoHang`, `ImplementsService` |
| `acd_live` | 2 processes, 1 and 2 descriptors, write and read failures, fairness | `CallsReturn` |
| `acd_lock_refused` | 1 thread, lock | `LockFailureIsNegative` is violated |
| `acd_set_unread` | 1 thread, set | `SetFailureIsNegative` is violated |
| `iha_threads` | 2 threads of an application, every kind may fail | `TypeOK`, `NoLostFailure`, `IInv` |
| `iha_alone` | 1 thread that follows its exceptions up, 2 error codes | `OwnError` |
| `iha_two_clients` | 2 applications | `FailureIsReported` is violated |
| `ipt_threads` | 2 threads of a process, one makes `ipt` and `ctl` calls, the other `msg`; all faults | `TypeOK`, `ConnectionsClosed`, `OwnAnswer`, `StatusIsOwn`, `IInv`, `ImplementsExchange` |
| `key_device` | 2 threads with 4 keymaster commands and one with a handle on shared memory, in a process without standard input, 3 descriptors; connects and allocations fail, reads of nothing, selects that give up; fairness | `TypeOK`, `HandlesExclusive`, `ConnectionsClosed`, `CodesTell`, `ResultIsFirmwares`, `RequestsFit`, `AddressIsLive`, `DescriptorsAccounted`, `IInv`, `NothingAfterReturn`, `ImplementsExchange`, `CallsReturn` |
| `sec_tool` | 2 shells with a process each, 10 command lines of 6 commands and of none; reads and allocations fail; other programs select | `ToolIInv` (with the types), `LibraryAccepts`, `FailureNotDone`, `SuccessDone`, `OldFileKept`, `OutputNotLost`, `OnlySoftfuse`, `ImplementsCommands` |
| `ipt_status_mixed` | 2 threads of a process, every kind, no kernel call fails | `StatusIsCarriedBack` is violated |

What the properties say:

* `HandlesExclusive` - no two threads hold the same open descriptor, and a handle that was
  neither closed nor lost is open: no close hits somebody else's connection.
* `LeakOnlyOnFailure` - a connection outlives its call only when the call failed,
  and never after `get_customer_data`.
* `NegativeIsFinal` - a negative int from set or provision means that the command was not
  carried out and is not waiting on an abandoned connection either, so it can be
  repeated. It is this, and not "an error occurred", that the odd value +1 of an unread
  answer (finding below) keeps true.
* `ReturnTells` - the contract of the five calls, as the code keeps it: for each int that can come
  back, whether the command was done, refused, never sent, or whether nothing follows (`Tells`). In
  particular success of set and provision means that the command was carried out, unless
  reads may return no bytes, which `recv_cmd` takes for success; 0 from lock and wipe means
  an answer, be it a refusal; 1 may be a failed read; and only the return of a failed read
  (-1 or 1, by the kind of the call) leaves behind a command that may still be carried out.
* `NoHang` - if writes do not fail, no call is blocked in a read for which nothing is
  outstanding. `CallsReturn` is the liveness counterpart.
* `ImplementsService` - every behaviour is one of AcdService; where reads may be empty,
  successes of set and provision are read as "unknown".
* `NoLostFailure` - a failed operation returns normally only if another call
  overlapped with it. `OwnError` - a lone client that calls `IHAGetLastError` after
  every exception is told exactly its own operation's error, whatever the service's
  deaths.
* `ConnectionsClosed` - of libipt: what a process has open is what its calls under way work on: no
  exit loses a connection (unlike the ACD library's). Of libsepkeymaster: it is the connection
  of an exchange under way, or belongs to (or was lost by) the handles on shared memory.
* `OwnAnswer` - a call of libipt that nobody overlapped with, though others may have run before
  and been cut off anywhere, returns the answer to its own message, with that answer's length,
  or no answer; never the remains of an earlier one.
* `StatusIsOwn` - such an MVFW command succeeds only if the applet carried it out or replied
  with no bytes; an error other than 0xFFFFFFFF means that it was not carried out, and may be repeated. It
  means that the applet refused only where the library has no such code of its own: the code of a failed
  argument check is a number the applet may return as well. It excludes
  `ipt_send_message`, which once connected returns the 0 of `ipt_tee_intf_deinit` whatever
  happened (`ipt.c:181`).

* `RequestsFit` - whatever first calls overlap, a request is allocated and filled in for
  the size the firmware stated and is within `MAX_HECI_MSG_SIZE`. It does not hold of a
  process in which a read once returned no bytes: `get_caps` succeeds on the blank answer, and 0
  is cached; it stays, unless another thread whose `get_caps` overlapped stores the real size afterwards, which may
  be between the allocation and the filling of somebody's request. `ResultIsFirmwares` has the same exception.
* `ResultIsFirmwares` - with the code SUCCESS the firmware has answered this command, the
  result is what it said, and what was copied lay within its answer as received. For `verify`, `get_public`
  and `sign` the caller has to provide four bytes more than the check asks for (see below).
* `CodesTell` - after the codes for errors of arguments, memory and connection a command may
  be repeated, as the firmware has not seen it. `RSP_BUFFER_TOO_SMALL` has both meanings, and
  `*rsp_length` tells them apart. `NothingAfterReturn` - no command is carried out after its
  call returned, even one that timed out: the close takes it back. That the driver does so, and that the
  firmware does not carry out what it had taken already, is an assumption about code outside the tree.
* `ImplementsExchange` - of libsepkeymaster and libipt: every behaviour is one of Exchange. For libipt
  that includes overlapping calls, about which `OwnAnswer` and `StatusIsOwn` say nothing: of those the
  caller learns only that an `ipt_send_message` with an error was not seen by the applet; but no command is
  decided on twice or late. For libsepkeymaster, a length that is made of bytes behind the response buffer
  excludes no answer.
* `ImplementsCommands` - every behaviour of `sec_tool` processes is one of AcdCommands. It rests on the same
  assumption: what is still travelling when the exit of a process closes its connection is dropped.
* `IInv` of each module is the inductive invariant its proof rests on (section 4).
* `AddressIsLive` - a handle of libmeimm whose status is ALLOCATED has a mapped pointer and an open
  descriptor, whatever failed before. `DescriptorsAccounted` - what is open is held by
  exactly one handle, or was lost in one of the two ways there are: a second
  allocation on an open handle (`meimm.c:167`), and descriptor 0 in `mei_alloc_dma`
  (`txei_drv.c:271`).
* `LibraryAccepts` - what passes the checks of the tool passes those of the library: its
  positive codes, which the tool would take for success, never come.
* `FailureNotDone` - an `acd-write` that failed may be run again. `SuccessDone` - one that
  succeeded was carried out, but for the exceptions its comment names, which are the
  disagreements below.
* `OldFileKept` and `OutputNotLost` - the output file changes only once there is
  data to write, and `acd-prov` does not succeed without it. `OnlySoftfuse` - whatever was selected before, and however processes of the
  tool interleave, `gpp-wp-lock` locks the softfuses and nothing else, and has locked them when it succeeds,
  unless another program has selected between its selection and its lock. The driver has no way to select and lock in
  one step, so with such a program the tool locks another pair and reports success: the condition is where its promise ends.

### Bounds, and why they are enough

* Two threads: the threads of a process interact only through the descriptor table and the
  firmware's table, and a conflict takes one other party. The proofs
  lift the bound for the invariants.
* `MaxFd` 2: with 0 reserved two connections fit, so that with a leaked one both "two
  open" and "no descriptor left" happen; with 0 free, three.
* `MaxIndex` 1, `MaxData` 2: sizes 0, 1, 2 and 3 are the empty, the
  ambiguous, an ordinary and an illegal size. A field's data are represented by their size.
* `Word` 64: any even word with room for codes above `MaxData` and below half; the
  assumption `UmipAssumption` says what is needed, and the proofs use only that.
* One firmware refusal code, one or two libiha codes: the code only compares them with success.
  In the runs of libipt the applet's is 1, the number of a failed argument check, so that the two are confused.
* `ipt_threads` divides the kinds between the threads to stay small. Every step of the `ipt` and
  `msg` paths interleaves with the other; two calls of one kind interact through the same
  statements, and the proofs cover any division.
* `key_device`: one thread sends what the firmware takes; the other has a header too small,
  a buffer with room for one of two sizes of signature, and one with room for none, so that two
  first calls can overlap at each of their statements. A command that is not known, refused before
  anything is sent, is left to the proofs. A blob of 40 bytes is refused while the size of a key
  is unknown, which tells the two states of the cache apart. `Stray` holds a size like that of an
  answer and one for which the sum wraps around in `Word`. With three descriptors, 0 included,
  every thread can hold one, or one too few is left after a loss.
* `sec_tool`: the numbers of `acd-write` wrap around (257 for 1, 65538 for 2); a file may be
  of the right size, too large, or another size than was typed. Each shell runs one process at a
  time, any number one after the other; the second one only locks the data and looks at the
  write protection, which are the steps that can come between those of the first.
  Other programs select another partition (`OtherParts` = {0}) or another group (`OtherGroups` = {1}), which is
  all that a selection can be distinguished by: right or wrong.
* Threads are interchangeable where `SYMMETRY` is given (same process).

### Fairness

`LiveSpec` asks weak fairness of each thread's steps, except that nothing is promised
about a blocked `read()` failing, and of the firmware for each connection. The code
runs on ordinary preemptive threads, waits only in `select` (with a timeout) and `read`, and the
firmware serves every client; nothing stronger is assumed. `acd_live` uses it. `LiveSpec` of
KeyDevice asks weak fairness of the steps of a call that has begun, and nothing of the firmware:
libsepkeymaster never reads before its `select` has seen an answer or given up.
Deadlock is checked everywhere.

## 4. Proofs

`TxeiProofs` has one lemma for each operation of libtxei: what it does to the descriptors
and traffic of the other threads. `UmipAccessProofs` proves `Spec => []IInv` and from it
`TypeOK`, `HandlesExclusive`, `LeakOnlyOnFailure`, `NegativeIsFinal`, `ReturnTells`
and `NoHang`, for any set of threads, processes, calls, faults, codes and sizes
that satisfies the named assumptions (`TxeiAssumption`, `WordAssumption`, `AcdAssumption`,
`UmipAssumption`).

None of these is inductive: that a negative result is final depends on what was on the
connection when it was read. `IInv` adds that a thread's place in the code fixes the traffic
on its connection (`OnConnection`: nothing yet; a request nobody answered or an
answer nobody read; both gone), that an answer tells the truth about `fate`
(`Truthful`), and that only checked arguments are ever sent. `NoHang` follows since a thread in
`recv` that has nothing outstanding came there by a failed write or descriptor 0.
The proof has one lemma per action. `Frame` says that a step of one thread leaves
the others' invariant alone, which is `HandlesExclusive` at work. `ReturnTells` needs the
invariant to say also under which circumstances a thread can be at `check` with a failed read
(`Unreadable`: a read may fail, or the process has no standard input and was given descriptor 0).

`AcdRefinement` proves `Spec => ImplementsService` from it: UmipAccess implements AcdService.
The mapping is the one TLC checks: `Stage` and `Got` read `fate` and the connection,
`VerdictFor` reads the int that was returned, `Limbo` collects the commands on connections
whose call is over. A begin, a rejected call, an answer and a return are one step of the service each, all
others none. `IInv` speaks of connections that a thread holds; the abandoned ones need two facts more
(`Traffic`): a closed descriptor carries nothing, or a new connection would take
commands out of limbo, and none carries two commands, or an answer would decide both. An answer is
`Apply` or `Refuse` for the one thread that waits for it, otherwise `Late` for a command in
limbo (`AnswerMaps`). A return that leaves its connection open is "no" only after a
refusal was read, and "unknown" when its command may be out (`LeakingUnknown`): this is the
sense in which the error codes of the library can be trusted.

`IhaErrorChannelProofs` proves `TypeOK`, `NoLostFailure` and `OwnError` for
any threads, applications, proxies and codes. Its `IInv` has two parts: `Kept` - while an operation that
nobody overlapped with is under way, its error is in the service's static,
then in a local, then in the application's static, or the proxy is dead - and `Traced`,
for a single polite client: at each place both statics hold exactly this
operation's error or nothing. `Secluded` says that an operation nobody overlapped with is the only
one under way, so that the others' steps need no case analysis.

`IptProofs` proves `TypeOK`, `ConnectionsClosed`, `OwnAnswer` and `StatusIsOwn` for any
threads, processes, division of the kinds, faults and status codes (`TxeiAssumption`,
`IptAssumption`). What a call is told was decided by globals and a connection
that it filled many steps before, so `IInv` says, for a call nobody overlapped with,
what they hold at each place: `Globals` (how much of the message is there, and that the
answer is blank until the read), `Traffic` (the connection carries this message or a
truthful answer to it) and `Told` (the caller's buffer). `Connected` and `Secluded` hold of
every thread. A step of one thread keeps the invariant of the others for one of two reasons
(`Frame`, `OthersStay`): they are in another process, or one of the two is not alone.
The facts about descriptors come from `TxeiProofs`.

That argument says nothing about calls that overlap. `ImplementsExchange` does, and is proved from
a second part of the invariant, `Fated`, beside the first (`Core`): whatever the globals
hold, a call writes once, to a connection only it has, and closes it before it returns; so as
long as a message waits there, or none was written, the applet has decided nothing about the
call. A begin, a rejected call, an answer of the applet and a return are one step of Exchange each.

`SecToolProofs` proves the invariants of `sec_tool`, and `ToolTypeOK`, for any shells, command lines, codes
and faults, from the assumptions of the library, `SecToolAssumption` (the limits of the library fit
8 and 16 bits) and `ExitAssumption` (no code of the library has a low byte of 0, without which
a failed `acd-prov` would exit with success). `ToolIInv` extends `IInv`, which a new process
re-establishes because it starts without a connection and without a past (`Unborn`). `Told`
is what a return tells: which ints may come back, and that a response with bytes was an
answer to this call. `Place` carries the checks of `main` to the call, where they imply
those of the library, and `Selected` says what the driver has selected at each place: every
process of the tool only ever selects partition 1 and group 0, so their selections do each other no harm, and a
process that another program has come in between is `torn` until it ends.

`ToolRefinement` proves `ToolSpec => ImplementsCommands`. That a command leaves nothing behind needs
more than `ToolIInv`, which speaks of a call until it returns (`TInv`): every open descriptor is one
that a running process knows of (`Held`), what waits on it is the command the process runs, not
decided yet (`Pending`), and closed descriptors carry nothing (`Traffic`, from AcdRefinement). An answer
of the firmware is then `Apply` or `Refuse` for the one shell that waits for it (`FirmwareMaps`),
never a late one. An exit is `Return`: `ExitMaps` derives from `ReturnTells` and the place of the process,
command by command, that the low byte of its status says of the command what `StatusTells` reads in it.

`KeyDeviceProofs` proves every property of `key_device` but `CallsReturn`, for any threads, processes,
commands, sizes of keys and answers, refusals and faults (`TxeiAssumption`,
`KeymasterAssumption`). Its `IInv` has a part for a thread in a call (`Own`), one for a handle on
shared memory (`Mapped`) and one for the statics (`Cached`). `Connected` ties the
place of a call to its connection, which carries the message of the call or the answer to it, and
`Said` and `Heard` follow the answer from the firmware to the buffer; `CodeTells` and
`ResultIsFirmware` can then be decided at the return. `Knows` is the argument about the cache:
whatever thread set `caps_obtained` had stored the size before, and, unless a read was blank, no thread ever stores
another one, so that the unlocked statics are `Steady`: a step of another thread may change
them between `Build` and `Fill`, but not once the size has been stored. `Frame` rests on that, and on the
descriptors being exclusive; `Account` says what a step of either library does to the descriptor
table. `NothingAfterReturn` follows because a call that has returned has no connection.
`ImplementsExchange` follows too (`KeyImplementsExchange`): a call sends two commands at most, the first to
ask for the capabilities, and only the answer to its own is a `Decide`; what the codes
leave possible (`Possible`) is `CodesTell` and `ResultIsFirmwares` read backwards.

Three theorems say how far the disagreements of section 5 reach. `SetFailuresNegative`: with legal arguments,
readable answers and standard input, every failure of `set_customer_data` is negative as documented,
failed connects and writes included. `StatusCarriedBackUnshared`: where no two threads share a process,
no refused MVFW command succeeds. `FailureReportedToOne`: a single caller of the SEP service is
told of every failed operation. Each of the three runs gives up one of these conditions, and fails.

Only model-checked: `CallsReturn` of both runs
(liveness under fairness is out of the prover's reach, as are `ENABLED` and
induction over recursive data, which these modules do not use).

## 5. Where the code and its documentation disagree

* `lock_customer_data` returns 0 although the firmware refused (`umip_access.c:128`,
  documented at `umip_access.h:162`): `acd_lock_refused`.
* `set_customer_data` returns 1 when the answer could not be read (`umip_access.c:280`,
  `umip_access.h:199`): `acd_set_unread`.
* A failed operation of the SEP service may return normally when there are two
  clients (`ISEPServiceImpl.java:816-820`, `IHAManager.java:222`): `iha_two_clients`.
* An MVFW command the firmware refused returns success when another thread's command
  resets the status in between (`mvfw_api.c:83`, documented at `mvfw_api.c:119`):
  `ipt_status_mixed`.

Seen while modelling and not given a run:

* `rsp_id` of a keymaster response is made from the `ResponseCode` of the firmware's
  answer (`sep_keymaster.c:864`) and not, as `intelkeymaster_firmware_api.h:127` has it, from the
  id of the command. It is so in every call; nothing in the tree reads it.
* A caller of `verify` needs a response of 12 bytes, and 12 are accepted (`sep_keymaster.c:787`),
  but the firmware's answer is then received in 20 bytes of its 24, without `Verified`: the
  result is read behind the buffer (`sep_keymaster.c:838`, `:468`). So are `KeySize` of `get_public` and
  `SignatureSize` of `sign` when `*rsp_length` is 12 to 15 (`:402`, `:438`): `*rsp_length` is then made of whatever is
  there. For a value close to 2^32 the `uint32_t` sum wraps, passes the check and is copied from
  (`:410`, `:425`); the model returns SUCCESS in that case (`Behind`, `Stray`), where a process would
  most likely not survive the copy.
* `meimm_alloc_map_memory` returns 0 when the `mmap` fails, as `ret` is that of the `ioctl`
  before (`meimm.c:187`); the two `mei_alloc_dma` compare the result of `mmap` with NULL.
* `acd-prov` exits with success when its input file is too large (`sec_tools_app.c:472`,
  whose function is documented to return an error, `:435`); `acd-write` when the answer could
  not be read (`:906`); `acd-read` when its output could not be written (`:884`).
* The argument checks of libipt and the applet have the same codes (`mvfw_error.h:25`, `mvfw_api.c:70`, `:120`): a caller
  that gets `MVFW_FAIL_INVALID_PARAM` cannot tell whether the applet has seen its command.
* `acd-prov` exits with the low byte of an ACD code, and `gpp-wp-lock` with the
  result of reading the status back: it may fail although the softfuses are locked (`:283`).

Also: `get_customer_data` returns a positive code
for an illegal index (`umip_access.c:338`, documented negative at `umip_access.h:179`);
`IHAInit` never throws the error of libiha it documents (`IHAManager.java:66`).

## 6. Not modelled

Not modelled: the contents of messages, of keys and of shared memory; `rsp_id`; the return values of
libmeimm, which no property relates to; logging; the PMDB and RPMB functions of the library
(constant answers in this build, on which their commands in the tool fail); the JNI
stubs, which call a vendor library; the one flag of SEPManager; `txei_test`; files of 4
GiB and more, whose size the tool keeps in 32 bits.

What the tree holds beyond that is in other hands (the firmware, the MEI driver, libiha), and only
liveness is checked without being proved.
