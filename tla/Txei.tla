-------------------------------- MODULE Txei --------------------------------
(***************************************************************************)
(* libtxei (Lib/txei_lib.c): the handles user space opens on the MEI       *)
(* character device, and the request and the answer that travel on each.   *)
(*                                                                         *)
(* A MEI_HANDLE is malloc'ed memory that holds one descriptor, so the      *)
(* model keeps the descriptor only.  The descriptor table belongs to a     *)
(* process and is shared by its threads; open returns its lowest free      *)
(* entry, 0 included when the process runs without standard input.         *)
(***************************************************************************)
EXTENDS Integers, FiniteSets

CONSTANTS
  Thread,    (* the threads that call the library                          *)
  Process,   (* the processes they run in                                  *)
  ProcOf,    (* ProcOf[t] is the process of thread t                       *)
  MaxFd,     (* the largest descriptor a process may have (RLIMIT_NOFILE)  *)
  NoStdin,   (* the processes started without standard input: 0 is free    *)
  Faults     (* the calls into the kernel that are allowed to fail         *)

Fd   == 0 .. MaxFd
NoFd == -1

FaultKind == {"connect", "write", "read", "empty", "alloc"}

ASSUME TxeiAssumption ==
  /\ ProcOf \in [Thread -> Process]
  /\ MaxFd \in Nat
  /\ NoStdin \subseteq Process
  /\ Faults \subseteq FaultKind

VARIABLES
  fd,     (* fd[t]: descriptor of the handle t last opened, NoFd once closed *)
  files,  (* files[p]: descriptors process p has open on /dev/mei          *)
  link    (* link[p][f]: what travels on descriptor f of process p         *)

txeiVars == <<fd, files, link>>

(* At most one request waits for the firmware and at most one answer for   *)
(* the reader: each is a set of no element or of one.                      *)
NoTraffic == [req |-> {}, rsp |-> {}]

LinkOf(t) == link[ProcOf[t]][fd[t]]

TxeiTypeOK(Req, Rsp) ==
  /\ fd \in [Thread -> Fd \cup {NoFd}]
  /\ files \in [Process -> SUBSET Fd]
  /\ link \in [Process -> [Fd -> [req : SUBSET Req, rsp : SUBSET Rsp]]]

TxeiInit ==
  /\ fd = [t \in Thread |-> NoFd]
  /\ files = [p \in Process |-> {}]
  /\ link = [p \in Process |-> [f \in Fd |-> NoTraffic]]

-----------------------------------------------------------------------------
(* Every operator below is a step of thread t, to be conjoined with what   *)
(* the caller does in that step.                                           *)

(* The descriptors an open() in process p can still return.                *)
FreeFd(p) == {f \in Fd \ files[p] : f = 0 => p \in NoStdin}

(* mei_connect succeeds: the lowest free descriptor, a silent connection.  *)
MeiConnect(t) ==
  LET p == ProcOf[t] IN
  \E f \in FreeFd(p) :
    /\ \A g \in FreeFd(p) : f <= g
    /\ fd' = [fd EXCEPT ![t] = f]
    /\ files' = [files EXCEPT ![p] = @ \cup {f}]
    /\ link' = [link EXCEPT ![p][f] = NoTraffic]

(* mei_connect returns NULL: no descriptor is left, or calloc, open or the *)
(* connect ioctl fails; whatever was opened is closed again.               *)
MeiConnectFails(t) ==
  /\ FreeFd(ProcOf[t]) = {} \/ "connect" \in Faults
  /\ UNCHANGED txeiVars

(* Mutant: the descriptor is closed but stays in the handle.               *)
MeiDisconnectDangling(t) ==
  /\ files' = [files EXCEPT ![ProcOf[t]] = @ \ {fd[t]}]
  /\ link' = [link EXCEPT ![ProcOf[t]][fd[t]] = NoTraffic]
  /\ UNCHANGED fd

(* mei_disconnect: close(fd); the driver drops what was still travelling.  *)
MeiDisconnect(t) ==
  /\ files' = [files EXCEPT ![ProcOf[t]] = @ \ {fd[t]}]
  /\ link' = [link EXCEPT ![ProcOf[t]][fd[t]] = NoTraffic]
  /\ fd' = [fd EXCEPT ![t] = NoFd]

(* mei_sndmsg up to its write(): message m is handed to the driver.        *)
MeiWrite(t, m) ==
  /\ fd[t] > 0
  /\ link' = [link EXCEPT ![ProcOf[t]][fd[t]].req = {m}]
  /\ UNCHANGED <<fd, files>>

(* Mutant: mei_sndmsg refuses descriptor 1 as well; mei_rcvmsg does not.   *)
MeiWriteFailsAtOne(t) ==
  /\ fd[t] <= 1 \/ "write" \in Faults
  /\ UNCHANGED txeiVars

(* mei_sndmsg returns -1 without a message handed over: the descriptor is  *)
(* 0, which mei_connect accepts and mei_sndmsg does not, or write() fails. *)
MeiWriteFails(t) ==
  /\ fd[t] <= 0 \/ "write" \in Faults
  /\ UNCHANGED txeiVars

(* The select() of mei_sndmsg: an answer is there, or ten seconds pass or  *)
(* select fails first; in both cases the message stays with the driver.    *)
MeiReadable(t) == LinkOf(t).rsp # {}

(* mei_rcvmsg reads answer r.                                              *)
MeiRead(t, r) ==
  /\ fd[t] > 0
  /\ r \in LinkOf(t).rsp
  /\ link' = [link EXCEPT ![ProcOf[t]][fd[t]].rsp = {}]
  /\ UNCHANGED <<fd, files>>

(* mei_rcvmsg returns -1: descriptor 0 again, or read() fails.             *)
MeiReadFails(t) ==
  /\ fd[t] <= 0 \/ "read" \in Faults
  /\ UNCHANGED txeiVars

(* A caller that loses its handle: nothing is closed.                      *)
ForgetHandle(t) ==
  /\ fd' = [fd EXCEPT ![t] = NoFd]
  /\ UNCHANGED <<files, link>>

(* The firmware takes the request waiting on descriptor f of process p and *)
(* leaves answer r.                                                        *)
MeiAnswer(p, f, r) ==
  /\ link' = [link EXCEPT ![p][f] = [req |-> {}, rsp |-> {r}]]
  /\ UNCHANGED <<fd, files>>

-----------------------------------------------------------------------------
(* Two threads never hold the same open descriptor, and a handle that was  *)
(* neither closed nor lost refers to an open descriptor: no mei_disconnect *)
(* closes a descriptor that was closed before and reused by another        *)
(* thread's mei_connect.                                                   *)
HandlesExclusive ==
  /\ \A t \in Thread : fd[t] # NoFd => fd[t] \in files[ProcOf[t]]
  /\ \A t, u \in Thread :
       t # u /\ ProcOf[t] = ProcOf[u] /\ fd[t] # NoFd => fd[t] # fd[u]

=============================================================================
