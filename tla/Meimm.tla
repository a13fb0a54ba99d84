------------------------------- MODULE Meimm -------------------------------
(***************************************************************************)
(* Handles on /dev/meimm, the memory that is shared with the firmware:     *)
(* libmeimm (meimm/meimm.c) and the DMA functions of the two MEI libraries *)
(* (mei_alloc_dma, mei_clear_dma of Lib/txei_lib.c and                     *)
(* libsepkeymaster/txei_drv.c).                                            *)
(*                                                                         *)
(* The handle is a struct of its thread; fd[t] is its descriptor, which    *)
(* comes from the table the MEI connections of the process use too.        *)
(***************************************************************************)
EXTENDS Txei

VARIABLES
  mm,      (* mm[t]: status of the handle of t, and whether its pointer    *)
           (* points to mapped memory (FALSE once the status is 0: nothing *)
           (* uses the pointer before it is set anew)                      *)
  lost     (* lost[p]: descriptors of process p that are open without a    *)
           (* handle that holds them (a history variable)                  *)

mmVars == <<mm, lost>>

(* "none" is a handle never initialised, or deinitialised: status 0.       *)
Status == {"none", "init", "allocated", "dma"}

MmTypeOK ==
  /\ mm \in [Thread -> [status : Status, live : BOOLEAN]]
  /\ lost \in [Process -> SUBSET Fd]

MmInit ==
  /\ mm = [t \in Thread |-> [status |-> "none", live |-> FALSE]]
  /\ lost = [p \in Process |-> {}]

-----------------------------------------------------------------------------
Becomes(t, status, live) ==
  mm' = [mm EXCEPT ![t] = [status |-> status, live |-> live]]

Lose(t, F) == lost' = [lost EXCEPT ![ProcOf[t]] = @ \cup F]

Held(t) == {fd[t]} \ {NoFd}

Keep(t) == mm[t].status \in {"none", "init", "allocated"}

(* meimm_init, called for a new struct as by meimm_alloc.                  *)
MeimmInit(t) ==
  /\ mm[t].status = "none" /\ fd[t] = NoFd
  /\ Becomes(t, "init", FALSE)
  /\ UNCHANGED <<txeiVars, lost>>

(* meimm_alloc_map_memory: the device is opened whatever the handle holds, *)
(* so that a descriptor it already has is overwritten.                     *)
MeimmAllocMap(t) ==
  /\ Keep(t)
  /\ MeiConnect(t)
  /\ Lose(t, Held(t))
  /\ Becomes(t, "allocated", TRUE)

(* It fails: open returns -1, over the descriptor the handle had; or the   *)
(* ioctl or mmap does, and meimm_deinit closes the new descriptor again.   *)
MeimmAllocFails(t) ==
  /\ Keep(t)
  /\ FreeFd(ProcOf[t]) = {} \/ "connect" \in Faults
  /\ ForgetHandle(t)
  /\ Lose(t, Held(t))
  /\ Becomes(t, "none", FALSE)

(* Mutant: a failed FREE ioctl leaves the status at ALLOCATED.             *)
MeimmFreeKeepsStatus(t) ==
  /\ mm[t].status = "allocated"
  /\ \/ Becomes(t, "init", FALSE)
     \/ "connect" \in Faults /\ Becomes(t, "allocated", FALSE)
     \/ "connect" \in Faults /\ Becomes(t, "init", TRUE)
  /\ UNCHANGED <<txeiVars, lost>>

(* meimm_free_memory: unmapped, whether or not the FREE ioctl then fails,  *)
(* or not even unmapped.  The descriptor stays open in each case.          *)
MeimmFree(t) ==
  /\ mm[t].status = "allocated"
  /\ \/ Becomes(t, "init", FALSE)
     \/ "connect" \in Faults /\ Becomes(t, "init", TRUE)
  /\ UNCHANGED <<txeiVars, lost>>

(* Mutant: the descriptor is closed but not set to -1.                     *)
MeimmDeinitDangling(t) ==
  /\ Keep(t)
  /\ IF fd[t] # NoFd THEN MeiDisconnectDangling(t) ELSE UNCHANGED txeiVars
  /\ Becomes(t, "none", FALSE)
  /\ UNCHANGED lost

(* meimm_deinit, also as part of meimm_free: nothing is unmapped.          *)
MeimmDeinit(t) ==
  /\ Keep(t)
  /\ IF fd[t] # NoFd THEN MeiDisconnect(t) ELSE UNCHANGED txeiVars
  /\ Becomes(t, "none", FALSE)
  /\ UNCHANGED lost

-----------------------------------------------------------------------------
(* mei_alloc_dma: a failed mmap is not noticed, as it does not return NULL.*)
AllocDma(t) ==
  /\ mm[t].status = "none" /\ fd[t] = NoFd
  /\ MeiConnect(t) /\ fd'[t] > 0
  /\ \E live \in {TRUE, "connect" \notin Faults} : Becomes(t, "dma", live)
  /\ UNCHANGED lost

(* Descriptor 0 is taken for a failed open, and stays open ...             *)
AllocDmaZero(t) ==
  /\ mm[t].status = "none" /\ fd[t] = NoFd
  /\ 0 \in FreeFd(ProcOf[t])
  /\ files' = [files EXCEPT ![ProcOf[t]] = @ \cup {0}]
  /\ Lose(t, {0})
  /\ UNCHANGED <<fd, link, mm>>

(* ... and a real failure leaves nothing behind.                           *)
AllocDmaFails(t) ==
  /\ mm[t].status = "none" /\ fd[t] = NoFd
  /\ MeiConnectFails(t)
  /\ UNCHANGED <<mm, lost>>

(* mei_clear_dma closes, whether or not the FREE ioctl succeeds; nothing   *)
(* tells the caller, who does not use the handle again.                    *)
ClearDma(t) ==
  /\ mm[t].status = "dma"
  /\ MeiDisconnect(t)
  /\ Becomes(t, "none", FALSE)
  /\ UNCHANGED lost

MmStep(t) ==
  \/ MeimmInit(t)
  \/ MeimmAllocMap(t)
  \/ MeimmAllocFails(t)
  \/ MeimmFree(t)
  \/ MeimmDeinit(t)
  \/ AllocDma(t)
  \/ AllocDmaZero(t)
  \/ AllocDmaFails(t)
  \/ ClearDma(t)

-----------------------------------------------------------------------------
(* What meimm_get_addr, meimm_get_size and meimm_memcpy go by: with a      *)
(* handle that says ALLOCATED they use its pointer.                        *)
HasAddress(t) == mm[t].status = "allocated"

(* The pointer they use is mapped, over an open descriptor, whatever       *)
(* failed before: ioctl, mmap, msync or munmap, in an allocation repeated  *)
(* on a handle in use or after a free that did not complete.               *)
AddressIsLive ==
  \A t \in Thread : HasAddress(t) => mm[t].live /\ fd[t] \in files[ProcOf[t]]

(* Every open descriptor is held by the handle of exactly one thread, or   *)
(* was lost in one of the two ways there are: an allocation on a handle    *)
(* that is open, and mei_alloc_dma being given descriptor 0.               *)
DescriptorsAccounted ==
  \A p \in Process :
    LET holders == {t \in Thread : ProcOf[t] = p /\ fd[t] # NoFd} IN
    /\ files[p] = lost[p] \cup {fd[t] : t \in holders}
    /\ \A t \in holders : fd[t] \notin lost[p]

=============================================================================
