--------------------------- MODULE IhaErrorChannel ---------------------------
(***************************************************************************)
(* How a failure in the SEP service reaches the application that asked for *)
(* the operation.  ISEPServiceImpl turns the exception of libiha into a    *)
(* static IHAError, because exceptions do not cross the binder; after each *)
(* operation IHAManager fetches it with a second binder call, by way of a  *)
(* static IHAManagerError of its own, and throws what it finds.            *)
(*                                                                         *)
(* Every binder call runs on a thread of the service of its own, and       *)
(* nothing is synchronized: each statement that touches one of the two     *)
(* statics is a step.                                                      *)
(***************************************************************************)
EXTENDS Integers

CONSTANTS
  Thread,         (* the threads of the applications                       *)
  Process,        (* the processes they run in                             *)
  ProcOf,         (* ProcOf[t] is the process of thread t                  *)
  ErrorCode,      (* the error codes of libiha                             *)
  INVALID_INPUT,  (* the code for arguments IHAManager turns down          *)
  Failing,        (* the kinds of operation that may fail in libiha        *)
  Polite          (* the threads that follow every exception up with       *)
                  (* IHAGetLastError before they do anything else          *)

(* IHAInit, IHADeInit, all the others, and IHAGetLastError itself.         *)
Kind == {"init", "deinit", "checked", "fetch"}

ASSUME IhaAssumption ==
  /\ ProcOf \in [Thread -> Process]
  /\ ErrorCode \subseteq Int \ {0} /\ INVALID_INPUT \in Int \ {0}
  /\ Failing \subseteq Kind \ {"fetch"}
  /\ Polite \subseteq Thread

IHA_RET_S_OK == 0

VARIABLES
  IHAError,         (* the static of the service                           *)
  IHAManagerError,  (* IHAManagerError[p]: the static of process p         *)
  bound,            (* bound[t]: t's proxy belongs to the running service  *)
  pc,               (* pc[t]: where thread t is                            *)
  kind,             (* kind[t]: the kind of its latest operation           *)
  tmp,              (* tmp[t]: the local "status", "Error" or the reply    *)
  owes,             (* owes[t]: an exception was not followed up           *)
  told,             (* told[t]: how its latest operation ended             *)
  done,             (* done[t]: what libiha made of it (history)           *)
  alone             (* alone[t]: no call overlapped with it (history)      *)

vars == <<IHAError, IHAManagerError, bound, pc, kind, tmp, owes, told, done, alone>>

Code   == ErrorCode \cup {INVALID_INPUT, IHA_RET_S_OK}
Places == {"idle", "call", "test", "take", "clear", "ask", "reset", "store", "reread"}
Endings == {"none", "returned", "RuntimeException"}

Returned   == [how |-> "returned", err |-> IHA_RET_S_OK]
Runtime    == [how |-> "RuntimeException", err |-> IHA_RET_S_OK]
IhaThrow(e) == [how |-> "IhaException", err |-> e]
Nothing    == [how |-> "none", err |-> IHA_RET_S_OK]

Init ==
  /\ IHAError = IHA_RET_S_OK
  /\ IHAManagerError = [p \in Process |-> IHA_RET_S_OK]
  /\ bound = [t \in Thread |-> TRUE]
  /\ pc = [t \in Thread |-> "idle"]
  /\ kind = [t \in Thread |-> "checked"]
  /\ tmp = [t \in Thread |-> IHA_RET_S_OK]
  /\ owes = [t \in Thread |-> FALSE]
  /\ told = [t \in Thread |-> Nothing]
  /\ done = [t \in Thread |-> IHA_RET_S_OK]
  /\ alone = [t \in Thread |-> TRUE]

Goto(t, to) == pc' = [pc EXCEPT ![t] = to]

(* Local(t): the static IHAManagerError that thread t sees.                *)
Local(t) == IHAManagerError[ProcOf[t]]
SetLocal(t, e) == IHAManagerError' = [IHAManagerError EXCEPT ![ProcOf[t]] = e]

(* The history variables when thread t enters IHAManager.                  *)
Enter(t) ==
  /\ done' = [done EXCEPT ![t] = IHA_RET_S_OK]
  /\ told' = [told EXCEPT ![t] = Nothing]
  /\ alone' = [u \in Thread |-> IF u = t THEN \A v \in Thread \ {t} : pc[v] = "idle"
                                ELSE alone[u] /\ pc[u] = "idle"]

-----------------------------------------------------------------------------
(* The application calls IHAInit, IHADeInit or an operation with legal     *)
(* arguments.  IHAInit clears the local error first.                       *)
Begin(t, k) ==
  /\ pc[t] = "idle"
  /\ t \in Polite => ~owes[t]
  /\ kind' = [kind EXCEPT ![t] = k]
  /\ Goto(t, "call")
  /\ Enter(t)
  /\ IF k = "init" THEN SetLocal(t, IHA_RET_S_OK) ELSE UNCHANGED IHAManagerError
  /\ UNCHANGED <<IHAError, bound, tmp, owes>>

(* An operation with an illegal argument.                                  *)
Reject(t) ==
  /\ pc[t] = "idle"
  /\ t \in Polite => ~owes[t]
  /\ kind' = [kind EXCEPT ![t] = "checked"]
  /\ SetLocal(t, INVALID_INPUT)
  /\ owes' = [owes EXCEPT ![t] = TRUE]
  /\ done' = [done EXCEPT ![t] = IHA_RET_S_OK]
  /\ told' = [told EXCEPT ![t] = Runtime]
  /\ alone' = [u \in Thread |-> alone[u] /\ pc[u] = "idle"]
  /\ UNCHANGED <<IHAError, bound, pc, tmp>>

(* The application calls IHAGetLastError.                                  *)
Fetch(t) ==
  /\ pc[t] = "idle"
  /\ kind' = [kind EXCEPT ![t] = "fetch"]
  /\ Goto(t, "test")
  /\ Enter(t)
  /\ UNCHANGED <<IHAError, IHAManagerError, bound, tmp, owes>>

(* What becomes of operation t when it ends with r.                        *)
End(t, r) ==
  /\ Goto(t, "idle")
  /\ told' = [told EXCEPT ![t] = r]
  /\ owes' = [owes EXCEPT ![t] = kind[t] # "fetch" /\ r.how # "returned"]

(* Mutant: an exception handler without its SetLastError.                  *)
PerformUnrecorded(t, e) ==
  /\ pc[t] = "call" /\ bound[t]
  /\ e # IHA_RET_S_OK => kind[t] \in Failing
  /\ done' = [done EXCEPT ![t] = e]
  /\ IF kind[t] = "checked" THEN Goto(t, "test") /\ UNCHANGED <<told, owes>>
                            ELSE End(t, Returned)
  /\ UNCHANGED <<IHAError, IHAManagerError, bound, kind, tmp, alone>>

(* The service carries the operation out; if libiha throws, SetLastError   *)
(* records the code.  IHAInit and IHADeInit are done when this is done.    *)
Perform(t, e) ==
  /\ pc[t] = "call" /\ bound[t]
  /\ e # IHA_RET_S_OK => kind[t] \in Failing
  /\ done' = [done EXCEPT ![t] = e]
  /\ IHAError' = IF e = IHA_RET_S_OK THEN IHAError ELSE e
  /\ IF kind[t] = "checked" THEN Goto(t, "test") /\ UNCHANGED <<told, owes>>
                            ELSE End(t, Returned)
  /\ UNCHANGED <<IHAManagerError, bound, kind, tmp, alone>>

-----------------------------------------------------------------------------
(* IHAManager.IHAGetLastError, statement by statement.                     *)

(* if (IHAManagerError != IHA_RET_S_OK)                                    *)
Test(t) ==
  /\ pc[t] = "test"
  /\ Goto(t, IF Local(t) # IHA_RET_S_OK THEN "take" ELSE "ask")
  /\ UNCHANGED <<IHAError, IHAManagerError, bound, kind, tmp, owes, told, done, alone>>

(* status = IHAManagerError;                                               *)
Take(t) ==
  /\ pc[t] = "take"
  /\ tmp' = [tmp EXCEPT ![t] = Local(t)]
  /\ Goto(t, "clear")
  /\ UNCHANGED <<IHAError, IHAManagerError, bound, kind, owes, told, done, alone>>

(* What an operation makes of the error e it has fetched.                  *)
Verdict(t, e) ==
  End(t, IF e = IHA_RET_S_OK \/ kind[t] = "fetch" THEN Returned ELSE IhaThrow(e))

(* Mutant: the local error is returned once it is cleared.                 *)
ClearReturningStatic(t) ==
  /\ pc[t] = "clear"
  /\ SetLocal(t, IHA_RET_S_OK)
  /\ Verdict(t, IHA_RET_S_OK)
  /\ UNCHANGED <<IHAError, bound, kind, tmp, done, alone>>

(* IHAManagerError = IHA_RET_S_OK; return status;                          *)
Clear(t) ==
  /\ pc[t] = "clear"
  /\ SetLocal(t, IHA_RET_S_OK)
  /\ Verdict(t, tmp[t])
  /\ UNCHANGED <<IHAError, bound, kind, tmp, done, alone>>

(* In the service: int Error = IHAError;                                   *)
Ask(t) ==
  /\ pc[t] = "ask" /\ bound[t]
  /\ tmp' = [tmp EXCEPT ![t] = IHAError]
  /\ Goto(t, "reset")
  /\ UNCHANGED <<IHAError, IHAManagerError, bound, kind, owes, told, done, alone>>

(* Mutant: the error of the service is not reset.                          *)
ResetOmitted(t) ==
  /\ pc[t] = "reset" /\ bound[t]
  /\ Goto(t, "store")
  /\ UNCHANGED <<IHAError, IHAManagerError, bound, kind, tmp, owes, told, done, alone>>

(* Mutant: the error is reset to -1.                                       *)
ResetToMinusOne(t) ==
  /\ pc[t] = "reset" /\ bound[t]
  /\ IHAError' = -1
  /\ Goto(t, "store")
  /\ UNCHANGED <<IHAManagerError, bound, kind, tmp, owes, told, done, alone>>

(* In the service: IHAError = IHA_RET_S_OK; return Error;                  *)
Reset(t) ==
  /\ pc[t] = "reset" /\ bound[t]
  /\ IHAError' = IHA_RET_S_OK
  /\ Goto(t, "store")
  /\ UNCHANGED <<IHAManagerError, bound, kind, tmp, owes, told, done, alone>>

(* IHAManagerError = this.service.IHAGetLastError();                       *)
Store(t) ==
  /\ pc[t] = "store"
  /\ SetLocal(t, tmp[t])
  /\ Goto(t, "reread")
  /\ UNCHANGED <<IHAError, bound, kind, tmp, owes, told, done, alone>>

(* return IHAManagerError;                                                 *)
Reread(t) ==
  /\ pc[t] = "reread"
  /\ Verdict(t, Local(t))
  /\ UNCHANGED <<IHAError, IHAManagerError, bound, kind, tmp, done, alone>>

IHAGetLastError(t) ==
  \/ Test(t)
  \/ Take(t)
  \/ Clear(t)
  \/ Ask(t)
  \/ Reset(t)
  \/ Store(t)
  \/ Reread(t)

-----------------------------------------------------------------------------
(* The service dies and its process is started again: the static is fresh, *)
(* and every proxy is dead.                                                *)
ServiceDies ==
  /\ IHAError' = IHA_RET_S_OK
  /\ bound' = [t \in Thread |-> FALSE]
  /\ UNCHANGED <<IHAManagerError, pc, kind, tmp, owes, told, done, alone>>

(* A binder call on a dead proxy, or into a service that died under it,    *)
(* throws RemoteException, which IHAManager wraps in a RuntimeException.   *)
RemoteFails(t) ==
  /\ pc[t] \in {"call", "ask", "reset"} /\ ~bound[t]
  /\ End(t, Runtime)
  /\ UNCHANGED <<IHAError, IHAManagerError, bound, kind, tmp, done, alone>>

(* IHAManager.getInstance.                                                 *)
GetInstance(t) ==
  /\ pc[t] = "idle"
  /\ bound' = [bound EXCEPT ![t] = TRUE]
  /\ UNCHANGED <<IHAError, IHAManagerError, pc, kind, tmp, owes, told, done, alone>>

Next ==
  \/ \E t \in Thread :
       \/ \E k \in Kind \ {"fetch"} : Begin(t, k)
       \/ Reject(t)
       \/ Fetch(t)
       \/ \E e \in ErrorCode \cup {IHA_RET_S_OK} : Perform(t, e)
       \/ IHAGetLastError(t)
       \/ RemoteFails(t)
       \/ GetInstance(t)
  \/ ServiceDies

Spec == Init /\ [][Next]_vars

-----------------------------------------------------------------------------
TypeOK ==
  /\ IHAError \in Code
  /\ IHAManagerError \in [Process -> Code]
  /\ bound \in [Thread -> BOOLEAN]
  /\ pc \in [Thread -> Places]
  /\ kind \in [Thread -> Kind]
  /\ tmp \in [Thread -> Code]
  /\ owes \in [Thread -> BOOLEAN]
  /\ told \in [Thread -> [how : Endings \cup {"IhaException"}, err : Code]]
  /\ done \in [Thread -> Code]
  /\ alone \in [Thread -> BOOLEAN]

(* A checked operation that has ended.                                     *)
Ended(t) == pc[t] = "idle" /\ kind[t] = "checked" /\ told[t] # Nothing

(* A failed operation returns normally only if another call, of any thread *)
(* of any application, overlapped with it.                                 *)
NoLostFailure ==
  \A t \in Thread : Ended(t) /\ alone[t] /\ done[t] # IHA_RET_S_OK => told[t] # Returned

(* A client on its own that follows its exceptions up is told exactly the  *)
(* error of the operation it called, as long as IHAInit and IHADeInit do   *)
(* not fail.                                                               *)
WellBehaved ==
  /\ \A t, u \in Thread : t = u
  /\ Polite = Thread
  /\ Failing \subseteq {"checked"}

OwnError ==
  WellBehaved =>
    \A t \in Thread :
      Ended(t) => told[t] \in {Runtime, IF done[t] = IHA_RET_S_OK THEN Returned ELSE IhaThrow(done[t])}

-----------------------------------------------------------------------------
(* Why they hold: where the error of an operation is while it is on its    *)
(* way to the caller.                                                      *)

(* An operation nobody overlapped with is the only one under way.          *)
Secluded(t) ==
  alone[t] /\ pc[t] # "idle" => \A u \in Thread \ {t} : pc[u] = "idle"

(* Some error is on its way to a failed operation nobody overlapped with,  *)
(* or the binder is about to fail.                                         *)
Kept(t) ==
  /\ pc[t] = "call" => done[t] = IHA_RET_S_OK
  /\ kind[t] = "checked" /\ alone[t] /\ done[t] # IHA_RET_S_OK =>
       /\ pc[t] \in {"test", "ask"} /\ bound[t] => IHAError # IHA_RET_S_OK
       /\ pc[t] \in {"take", "reread"} => Local(t) # IHA_RET_S_OK
       /\ pc[t] \in {"clear", "reset", "store"} => tmp[t] # IHA_RET_S_OK
       /\ pc[t] = "idle" => told[t] # Returned

(* For a client as in OwnError: no error is left over from an operation    *)
(* that is finished with, and the one under way is that of the operation.  *)
Traced(t) ==
  /\ ~bound[t] \/ pc[t] \in {"idle", "call", "take", "clear", "store", "reread"} =>
       IHAError = IHA_RET_S_OK
  /\ \/ pc[t] \in {"call", "ask", "reset", "store"}
     \/ pc[t] = "idle" /\ ~owes[t]
     \/ pc[t] = "test" /\ kind[t] = "checked"
     => Local(t) = IHA_RET_S_OK
  /\ pc[t] \in {"test", "ask", "reset", "store", "reread"} => kind[t] \in {"checked", "fetch"}
  /\ pc[t] \in {"take", "clear"} => kind[t] = "fetch"
  /\ pc[t] = "call" => kind[t] # "fetch"
  /\ kind[t] = "fetch" => done[t] = IHA_RET_S_OK
  /\ pc[t] \in {"test", "ask"} /\ bound[t] => IHAError = done[t]
  /\ pc[t] \in {"reset", "store"} => tmp[t] = done[t]
  /\ pc[t] = "reread" => Local(t) = done[t]
  /\ Ended(t) => told[t] \in {Runtime, IF done[t] = IHA_RET_S_OK THEN Returned ELSE IhaThrow(done[t])}

(* The inductive invariant.                                                *)
IInv ==
  /\ TypeOK
  /\ \A t \in Thread : Secluded(t) /\ Kept(t)
  /\ WellBehaved => \A t \in Thread : Traced(t)

-----------------------------------------------------------------------------
(* "Check for IHA Error from last IHA ISepService call"                    *)
(* (IHAManager.java:222): a failed call is reported as such.               *)
FailureIsReported ==
  \A t \in Thread : Ended(t) /\ done[t] # IHA_RET_S_OK => told[t] # Returned

=============================================================================
