------------------------ MODULE IhaErrorChannelProofs ------------------------
(***************************************************************************)
(* IInv is an inductive invariant of IhaErrorChannel, for any threads,     *)
(* processes and error codes; NoLostFailure and OwnError follow.           *)
(***************************************************************************)
EXTENDS IhaErrorChannel, TLAPS

(* The endings of an operation are told apart by "how".                    *)
LEMMA EndingsDiffer ==
  /\ Returned # Nothing /\ Runtime # Nothing /\ Runtime # Returned
  /\ \A e \in Int : IhaThrow(e) # Returned /\ IhaThrow(e) # Nothing
<1>1. /\ Returned.how = "returned" /\ Nothing.how = "none" /\ Runtime.how = "RuntimeException"
      /\ \A e \in Int : IhaThrow(e).how = "IhaException"
  BY DEF Returned, Nothing, Runtime, IhaThrow
<1> QED BY <1>1

LEMMA CodesAreInts == Code \subseteq Int /\ IHA_RET_S_OK \in Code
BY IhaAssumption DEF Code, IHA_RET_S_OK

-----------------------------------------------------------------------------
(* Types.                                                                  *)

LEMMA InitType == Init => TypeOK
BY IhaAssumption
   DEF Init, TypeOK, Code, Places, Kind, Nothing, Endings, IHA_RET_S_OK

LEMMA EndType ==
  ASSUME TypeOK, NEW t \in Thread, NEW r \in [how : Endings \cup {"IhaException"}, err : Code],
         End(t, r)
  PROVE  /\ pc' \in [Thread -> Places] /\ owes' \in [Thread -> BOOLEAN]
         /\ told' \in [Thread -> [how : Endings \cup {"IhaException"}, err : Code]]
BY DEF End, Goto, TypeOK, Places

LEMMA RecordTypes ==
  /\ {Returned, Runtime, Nothing} \subseteq [how : Endings \cup {"IhaException"}, err : Code]
  /\ \A e \in Code : IhaThrow(e) \in [how : Endings \cup {"IhaException"}, err : Code]
BY CodesAreInts DEF Returned, Runtime, Nothing, IhaThrow, Endings

LEMMA NextType == TypeOK /\ [Next]_vars => TypeOK'
<1> SUFFICES ASSUME TypeOK, [Next]_vars PROVE TypeOK'
  OBVIOUS
<1> USE CodesAreInts
<1>1. ASSUME NEW t \in Thread, NEW k \in Kind \ {"fetch"}, Begin(t, k) PROVE TypeOK'
  BY <1>1, RecordTypes, IhaAssumption DEF Begin, TypeOK, Enter, SetLocal, Goto, Places
<1>2. ASSUME NEW t \in Thread, Reject(t) PROVE TypeOK'
  BY <1>2, RecordTypes, IhaAssumption DEF Reject, TypeOK, SetLocal, Kind, Code
<1>3. ASSUME NEW t \in Thread, Fetch(t) PROVE TypeOK'
  BY <1>3, RecordTypes DEF Fetch, TypeOK, Enter, Goto, Places, Kind
<1>4. ASSUME NEW t \in Thread, NEW e \in ErrorCode \cup {IHA_RET_S_OK}, Perform(t, e)
      PROVE  TypeOK'
  <2>1. e \in Code
    BY DEF Code
  <2>2. CASE kind[t] = "checked"
    BY <1>4, <2>1, <2>2 DEF Perform, TypeOK, Goto, Places
  <2>3. CASE kind[t] # "checked"
    BY <1>4, <2>1, <2>3, EndType, RecordTypes DEF Perform, TypeOK
  <2> QED BY <2>2, <2>3
<1>5. ASSUME NEW t \in Thread, Test(t) \/ Take(t) \/ Ask(t) \/ Reset(t) \/ Store(t)
      PROVE  TypeOK'
  <2>1. CASE Test(t)
    BY <2>1 DEF Test, TypeOK, Goto, Places
  <2>2. CASE Take(t)
    BY <2>2, IhaAssumption DEF Take, TypeOK, Goto, Places, Local
  <2>3. CASE Ask(t) \/ Reset(t)
    BY <2>3 DEF Ask, Reset, TypeOK, Goto, Places
  <2>4. CASE Store(t)
    BY <2>4, IhaAssumption DEF Store, TypeOK, Goto, Places, SetLocal
  <2> QED BY <1>5, <2>1, <2>2, <2>3, <2>4
<1>6. ASSUME NEW t \in Thread, Clear(t) \/ Reread(t) PROVE TypeOK'
  <2>1. PICK e \in Code : Verdict(t, e)
    BY <1>6, IhaAssumption DEF Clear, Reread, Local, TypeOK
  <2>2. PICK r \in [how : Endings \cup {"IhaException"}, err : Code] : End(t, r)
    BY <2>1, RecordTypes DEF Verdict
  <2>3. IHAManagerError' \in [Process -> Code]
    BY <1>6, IhaAssumption DEF Clear, Reread, SetLocal, TypeOK
  <2>4. UNCHANGED <<IHAError, bound, kind, tmp, done, alone>>
    BY <1>6 DEF Clear, Reread
  <2> QED BY <2>2, <2>3, <2>4, EndType DEF TypeOK
<1>7. ASSUME NEW t \in Thread, RemoteFails(t) PROVE TypeOK'
  BY <1>7, EndType, RecordTypes DEF RemoteFails, TypeOK
<1>8. ASSUME NEW t \in Thread, GetInstance(t) PROVE TypeOK'
  BY <1>8 DEF GetInstance, TypeOK
<1>9. CASE ServiceDies
  BY <1>9 DEF ServiceDies, TypeOK
<1>10. CASE UNCHANGED vars
  BY <1>10 DEF vars, TypeOK
<1> QED
  BY <1>1, <1>2, <1>3, <1>4, <1>5, <1>6, <1>7, <1>8, <1>9, <1>10 DEF Next, IHAGetLastError

-----------------------------------------------------------------------------
(* A failure nobody interferes with is kept.                               *)

Apart == \A t \in Thread : Secluded(t) /\ Kept(t)

LEMMA InitApart == Init => Apart
BY DEF Init, Apart, Secluded, Kept, IHA_RET_S_OK

(* A call enters IHAManager: nobody else's operation is secluded any more. *)
LEMMA EnterApart ==
  ASSUME TypeOK, Apart, NEW t \in Thread, pc[t] = "idle",
         Begin(t, kind'[t]) \/ Fetch(t)
  PROVE  Apart'
<1>1. ASSUME NEW u \in Thread, u # t PROVE Secluded(u)' /\ Kept(u)'
  <2>1. /\ pc'[u] = pc[u] /\ kind'[u] = kind[u] /\ tmp'[u] = tmp[u]
        /\ told'[u] = told[u] /\ done'[u] = done[u] /\ alone'[u] = (alone[u] /\ pc[u] = "idle")
    BY <1>1 DEF TypeOK, Begin, Fetch, Enter, Goto
  <2>2. pc[u] = "idle" \/ ~alone'[u]
    BY <2>1
  <2> QED BY <2>1, <2>2 DEF Apart, Secluded, Kept
<1>2. /\ pc'[t] \in {"call", "test"} /\ done'[t] = IHA_RET_S_OK
      /\ alone'[t] <=> \A v \in Thread \ {t} : pc[v] = "idle"
      /\ \A v \in Thread \ {t} : pc'[v] = pc[v]
  BY DEF TypeOK, Begin, Fetch, Enter, Goto
<1>3. Secluded(t)' /\ Kept(t)'
  BY <1>2 DEF Secluded, Kept
<1> QED BY <1>1, <1>3 DEF Apart

(* A step of t inside an operation: whoever else is under way is not       *)
(* secluded.                                                               *)
LEMMA StepApart ==
  ASSUME TypeOK, Apart, NEW t \in Thread, pc[t] # "idle",
         UNCHANGED <<alone, kind, bound>>,
         \A u \in Thread \ {t} :
           pc'[u] = pc[u] /\ tmp'[u] = tmp[u] /\ told'[u] = told[u] /\ done'[u] = done[u],
         Kept(t)'
  PROVE  Apart'
<1>1. ASSUME NEW u \in Thread \ {t} PROVE Secluded(u)' /\ Kept(u)'
  <2>1. alone[u] => pc[u] = "idle"
    BY <1>1 DEF Apart, Secluded
  <2> QED BY <1>1, <2>1 DEF Apart, Secluded, Kept
<1>2. Secluded(t)'
  BY DEF Apart, Secluded
<1> QED BY <1>1, <1>2 DEF Apart

LEMMA NextApart == TypeOK /\ Apart /\ [Next]_vars => Apart'
<1> SUFFICES ASSUME TypeOK, Apart, [Next]_vars PROVE Apart'
  OBVIOUS
<1>1. ASSUME NEW t \in Thread, NEW k \in Kind \ {"fetch"}, Begin(t, k) PROVE Apart'
  <2>1. kind'[t] = k
    BY <1>1 DEF Begin, TypeOK
  <2> QED BY <1>1, <2>1, EnterApart DEF Begin
<1>2. ASSUME NEW t \in Thread, Reject(t) PROVE Apart'
  <2>1. ASSUME NEW u \in Thread, u # t PROVE Secluded(u)' /\ Kept(u)'
    <3>1. /\ pc' = pc /\ kind'[u] = kind[u] /\ tmp' = tmp
          /\ told'[u] = told[u] /\ done'[u] = done[u] /\ alone'[u] = (alone[u] /\ pc[u] = "idle")
      BY <1>2, <2>1 DEF TypeOK, Reject
    <3>2. pc[u] = "idle" \/ ~alone'[u]
      BY <3>1
    <3> QED BY <3>1, <3>2 DEF Apart, Secluded, Kept
  <2>2. pc'[t] = "idle" /\ done'[t] = IHA_RET_S_OK
    BY <1>2 DEF TypeOK, Reject
  <2> QED BY <2>1, <2>2 DEF Apart, Secluded, Kept
<1>3. ASSUME NEW t \in Thread, Fetch(t) PROVE Apart'
  BY <1>3, EnterApart DEF Fetch
<1>4. ASSUME NEW t \in Thread, NEW e \in ErrorCode \cup {IHA_RET_S_OK}, Perform(t, e)
      PROVE  Apart'
  <2>1. Kept(t)'
    BY <1>4 DEF Perform, Kept, End, Goto, TypeOK
  <2> QED BY <1>4, <2>1, StepApart DEF Perform, End, Goto, TypeOK
<1>5. ASSUME NEW t \in Thread, Test(t) PROVE Apart'
  <2>1. Kept(t)'
    BY <1>5 DEF Apart, Test, Kept, Goto, TypeOK, Local
  <2> QED BY <1>5, <2>1, StepApart DEF Test, Goto, TypeOK
<1>6. ASSUME NEW t \in Thread, Take(t) PROVE Apart'
  <2>1. Kept(t)'
    BY <1>6 DEF Apart, Take, Kept, Goto, TypeOK, Local
  <2> QED BY <1>6, <2>1, StepApart DEF Take, Goto, TypeOK
<1>7. ASSUME NEW t \in Thread, Clear(t) PROVE Apart'
  <2>1. Kept(t)'
    BY <1>7, EndingsDiffer, CodesAreInts
       DEF Apart, Clear, Kept, Verdict, End, Goto, TypeOK
  <2> QED BY <1>7, <2>1, StepApart DEF Clear, Verdict, End, Goto, TypeOK
<1>8. ASSUME NEW t \in Thread, Ask(t) PROVE Apart'
  <2>1. Kept(t)'
    BY <1>8 DEF Apart, Ask, Kept, Goto, TypeOK
  <2> QED BY <1>8, <2>1, StepApart DEF Ask, Goto, TypeOK
<1>9. ASSUME NEW t \in Thread, Reset(t) PROVE Apart'
  <2>1. Kept(t)'
    BY <1>9 DEF Apart, Reset, Kept, Goto, TypeOK
  <2> QED BY <1>9, <2>1, StepApart DEF Reset, Goto, TypeOK
<1>10. ASSUME NEW t \in Thread, Store(t) PROVE Apart'
  <2>1. Kept(t)'
    BY <1>10, IhaAssumption DEF Apart, Store, Kept, Goto, TypeOK, SetLocal, Local
  <2> QED BY <1>10, <2>1, StepApart DEF Store, Goto, TypeOK
<1>11. ASSUME NEW t \in Thread, Reread(t) PROVE Apart'
  <2>1. Local(t) \in Int
    BY IhaAssumption, CodesAreInts DEF Local, TypeOK
  <2>2. Kept(t)'
    BY <1>11, <2>1, EndingsDiffer DEF Apart, Reread, Kept, Verdict, End, Goto, TypeOK
  <2> QED BY <1>11, <2>2, StepApart DEF Reread, Verdict, End, Goto, TypeOK
<1>12. ASSUME NEW t \in Thread, RemoteFails(t) PROVE Apart'
  <2>1. Kept(t)'
    BY <1>12, EndingsDiffer DEF Apart, RemoteFails, Kept, End, Goto, TypeOK
  <2> QED BY <1>12, <2>1, StepApart DEF RemoteFails, End, Goto, TypeOK
<1>13. ASSUME NEW t \in Thread, GetInstance(t) PROVE Apart'
  BY <1>13 DEF GetInstance, Apart, Secluded, Kept, Local, TypeOK
<1>14. CASE ServiceDies
  BY <1>14 DEF ServiceDies, Apart, Secluded, Kept, Local, TypeOK
<1>15. CASE UNCHANGED vars
  BY <1>15 DEF vars, Apart, Secluded, Kept, Local
<1> QED
  BY <1>1, <1>2, <1>3, <1>4, <1>5, <1>6, <1>7, <1>8, <1>9, <1>10, <1>11, <1>12, <1>13,
     <1>14, <1>15 DEF Next, IHAGetLastError

-----------------------------------------------------------------------------
(* For a single polite client, only the error of the operation under way   *)
(* is on its way.                                                          *)

LEMMA InitTraced == Init => \A t \in Thread : Traced(t)
<1> SUFFICES ASSUME Init, NEW t \in Thread PROVE Traced(t)
  OBVIOUS
<1>1. /\ pc[t] = "idle" /\ kind[t] = "checked" /\ bound[t] = TRUE /\ told[t] = Nothing
      /\ IHAError = IHA_RET_S_OK
  BY DEF Init
<1>2. Local(t) = IHA_RET_S_OK
  BY IhaAssumption DEF Init, Local
<1> QED BY <1>1, <1>2 DEF Traced, Ended

LEMMA NextTraced ==
  ASSUME WellBehaved, TypeOK, \A t \in Thread : Traced(t) /\ Kept(t), [Next]_vars
  PROVE  \A t \in Thread : Traced(t)'
<1> SUFFICES ASSUME NEW t \in Thread PROVE Traced(t)'
  OBVIOUS
<1>1. Thread = {t} /\ t \in Polite /\ Traced(t) /\ Kept(t) /\ ProcOf[t] \in Process
  BY IhaAssumption DEF WellBehaved
<1> USE <1>1
<1>2. CASE \E k \in Kind \ {"fetch"} : Begin(t, k)
  BY <1>2 DEF Begin, Enter, Goto, SetLocal, Traced, Local, TypeOK, Ended
<1>3. CASE Reject(t)
  BY <1>3 DEF Reject, SetLocal, Traced, Local, TypeOK, Ended
<1>4. CASE Fetch(t)
  BY <1>4 DEF Fetch, Enter, Goto, Traced, Local, TypeOK, Ended
<1>5. CASE \E e \in ErrorCode \cup {IHA_RET_S_OK} : Perform(t, e)
  <2>1. PICK e \in ErrorCode \cup {IHA_RET_S_OK} : Perform(t, e)
    BY <1>5
  <2>2. CASE kind[t] = "checked"
    BY <2>1, <2>2 DEF Perform, Goto, Traced, Local, TypeOK, Ended
  <2>3. CASE kind[t] # "checked"
    <3>1. e = IHA_RET_S_OK
      BY <2>1, <2>3 DEF WellBehaved, Perform
    <3>2. Returned.how = "returned"
      BY DEF Returned
    <3> QED BY <2>1, <2>3, <3>1, <3>2
               DEF Perform, End, Goto, Traced, Local, TypeOK, Ended
  <2> QED BY <2>2, <2>3
<1>6. CASE Test(t)
  BY <1>6 DEF Test, Goto, Traced, Kept, Local, TypeOK, Ended, Kind
<1>7. CASE Take(t)
  BY <1>7 DEF Take, Goto, Traced, Local, TypeOK, Ended
<1>8. CASE Clear(t)
  BY <1>8 DEF Clear, Verdict, End, Goto, SetLocal, Traced, Local, TypeOK, Ended
<1>9. CASE Ask(t)
  BY <1>9 DEF Ask, Goto, Traced, Local, TypeOK, Ended
<1>10. CASE Reset(t)
  BY <1>10 DEF Reset, Goto, Traced, Local, TypeOK, Ended
<1>11. CASE Store(t)
  BY <1>11 DEF Store, Goto, SetLocal, Traced, Local, TypeOK, Ended
<1>12. CASE Reread(t)
  <2>1. CASE kind[t] = "fetch"
    BY <1>12, <2>1 DEF Reread, Verdict, End, Goto, Traced, Local, TypeOK, Ended
  <2>2. CASE kind[t] = "checked" /\ done[t] = IHA_RET_S_OK
    BY <1>12, <2>2 DEF Reread, Verdict, End, Goto, Traced, Local, TypeOK, Ended, Returned
  <2>3. CASE kind[t] = "checked" /\ done[t] # IHA_RET_S_OK
    BY <1>12, <2>3 DEF Reread, Verdict, End, Goto, Traced, Local, TypeOK, Ended, IhaThrow
  <2> QED BY <1>12, <2>1, <2>2, <2>3 DEF Reread, Traced
<1>13. CASE RemoteFails(t)
  BY <1>13 DEF RemoteFails, End, Goto, Traced, Local, TypeOK, Ended, Runtime
<1>14. CASE GetInstance(t)
  BY <1>14 DEF GetInstance, Traced, Local, TypeOK, Ended
<1>15. CASE ServiceDies
  BY <1>15 DEF ServiceDies, Traced, Local, TypeOK, Ended
<1>16. CASE UNCHANGED vars
  BY <1>16 DEF vars, Traced, Local, Ended
<1> QED
  BY <1>2, <1>3, <1>4, <1>5, <1>6, <1>7, <1>8, <1>9, <1>10, <1>11, <1>12, <1>13, <1>14,
     <1>15, <1>16 DEF Next, IHAGetLastError

-----------------------------------------------------------------------------
(* In every state IHAManager and the service can reach, an error is where  *)
(* Kept and Traced say.                                                    *)
THEOREM Invariance == Spec => []IInv
<1>1. Init => IInv
  BY InitType, InitApart, InitTraced DEF IInv, Apart
<1>2. IInv /\ [Next]_vars => IInv'
  <2> SUFFICES ASSUME IInv, [Next]_vars PROVE IInv'
    OBVIOUS
  <2>1. TypeOK' /\ Apart'
    BY NextType, NextApart DEF IInv, Apart
  <2>2. WellBehaved => \A t \in Thread : Traced(t)'
    BY NextTraced DEF IInv
  <2>3. WellBehaved' <=> WellBehaved
    BY DEF WellBehaved
  <2> QED BY <2>1, <2>2, <2>3 DEF IInv, Apart
<1> QED BY <1>1, <1>2, PTL DEF Spec

(* Type correctness (the statics of ISEPServiceImpl and IHAManager).       *)
THEOREM TypeCorrect == Spec => []TypeOK
<1>1. IInv => TypeOK
  BY DEF IInv
<1> QED BY <1>1, Invariance, PTL

(* A call of the SEP service that fails while no other call is under way   *)
(* is never taken for a success (IHAManager.java:1048-1064).               *)
THEOREM FailuresAreKept == Spec => []NoLostFailure
<1>1. IInv => NoLostFailure
  BY DEF IInv, Kept, NoLostFailure, Ended
<1> QED BY <1>1, Invariance, PTL

(* One client that follows its exceptions up is told the outcome of its    *)
(* own calls, however often the service dies under it.                     *)
THEOREM ErrorsAreOwn == Spec => []OwnError
<1>1. IInv => OwnError
  BY DEF IInv, Traced, OwnError
<1> QED BY <1>1, Invariance, PTL

-----------------------------------------------------------------------------
(* With one thread in all no call is overlapped.                           *)
LEMMA NobodyElse ==
  ASSUME \A t, u \in Thread : t = u
  PROVE  Spec => [](\A t \in Thread : alone[t])
<1> DEFINE Alone == \A t \in Thread : alone[t]
<1>1. Init => Alone
  BY DEF Init
<1>2. ASSUME Alone, [Next]_vars PROVE Alone'
  <2>1. ASSUME NEW t \in Thread, \E k \in Kind \ {"fetch"} : Begin(t, k) PROVE Alone'
    BY <1>2, <2>1 DEF Begin, Enter
  <2>2. ASSUME NEW t \in Thread, Reject(t) PROVE Alone'
    BY <1>2, <2>2 DEF Reject
  <2>3. ASSUME NEW t \in Thread, Fetch(t) PROVE Alone'
    BY <1>2, <2>3 DEF Fetch, Enter
  <2>4. ASSUME NEW t \in Thread,
               \/ \E e \in ErrorCode \cup {IHA_RET_S_OK} : Perform(t, e)
               \/ IHAGetLastError(t) \/ RemoteFails(t) \/ GetInstance(t) \/ ServiceDies
        PROVE  Alone'
    BY <1>2, <2>4 DEF Perform, IHAGetLastError, Test, Take, Clear, Ask, Reset, Store, Reread,
                      RemoteFails, GetInstance, ServiceDies
  <2>5. CASE ServiceDies \/ UNCHANGED vars
    BY <1>2, <2>5 DEF ServiceDies, vars
  <2> QED BY <1>2, <2>1, <2>2, <2>3, <2>4, <2>5 DEF Next
<1> QED BY <1>1, <1>2, PTL DEF Spec

(* What IHAManager.java:222 promises is true of one application with one   *)
(* thread, whatever fails and however it treats its exceptions: only a     *)
(* second caller can make a failed operation look like a success.          *)
THEOREM FailureReportedToOne ==
  ASSUME \A t, u \in Thread : t = u
  PROVE  Spec => []FailureIsReported
<1>1. NoLostFailure /\ (\A t \in Thread : alone[t]) => FailureIsReported
  BY DEF NoLostFailure, FailureIsReported
<1> QED BY <1>1, NobodyElse, FailuresAreKept, PTL

=============================================================================
