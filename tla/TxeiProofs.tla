----------------------------- MODULE TxeiProofs -----------------------------
(***************************************************************************)
(* What each operation of libtxei does to the handles of all threads.      *)
(***************************************************************************)
EXTENDS Txei, TLAPS

(* Nothing happened to thread u's handle and to what travels on it.        *)
Untouched(u) ==
  /\ fd'[u] = fd[u]
  /\ fd[u] # NoFd => LinkOf(u)' = LinkOf(u)

OthersUntouched(t) == \A u \in Thread \ {t} : Untouched(u)

(* mei_connect (Lib/txei_lib.c:98-152) gives a thread a descriptor no      *)
(* other thread of its process holds, with nothing travelling on it.       *)
LEMMA MeiConnectStep ==
  ASSUME NEW Req, NEW Rsp, TxeiTypeOK(Req, Rsp), HandlesExclusive,
         NEW t \in Thread, MeiConnect(t)
  PROVE  /\ TxeiTypeOK(Req, Rsp)' /\ HandlesExclusive'
         /\ OthersUntouched(t)
         /\ fd'[t] # NoFd /\ LinkOf(t)' = NoTraffic
         /\ fd'[t] = 0 => ProcOf[t] \in NoStdin
         /\ \A p \in Process, f \in Fd : link'[p][f] \in {link[p][f], NoTraffic}
<1> DEFINE p == ProcOf[t]
<1>1. PICK f \in FreeFd(p) :
        /\ fd' = [fd EXCEPT ![t] = f]
        /\ files' = [files EXCEPT ![p] = @ \cup {f}]
        /\ link' = [link EXCEPT ![p][f] = NoTraffic]
  BY DEF MeiConnect
<1>2. p \in Process /\ f \in Fd /\ f \notin files[p]
  BY TxeiAssumption DEF FreeFd
<1>3. \A u \in Thread : ProcOf[u] \in Process
  BY TxeiAssumption
<1>4. f # NoFd /\ NoFd \notin Fd
  BY <1>2, TxeiAssumption DEF Fd, NoFd
<1>5. TxeiTypeOK(Req, Rsp)'
  <2>1. fd' \in [Thread -> Fd \cup {NoFd}]
    BY <1>1, <1>2 DEF TxeiTypeOK
  <2>2. files' \in [Process -> SUBSET Fd]
    BY <1>1, <1>2 DEF TxeiTypeOK
  <2>3. link' \in [Process -> [Fd -> [req : SUBSET Req, rsp : SUBSET Rsp]]]
    BY <1>1, <1>2 DEF TxeiTypeOK, NoTraffic
  <2> QED BY <2>1, <2>2, <2>3 DEF TxeiTypeOK
<1>6. ASSUME NEW u \in Thread \ {t}
      PROVE  Untouched(u)
  <2>1. fd'[u] = fd[u]
    BY <1>1 DEF TxeiTypeOK
  <2>2. ASSUME fd[u] # NoFd PROVE LinkOf(u)' = LinkOf(u)
    <3>1. fd[u] \in Fd /\ fd[u] \in files[ProcOf[u]]
      BY <2>2 DEF TxeiTypeOK, HandlesExclusive
    <3>2. ~(ProcOf[u] = p /\ fd[u] = f)
      BY <3>1, <1>2
    <3>3. link'[ProcOf[u]][fd[u]] = link[ProcOf[u]][fd[u]]
      BY <1>1, <1>2, <1>3, <3>1, <3>2 DEF TxeiTypeOK
    <3> QED BY <3>3, <2>1 DEF LinkOf
  <2> QED BY <2>1, <2>2 DEF Untouched
<1>7. fd'[t] = f /\ LinkOf(t)' = NoTraffic
  BY <1>1, <1>2 DEF TxeiTypeOK, LinkOf
<1>8. HandlesExclusive'
  BY <1>1, <1>2, <1>3 DEF TxeiTypeOK, HandlesExclusive
<1>9. \A q \in Process, g \in Fd : link'[q][g] \in {link[q][g], NoTraffic}
  BY <1>1, <1>2 DEF TxeiTypeOK
<1>10. f = 0 => p \in NoStdin
  BY DEF FreeFd
<1> QED BY <1>4, <1>5, <1>6, <1>7, <1>8, <1>9, <1>10 DEF OthersUntouched

(* mei_disconnect (Lib/txei_lib.c:158-172) of an open handle frees a       *)
(* descriptor that no other thread holds.                                  *)
LEMMA MeiDisconnectStep ==
  ASSUME NEW Req, NEW Rsp, TxeiTypeOK(Req, Rsp), HandlesExclusive,
         NEW t \in Thread, fd[t] # NoFd, MeiDisconnect(t)
  PROVE  /\ TxeiTypeOK(Req, Rsp)' /\ HandlesExclusive'
         /\ OthersUntouched(t)
         /\ fd'[t] = NoFd
         /\ \A p \in Process, f \in Fd : link'[p][f] \in {link[p][f], NoTraffic}
<1> DEFINE p == ProcOf[t]
           f == fd[t]
<1>1. p \in Process /\ f \in Fd /\ f \in files[p]
  BY TxeiAssumption DEF TxeiTypeOK, HandlesExclusive
<1>2. /\ files' = [files EXCEPT ![p] = @ \ {f}]
      /\ link' = [link EXCEPT ![p][f] = NoTraffic]
      /\ fd' = [fd EXCEPT ![t] = NoFd]
  BY DEF MeiDisconnect
<1>3. \A u \in Thread : ProcOf[u] \in Process
  BY TxeiAssumption
<1> HIDE DEF p, f
<1>4. TxeiTypeOK(Req, Rsp)'
  <2>1. fd' \in [Thread -> Fd \cup {NoFd}]
    BY <1>2 DEF TxeiTypeOK
  <2>2. files' \in [Process -> SUBSET Fd]
    BY <1>1, <1>2 DEF TxeiTypeOK
  <2>3. link' \in [Process -> [Fd -> [req : SUBSET Req, rsp : SUBSET Rsp]]]
    BY <1>1, <1>2 DEF TxeiTypeOK, NoTraffic
  <2> QED BY <2>1, <2>2, <2>3 DEF TxeiTypeOK
<1>5. ASSUME NEW u \in Thread \ {t}
      PROVE  Untouched(u)
  <2>1. fd'[u] = fd[u]
    BY <1>2 DEF TxeiTypeOK
  <2>2. ASSUME fd[u] # NoFd PROVE LinkOf(u)' = LinkOf(u)
    <3>1. fd[u] \in Fd /\ ~(ProcOf[u] = p /\ fd[u] = f)
      BY <2>2 DEF TxeiTypeOK, HandlesExclusive, p, f
    <3>2. link'[ProcOf[u]][fd[u]] = link[ProcOf[u]][fd[u]]
      BY <1>1, <1>2, <1>3, <3>1 DEF TxeiTypeOK
    <3> QED BY <3>2, <2>1 DEF LinkOf
  <2> QED BY <2>1, <2>2 DEF Untouched
<1>6. fd'[t] = NoFd
  BY <1>2 DEF TxeiTypeOK
<1>7. HandlesExclusive'
  <2>1. ASSUME NEW u \in Thread, fd'[u] # NoFd
        PROVE  fd'[u] \in files'[ProcOf[u]]
    <3>1. u # t /\ fd'[u] = fd[u]
      BY <2>1, <1>5, <1>6 DEF Untouched
    <3>2. ~(ProcOf[u] = p /\ fd[u] = f) /\ fd[u] \in files[ProcOf[u]]
      BY <2>1, <3>1 DEF HandlesExclusive, p, f
    <3> QED BY <3>1, <3>2, <1>1, <1>2, <1>3 DEF TxeiTypeOK
  <2>2. ASSUME NEW u \in Thread, NEW v \in Thread,
               u # v, ProcOf[u] = ProcOf[v], fd'[u] # NoFd
        PROVE  fd'[u] # fd'[v]
    BY <2>2, <1>5, <1>6 DEF Untouched, HandlesExclusive
  <2> QED BY <2>1, <2>2 DEF HandlesExclusive
<1>8. \A q \in Process, g \in Fd : link'[q][g] \in {link[q][g], NoTraffic}
  BY <1>1, <1>2 DEF TxeiTypeOK
<1> QED BY <1>4, <1>5, <1>6, <1>7, <1>8 DEF OthersUntouched

(* A handle can be lost without harm to the other threads'.                *)
LEMMA ForgetHandleStep ==
  ASSUME NEW Req, NEW Rsp, TxeiTypeOK(Req, Rsp), HandlesExclusive,
         NEW t \in Thread, ForgetHandle(t)
  PROVE  /\ TxeiTypeOK(Req, Rsp)' /\ HandlesExclusive'
         /\ OthersUntouched(t)
         /\ fd'[t] = NoFd /\ link' = link
<1>1. fd' = [fd EXCEPT ![t] = NoFd] /\ files' = files /\ link' = link
  BY DEF ForgetHandle
<1>2. TxeiTypeOK(Req, Rsp)'
  BY <1>1 DEF TxeiTypeOK
<1>3. fd'[t] = NoFd /\ \A u \in Thread \ {t} : fd'[u] = fd[u]
  BY <1>1 DEF TxeiTypeOK
<1>4. HandlesExclusive'
  BY <1>1, <1>3 DEF HandlesExclusive
<1> QED BY <1>1, <1>2, <1>3, <1>4 DEF OthersUntouched, Untouched, LinkOf

(* Only what travels on thread t's descriptor changes: it becomes v.       *)
OwnLinkBecomes(t, v) ==
  /\ link' = [link EXCEPT ![ProcOf[t]][fd[t]] = v]
  /\ UNCHANGED <<fd, files>>

(* mei_sndmsg and mei_rcvmsg (Lib/txei_lib.c:174-230, 309-344) change what *)
(* travels on the descriptor of their own handle only.                     *)
LEMMA OwnLinkStep ==
  ASSUME NEW Req, NEW Rsp, TxeiTypeOK(Req, Rsp), HandlesExclusive,
         NEW t \in Thread, fd[t] # NoFd,
         NEW v \in [req : SUBSET Req, rsp : SUBSET Rsp],
         OwnLinkBecomes(t, v)
  PROVE  /\ TxeiTypeOK(Req, Rsp)' /\ HandlesExclusive'
         /\ OthersUntouched(t)
         /\ fd' = fd /\ link'[ProcOf[t]][fd[t]] = v
         /\ \A p \in Process, f \in Fd : link'[p][f] \in {link[p][f], v}
<1>1. \A u \in Thread : ProcOf[u] \in Process
  BY TxeiAssumption
<1>2. fd[t] \in Fd
  BY DEF TxeiTypeOK, OwnLinkBecomes
<1>3. TxeiTypeOK(Req, Rsp)'
  BY <1>1, <1>2 DEF TxeiTypeOK, OwnLinkBecomes
<1>4. HandlesExclusive'
  BY DEF HandlesExclusive, OwnLinkBecomes
<1>5. link'[ProcOf[t]][fd[t]] = v
  BY <1>1, <1>2 DEF TxeiTypeOK, OwnLinkBecomes
<1>6. ASSUME NEW u \in Thread \ {t}, fd[u] # NoFd
      PROVE  LinkOf(u)' = LinkOf(u)
  <2>1. fd[u] \in Fd /\ ~(ProcOf[u] = ProcOf[t] /\ fd[u] = fd[t])
    BY <1>6 DEF TxeiTypeOK, HandlesExclusive
  <2>2. link'[ProcOf[u]][fd[u]] = link[ProcOf[u]][fd[u]]
    BY <1>1, <1>2, <2>1 DEF TxeiTypeOK, OwnLinkBecomes
  <2> QED BY <2>2 DEF LinkOf, OwnLinkBecomes
<1>7. \A q \in Process, g \in Fd : link'[q][g] \in {link[q][g], v}
  BY <1>1, <1>2 DEF TxeiTypeOK, OwnLinkBecomes
<1> QED BY <1>3, <1>4, <1>5, <1>6, <1>7 DEF OthersUntouched, Untouched, OwnLinkBecomes

LEMMA MeiWriteStep ==
  ASSUME NEW Req, NEW Rsp, TxeiTypeOK(Req, Rsp), HandlesExclusive,
         NEW t \in Thread, NEW m \in Req, MeiWrite(t, m)
  PROVE  /\ TxeiTypeOK(Req, Rsp)' /\ HandlesExclusive'
         /\ OthersUntouched(t)
         /\ fd' = fd /\ LinkOf(t)' = [req |-> {m}, rsp |-> LinkOf(t).rsp]
         /\ \A p \in Process, f \in Fd : link'[p][f].req \in {link[p][f].req, {m}}
<1>1. fd[t] \in Fd /\ fd[t] # NoFd /\ ProcOf[t] \in Process
  BY TxeiAssumption DEF TxeiTypeOK, MeiWrite, NoFd
<1>2. LinkOf(t) \in [req : SUBSET Req, rsp : SUBSET Rsp]
  BY <1>1 DEF TxeiTypeOK, LinkOf
<1>3. PICK v \in [req : SUBSET Req, rsp : SUBSET Rsp] : v = [req |-> {m}, rsp |-> LinkOf(t).rsp]
  BY <1>2
<1>4. [LinkOf(t) EXCEPT !.req = {m}] = v
  BY <1>2, <1>3
<1>5. link' = [link EXCEPT ![ProcOf[t]][fd[t]] = [@ EXCEPT !.req = {m}]]
  BY DEF MeiWrite
<1>6. OwnLinkBecomes(t, v)
  BY <1>4, <1>5 DEF OwnLinkBecomes, LinkOf, MeiWrite
<1>8. /\ TxeiTypeOK(Req, Rsp)' /\ HandlesExclusive' /\ OthersUntouched(t)
      /\ fd' = fd /\ link'[ProcOf[t]][fd[t]] = v
      /\ \A p \in Process, f \in Fd : link'[p][f] \in {link[p][f], v}
  BY <1>1, <1>6, OwnLinkStep
<1>9. v.req = {m}
  BY <1>3
<1> QED BY <1>3, <1>8, <1>9 DEF LinkOf

LEMMA MeiReadStep ==
  ASSUME NEW Req, NEW Rsp, TxeiTypeOK(Req, Rsp), HandlesExclusive,
         NEW t \in Thread, NEW r, MeiRead(t, r)
  PROVE  /\ TxeiTypeOK(Req, Rsp)' /\ HandlesExclusive'
         /\ OthersUntouched(t)
         /\ fd' = fd /\ LinkOf(t)' = [req |-> LinkOf(t).req, rsp |-> {}]
         /\ r \in LinkOf(t).rsp /\ r \in Rsp
         /\ \A p \in Process, f \in Fd : link'[p][f].req \in {link[p][f].req, LinkOf(t).req}
<1>1. fd[t] \in Fd /\ fd[t] # NoFd /\ ProcOf[t] \in Process
  BY TxeiAssumption DEF TxeiTypeOK, MeiRead, NoFd
<1>2. LinkOf(t) \in [req : SUBSET Req, rsp : SUBSET Rsp]
  BY <1>1 DEF TxeiTypeOK, LinkOf
<1>3. PICK v \in [req : SUBSET Req, rsp : SUBSET Rsp] : v = [req |-> LinkOf(t).req, rsp |-> {}]
  BY <1>2
<1>4. [LinkOf(t) EXCEPT !.rsp = {}] = v
  BY <1>2, <1>3
<1>5. /\ link' = [link EXCEPT ![ProcOf[t]][fd[t]] = [@ EXCEPT !.rsp = {}]]
      /\ r \in LinkOf(t).rsp
  BY DEF MeiRead
<1>6. OwnLinkBecomes(t, v)
  BY <1>4, <1>5 DEF OwnLinkBecomes, LinkOf, MeiRead
<1>8. /\ TxeiTypeOK(Req, Rsp)' /\ HandlesExclusive' /\ OthersUntouched(t)
      /\ fd' = fd /\ link'[ProcOf[t]][fd[t]] = v
      /\ \A p \in Process, f \in Fd : link'[p][f] \in {link[p][f], v}
  BY <1>1, <1>6, OwnLinkStep
<1>9. v.req = LinkOf(t).req
  BY <1>3
<1>10. r \in Rsp
  BY <1>2, <1>5
<1> QED BY <1>3, <1>5, <1>8, <1>9, <1>10 DEF LinkOf

(* An answer of the firmware reaches the thread waiting on that descriptor *)
(* and nobody else.                                                        *)
LEMMA MeiAnswerStep ==
  ASSUME NEW Req, NEW Rsp, TxeiTypeOK(Req, Rsp), HandlesExclusive,
         NEW p \in Process, NEW f \in Fd, NEW r \in Rsp, MeiAnswer(p, f, r)
  PROVE  /\ TxeiTypeOK(Req, Rsp)' /\ HandlesExclusive'
         /\ fd' = fd
         /\ \A u \in Thread : ~(ProcOf[u] = p /\ fd[u] = f) => Untouched(u)
         /\ \A u \in Thread : ProcOf[u] = p /\ fd[u] = f =>
              LinkOf(u)' = [req |-> {}, rsp |-> {r}]
         /\ \A q \in Process, g \in Fd : link'[q][g].req \in {link[q][g].req, {}}
<1>1. \A u \in Thread : ProcOf[u] \in Process
  BY TxeiAssumption
<1>2. link' = [link EXCEPT ![p][f] = [req |-> {}, rsp |-> {r}]] /\ UNCHANGED <<fd, files>>
  BY DEF MeiAnswer
<1>3. [req |-> {}, rsp |-> {r}] \in [req : SUBSET Req, rsp : SUBSET Rsp]
  OBVIOUS
<1>4. TxeiTypeOK(Req, Rsp)'
  BY <1>2, <1>3 DEF TxeiTypeOK
<1>5. HandlesExclusive'
  BY <1>2 DEF HandlesExclusive
<1>6. ASSUME NEW u \in Thread, ~(ProcOf[u] = p /\ fd[u] = f), fd[u] # NoFd
      PROVE  LinkOf(u)' = LinkOf(u)
  <2>1. fd[u] \in Fd
    BY <1>6 DEF TxeiTypeOK
  <2>2. link'[ProcOf[u]][fd[u]] = link[ProcOf[u]][fd[u]]
    BY <1>1, <1>2, <1>6, <2>1 DEF TxeiTypeOK
  <2> QED BY <2>2, <1>2 DEF LinkOf
<1>7. ASSUME NEW u \in Thread, ProcOf[u] = p /\ fd[u] = f
      PROVE  LinkOf(u)' = [req |-> {}, rsp |-> {r}]
  BY <1>2, <1>7 DEF LinkOf, TxeiTypeOK
<1>8. \A q \in Process, g \in Fd : link'[q][g].req \in {link[q][g].req, {}}
  BY <1>2 DEF TxeiTypeOK
<1> QED BY <1>2, <1>4, <1>5, <1>6, <1>7, <1>8 DEF Untouched

=============================================================================
