--------------------------- MODULE KeyDeviceProofs ---------------------------
(***************************************************************************)
(* Proofs about KeyDevice: its invariants hold for any threads, processes, *)
(* commands, key sizes, refusals and faults.                               *)
(***************************************************************************)
EXTENDS KeyDevice, TxeiProofs

Req == Cmd \cup {"caps"}

(* A step leaves the locals of thread u as they are ...                    *)
Undisturbed(u) ==
  /\ at'[u] = at[u] /\ phase'[u] = phase[u] /\ cmd'[u] = cmd[u] /\ req'[u] = req[u]
  /\ reply'[u] = reply[u] /\ ret'[u] = ret[u] /\ said'[u] = said[u]

OthersUndisturbed(t) == \A u \in Thread \ {t} : Undisturbed(u)

(* ... and sets the statics to nothing but what they may hold.             *)
Steady ==
  \A p \in Process :
    /\ blank[p] => blank'[p]
    /\ blank'[p] => blank[p] \/ "empty" \in Faults
    /\ key_opaque_size'[p] \in {key_opaque_size[p], KeyOpaqueSize}
    /\ caps_obtained'[p] =>
         caps_obtained[p] \/ blank[p] \/ key_opaque_size[p] = KeyOpaqueSize

(* lost loses nothing and gains F, in the process of t.                    *)
Drops(t, F) ==
  \A p \in Process : lost'[p] = IF p = ProcOf[t] THEN lost[p] \cup F ELSE lost[p]

-----------------------------------------------------------------------------
(* The values the steps write are what TypeOK says.                        *)
LEMMA Values ==
  /\ NoCall \notin CallSpace /\ NoCall.id = "none"
  /\ NoReq \in [len : Nat, size : Nat]
  /\ NoRet \in [code : ReturnCode \cup {"NONE"}, result : Result, len : Nat]
  /\ NoReply \in ReplySpace /\ NoReply.id = "none" /\ NoReply.code = 0
  /\ Blank \in ReplySpace /\ Blank.id = "caps" /\ Blank.code = 0 /\ Blank.n = 0
  /\ Blank # NoReply
  /\ KeyOpaqueSize \in Nat /\ OutSize \subseteq Nat
  /\ CallerRsp \in Nat /\ CallerRsp > 0
  /\ NoFd \notin Fd
<1>1. NoCall \notin CallSpace /\ NoCall.id = "none"
  BY DEF NoCall, CallSpace, Cmd
<1>2. NoReq \in [len : Nat, size : Nat]
  BY DEF NoReq
<1>3. NoRet \in [code : ReturnCode \cup {"NONE"}, result : Result, len : Nat]
  BY DEF NoRet, Result
<1>4. /\ NoReply \in ReplySpace /\ NoReply.id = "none" /\ NoReply.code = 0
      /\ Blank \in ReplySpace /\ Blank.id = "caps" /\ Blank.code = 0 /\ Blank.n = 0
      /\ Blank # NoReply
  BY DEF NoReply, Blank, Reply, ReplySpace
<1>5. KeyOpaqueSize \in Nat /\ OutSize \subseteq Nat
  BY KeymasterAssumption DEF MaxMtu
<1>6. NoFd \notin Fd
  BY TxeiAssumption DEF Fd, NoFd
<1> QED BY <1>1, <1>2, <1>3, <1>4, <1>5, <1>6 DEF CallerRsp

(* Records of answers with fields in smaller sets.                         *)
LEMMA RecordsWithin ==
  ASSUME NEW A, NEW B, NEW C, NEW D, NEW I, NEW J, NEW K, NEW L,
         A \subseteq I, B \subseteq J, C \subseteq K, D \subseteq L,
         NEW r \in [id : A, code : B, n : C, verified : D]
  PROVE  r \in [id : I, code : J, n : K, verified : L]
OBVIOUS

(* What the firmware may answer to a message.                              *)
LEMMA AnswersFacts ==
  ASSUME NEW m \in Req, NEW r \in Answers(m)
  PROVE  /\ r \in ReplySpace /\ r.id = m /\ r # NoReply /\ r.n \in 0 .. MaxMtu
         /\ m = "caps" /\ r.code = 0 => r.n = KeyOpaqueSize
<1> DEFINE N == CASE m = "verify" -> {0}
                  [] m \in {"get_public", "sign"} -> OutSize
                  [] OTHER -> {KeyOpaqueSize}
           V == IF m = "verify" THEN BOOLEAN ELSE {FALSE}
<1>1. N \subseteq 0 .. MaxMtu /\ (m = "caps" => N = {KeyOpaqueSize})
  <2>1. CASE m = "verify"
    BY <2>1 DEF MaxMtu
  <2>2. CASE m \in {"get_public", "sign"}
    BY <2>2, KeymasterAssumption
  <2>3. CASE m \notin {"verify", "get_public", "sign"}
    BY <2>3, KeymasterAssumption
  <2> QED BY <2>1, <2>2, <2>3
<1>6. V \subseteq BOOLEAN
  OBVIOUS
<1> HIDE DEF N, V
<1>2. m # "none" /\ m \in Cmd \cup {"caps", "none"}
  BY DEF Req, Cmd
<1>3. \/ r \in [id : {m}, code : {0}, n : N, verified : V]
      \/ r \in [id : {m}, code : Refusal, n : {0}, verified : {FALSE}]
  BY DEF Answers, N, V
<1>4. r.id = m /\ (r.code = 0 => r.n \in N) /\ r.n \in 0 .. MaxMtu
  <2>1. CASE r \in [id : {m}, code : {0}, n : N, verified : V]
    BY <2>1, <1>1
  <2>2. CASE r \in [id : {m}, code : Refusal, n : {0}, verified : {FALSE}]
    BY <2>2, KeymasterAssumption DEF MaxMtu
  <2> QED BY <1>3, <2>1, <2>2
<1>7. N \subseteq Nat
  BY <1>1
<1>5. r \in ReplySpace
  <2>1. {m} \subseteq Cmd \cup {"caps", "none"} /\ {0} \subseteq Nat /\ Refusal \subseteq Nat
    BY <1>2, KeymasterAssumption
  <2>2. {FALSE} \subseteq BOOLEAN
    OBVIOUS
  <2>4. CASE r \in [id : {m}, code : {0}, n : N, verified : V]
    BY <2>1, <2>4, <1>7, <1>6, RecordsWithin DEF ReplySpace
  <2>5. CASE r \in [id : {m}, code : Refusal, n : {0}, verified : {FALSE}]
    BY <2>1, <2>2, <2>5, RecordsWithin DEF ReplySpace
  <2> QED BY <1>3, <2>4, <2>5
<1> QED BY <1>1, <1>2, <1>4, <1>5, Values

(* The threads and the parts of the invariant that are used everywhere.    *)
LEMMA Parts ==
  ASSUME IInv, NEW t \in KeyThread
  PROVE  /\ t \in Thread /\ ProcOf[t] \in Process
         /\ TypeOK /\ KeyTypeOK /\ MmTypeOK /\ TxeiTypeOK(Req, ReplySpace)
         /\ HandlesExclusive /\ DescriptorsAccounted
         /\ Connected(t) /\ Placed(t) /\ Said(t) /\ Heard(t) /\ Knows(t) /\ Told(t)
         /\ Mapped(t) /\ Cached(ProcOf[t])
<1>1. t \in Thread /\ ProcOf[t] \in Process
  BY KeymasterAssumption, TxeiAssumption
<1> QED BY <1>1 DEF IInv, Own, TypeOK, Req

-----------------------------------------------------------------------------
(* A step that leaves a thread's locals and connection alone leaves what   *)
(* is known of it true, if it does not upset the statics.                  *)
LEMMA Frame ==
  ASSUME NEW u \in KeyThread, Own(u), Undisturbed(u), Untouched(u), Steady
  PROVE  Own(u)'
<1> DEFINE p == ProcOf[u]
<1>0. p \in Process
  BY KeymasterAssumption, TxeiAssumption
<1>1. /\ at'[u] = at[u] /\ phase'[u] = phase[u] /\ cmd'[u] = cmd[u] /\ req'[u] = req[u]
      /\ reply'[u] = reply[u] /\ ret'[u] = ret[u] /\ said'[u] = said[u] /\ fd'[u] = fd[u]
  BY DEF Undisturbed, Untouched
<1>2. fd[u] # NoFd => LinkOf(u)' = LinkOf(u)
  BY DEF Untouched
<1>3. /\ blank[p] => blank'[p]
      /\ key_opaque_size'[p] \in {key_opaque_size[p], KeyOpaqueSize}
  BY <1>0 DEF Steady
<1>4. Message(u)' = Message(u)
  BY <1>1 DEF Message
<1>5. Connected(u)'
  BY <1>1, <1>2, <1>4 DEF Own, Connected
<1>6. Placed(u)' /\ Said(u)'
  BY <1>1 DEF Own, Placed, Said
<1>7. Heard(u)'
  BY <1>1, <1>3 DEF Own, Heard
<1>8. Knows(u)'
  BY <1>1, <1>3 DEF Own, Knows
<1>9. Told(u)'
  <2>1. Returned(u)' = Returned(u)
    BY <1>1 DEF Returned
  <2>2. CodeTells(u)' /\ Coded(u)'
    BY <1>1, <2>1 DEF Own, Told, CodeTells, Coded
  <2>3. ResultIsFirmware(u)'
    BY <1>1, <1>3, <2>1 DEF Own, Told, ResultIsFirmware
  <2>4. RequestFits(u)'
    BY <1>1, <1>3 DEF Own, Told, RequestFits
  <2> QED BY <2>2, <2>3, <2>4 DEF Told
<1> QED BY <1>5, <1>6, <1>7, <1>8, <1>9 DEF Own

(* A step of a thread of libsepkeymaster keeps the invariant if it keeps   *)
(* what is known of that thread.                                           *)
LEMMA Assemble ==
  ASSUME IInv, NEW t \in KeyThread, UNCHANGED mmVars,
         KeyTypeOK', TxeiTypeOK(Req, ReplySpace)',
         HandlesExclusive', DescriptorsAccounted', OthersUntouched(t),
         OthersUndisturbed(t), Steady, Own(t)'
  PROVE  IInv'
<1>1. TypeOK'
  BY DEF IInv, TypeOK, Req, MmTypeOK, mmVars
<1>2. ASSUME NEW u \in KeyThread PROVE Own(u)'
  <2>1. CASE u # t
    <3>1. u \in Thread \ {t}
      BY <2>1, KeymasterAssumption
    <3> QED BY <3>1, Frame DEF IInv, OthersUntouched, OthersUndisturbed
  <2> QED BY <2>1
<1>3. ASSUME NEW u \in Thread PROVE Mapped(u)'
  <2>1. mm' = mm
    BY DEF mmVars
  <2>2. CASE u \in KeyThread
    BY <2>1, <2>2 DEF IInv, Mapped, MmThread
  <2>3. CASE u \notin KeyThread
    <3>1. fd'[u] = fd[u]
      BY <2>3 DEF OthersUntouched, Untouched
    <3> QED BY <2>1, <2>3, <3>1 DEF IInv, Mapped, MmThread
  <2> QED BY <2>2, <2>3
<1>4. ASSUME NEW p \in Process PROVE Cached(p)'
  BY DEF IInv, Cached, Steady
<1> QED BY <1>1, <1>2, <1>3, <1>4 DEF IInv

-----------------------------------------------------------------------------
(* DescriptorsAccounted, one descriptor at a time.                         *)
Accounted ==
  \A p \in Process :
    /\ \A g : g \in files[p] <=>
         g \in lost[p] \/ \E u \in Thread : ProcOf[u] = p /\ fd[u] = g /\ g # NoFd
    /\ \A u \in Thread : ProcOf[u] = p /\ fd[u] # NoFd => fd[u] \notin lost[p]

LEMMA AccountedAlike == DescriptorsAccounted <=> Accounted
<1> DEFINE H(p) == {t \in Thread : ProcOf[t] = p /\ fd[t] # NoFd}
<1>1. ASSUME NEW p \in Process
      PROVE  /\ files[p] = lost[p] \cup {fd[u] : u \in H(p)} <=>
                  \A g : g \in files[p] <=>
                    \/ g \in lost[p]
                    \/ \E u \in Thread : ProcOf[u] = p /\ fd[u] = g /\ g # NoFd
             /\ (\A u \in H(p) : fd[u] \notin lost[p]) <=>
                  \A u \in Thread : ProcOf[u] = p /\ fd[u] # NoFd => fd[u] \notin lost[p]
  <2>1. \A g : g \in {fd[u] : u \in H(p)} <=>
                 \E u \in Thread : ProcOf[u] = p /\ fd[u] = g /\ g # NoFd
    OBVIOUS
  <2>2. \A u : u \in H(p) <=> u \in Thread /\ ProcOf[u] = p /\ fd[u] # NoFd
    OBVIOUS
  <2> QED BY <2>1, <2>2
<1> QED BY <1>1 DEF DescriptorsAccounted, Accounted

(* A step of thread t that loses the descriptors F.                        *)
LEMMA Account ==
  ASSUME TxeiTypeOK(Req, ReplySpace), HandlesExclusive, DescriptorsAccounted,
         NEW t \in Thread, OthersUntouched(t), NEW F, Drops(t, F),
         \A p \in Process \ {ProcOf[t]} : files'[p] = files[p],
         \A g : g \in files'[ProcOf[t]] <=>
           \/ g \in F
           \/ g = fd'[t] /\ g # NoFd
           \/ g \in files[ProcOf[t]] /\ g # fd[t],
         fd'[t] # NoFd => fd'[t] \notin F /\ fd'[t] \notin lost[ProcOf[t]],
         \A g \in F : g = fd[t] \/ g \notin files[ProcOf[t]]
  PROVE  DescriptorsAccounted'
<1>1. Accounted
  BY AccountedAlike
<1>2. ASSUME NEW u \in Thread \ {t} PROVE fd'[u] = fd[u]
  BY DEF OthersUntouched, Untouched
<1>3. ProcOf[t] \in Process
  BY TxeiAssumption
<1>4. ASSUME NEW u \in Thread, fd[u] # NoFd PROVE fd[u] \in files[ProcOf[u]]
  BY <1>4 DEF HandlesExclusive
<1>5. ASSUME NEW u \in Thread \ {t}, ProcOf[u] = ProcOf[t], fd[u] # NoFd PROVE fd[u] # fd[t]
  BY <1>5 DEF HandlesExclusive
<1>6. ASSUME NEW p \in Process, p # ProcOf[t]
      PROVE  /\ \A g : g \in files'[p] <=>
                  \/ g \in lost'[p]
                  \/ \E u \in Thread : ProcOf[u] = p /\ fd'[u] = g /\ g # NoFd
             /\ \A u \in Thread : ProcOf[u] = p /\ fd'[u] # NoFd => fd'[u] \notin lost'[p]
  <2>1. files'[p] = files[p] /\ lost'[p] = lost[p]
    BY <1>6 DEF Drops
  <2>2. \A u \in Thread : ProcOf[u] = p => fd'[u] = fd[u]
    BY <1>2, <1>6
  <2> QED BY <1>1, <2>1, <2>2 DEF Accounted
<1>7. LET p == ProcOf[t] IN
      /\ \A g : g \in files'[p] <=>
           \/ g \in lost'[p]
           \/ \E u \in Thread : ProcOf[u] = p /\ fd'[u] = g /\ g # NoFd
      /\ \A u \in Thread : ProcOf[u] = p /\ fd'[u] # NoFd => fd'[u] \notin lost'[p]
  <2> DEFINE p == ProcOf[t]
  <2>1. lost'[p] = lost[p] \cup F
    BY <1>3 DEF Drops
  <2>2. ASSUME NEW g
        PROVE  g \in files[p] /\ g # fd[t] <=>
                 \/ g \in lost[p] /\ g # fd[t]
                 \/ \E u \in Thread \ {t} : ProcOf[u] = p /\ fd'[u] = g /\ g # NoFd
    BY <1>1, <1>2, <1>3, <1>5 DEF Accounted
  <2>3. fd[t] # NoFd => fd[t] \notin lost[p]
    BY <1>1, <1>3 DEF Accounted
  <2>4. NoFd \notin lost[p]
    BY <1>1, <1>3, Values DEF Accounted, TxeiTypeOK
  <2>5. ASSUME NEW g
        PROVE  g \in files'[p] <=>
                 \/ g \in lost'[p]
                 \/ \E u \in Thread : ProcOf[u] = p /\ fd'[u] = g /\ g # NoFd
    BY <2>1, <2>2, <2>3, <2>4
  <2>6. ASSUME NEW u \in Thread, ProcOf[u] = p, fd'[u] # NoFd PROVE fd'[u] \notin lost'[p]
    <3>1. CASE u = t
      BY <3>1, <2>1, <2>6
    <3>2. CASE u # t
      BY <3>2, <2>1, <2>6, <1>1, <1>2, <1>3, <1>4, <1>5 DEF Accounted
    <3> QED BY <3>1, <3>2
  <2> QED BY <2>5, <2>6
<1>8. Accounted'
  BY <1>6, <1>7 DEF Accounted
<1> QED BY <1>8, AccountedAlike, PTL

(* The ways a thread's descriptor comes and goes.                          *)
LEMMA AccountConnect ==
  ASSUME TxeiTypeOK(Req, ReplySpace), HandlesExclusive, DescriptorsAccounted,
         NEW t \in Thread, MeiConnect(t), Drops(t, Held(t))
  PROVE  DescriptorsAccounted'
<1>1. OthersUntouched(t)
  BY MeiConnectStep
<1>2. PICK f \in FreeFd(ProcOf[t]) :
        /\ fd' = [fd EXCEPT ![t] = f]
        /\ files' = [files EXCEPT ![ProcOf[t]] = @ \cup {f}]
  BY DEF MeiConnect
<1>3. ProcOf[t] \in Process /\ f \in Fd /\ f \notin files[ProcOf[t]] /\ f # NoFd
  BY <1>2, TxeiAssumption, Values DEF FreeFd
<1>4. fd'[t] = f /\ files'[ProcOf[t]] = files[ProcOf[t]] \cup {f}
      /\ \A p \in Process \ {ProcOf[t]} : files'[p] = files[p]
  BY <1>2, <1>3 DEF TxeiTypeOK
<1>5. fd[t] # NoFd => fd[t] \in files[ProcOf[t]]
  BY DEF HandlesExclusive
<1>6. Accounted
  BY AccountedAlike
<1>7. f \notin lost[ProcOf[t]]
  BY <1>3, <1>6 DEF Accounted
<1>8. NoFd \notin files[ProcOf[t]]
  BY <1>3, Values DEF TxeiTypeOK
<1>9. \A g : g \in Held(t) <=> g = fd[t] /\ g # NoFd
  BY DEF Held
<1> QED BY <1>1, <1>3, <1>4, <1>5, <1>7, <1>8, <1>9, Account

LEMMA AccountDisconnect ==
  ASSUME TxeiTypeOK(Req, ReplySpace), HandlesExclusive, DescriptorsAccounted,
         NEW t \in Thread, fd[t] # NoFd, MeiDisconnect(t), lost' = lost
  PROVE  DescriptorsAccounted'
<1>1. OthersUntouched(t) /\ fd'[t] = NoFd
  BY MeiDisconnectStep
<1>2. files' = [files EXCEPT ![ProcOf[t]] = @ \ {fd[t]}]
  BY DEF MeiDisconnect
<1>3. files'[ProcOf[t]] = files[ProcOf[t]] \ {fd[t]}
      /\ \A p \in Process \ {ProcOf[t]} : files'[p] = files[p]
  BY <1>2, TxeiAssumption DEF TxeiTypeOK
<1>4. Drops(t, {})
  BY DEF Drops
<1> QED BY <1>1, <1>3, <1>4, Account

LEMMA AccountSame ==
  ASSUME DescriptorsAccounted, fd' = fd, files' = files, lost' = lost
  PROVE  DescriptorsAccounted'
BY DEF DescriptorsAccounted

-----------------------------------------------------------------------------
(* A step that leaves the descriptor table as it is.                       *)
LEMMA TxeiSame ==
  ASSUME IInv, UNCHANGED txeiVars, UNCHANGED mmVars
  PROVE  /\ TxeiTypeOK(Req, ReplySpace)' /\ HandlesExclusive' /\ DescriptorsAccounted'
         /\ \A u \in Thread : Untouched(u)
<1>1. fd' = fd /\ files' = files /\ link' = link /\ lost' = lost
  BY DEF txeiVars, mmVars
<1>2. TxeiTypeOK(Req, ReplySpace)'
  BY <1>1 DEF IInv, TypeOK, TxeiTypeOK, Req
<1>3. HandlesExclusive'
  BY <1>1 DEF IInv, HandlesExclusive
<1>4. DescriptorsAccounted'
  BY <1>1, AccountSame DEF IInv
<1> QED BY <1>1, <1>2, <1>3, <1>4 DEF Untouched, LinkOf

(* What a thread's variables hold.                                         *)
LEMMA Locals ==
  ASSUME KeyTypeOK, NEW t \in Thread
  PROVE  /\ cmd[t].rsp \in Nat /\ req[t].len \in Nat /\ req[t].size \in Nat
         /\ reply[t] \in ReplySpace /\ said[t] \in ReplySpace
         /\ reply[t].code \in Nat /\ reply[t].n \in Nat
         /\ reply[t].verified \in BOOLEAN
         /\ key_opaque_size[ProcOf[t]] \in Nat
<1>1. cmd[t] \in CallSpace \cup {NoCall} /\ req[t] \in [len : Nat, size : Nat]
      /\ reply[t] \in ReplySpace /\ said[t] \in ReplySpace
      /\ key_opaque_size[ProcOf[t]] \in Nat
  BY TxeiAssumption DEF KeyTypeOK
<1>2. cmd[t].rsp \in Nat
  BY <1>1 DEF CallSpace, NoCall
<1>3. reply[t].code \in Nat /\ reply[t].n \in Nat /\ reply[t].verified \in BOOLEAN
  BY <1>1 DEF ReplySpace
<1> QED BY <1>1, <1>2, <1>3

(* A call returns.                                                         *)
LEMMA FinishStep ==
  ASSUME KeyTypeOK, NEW t \in Thread, NEW code \in ReturnCode, NEW result \in Result,
         NEW len \in Nat, Finish(t, code, result, len)
  PROVE  /\ KeyTypeOK' /\ OthersUndisturbed(t) /\ Steady
         /\ at'[t] = "idle" /\ phase'[t] = "cmd" /\ reply'[t] = NoReply
         /\ ret'[t] = [code |-> code, result |-> result, len |-> len]
         /\ cmd'[t] = cmd[t] /\ said'[t] = said[t]
         /\ blank'[ProcOf[t]] = blank[ProcOf[t]]
<1>1. KeyTypeOK'
  BY Values DEF KeyTypeOK, Finish, Goto, Places
<1>2. OthersUndisturbed(t)
  BY DEF KeyTypeOK, Finish, Goto, OthersUndisturbed, Undisturbed
<1>3. Steady
  BY DEF Finish, Steady
<1> QED BY <1>1, <1>2, <1>3 DEF KeyTypeOK, Finish, Goto

(* A call returns with its connection closed, and what it returns is true. *)
LEMMA Returns ==
  ASSUME IInv, NEW t \in KeyThread, UNCHANGED mmVars,
         NEW code \in ReturnCode, NEW result \in Result, NEW len \in Nat,
         Finish(t, code, result, len),
         TxeiTypeOK(Req, ReplySpace)', HandlesExclusive', DescriptorsAccounted',
         OthersUntouched(t), fd'[t] = NoFd,
         CodeTells(t)', ResultIsFirmware(t)', Coded(t)'
  PROVE  IInv'
<1>1. t \in Thread /\ KeyTypeOK /\ Said(t)
  BY Parts
<1>2. /\ KeyTypeOK' /\ OthersUndisturbed(t) /\ Steady
      /\ at'[t] = "idle" /\ phase'[t] = "cmd" /\ reply'[t] = NoReply
      /\ cmd'[t] = cmd[t] /\ said'[t] = said[t]
  BY <1>1, FinishStep
<1>3. Connected(t)' /\ Placed(t)'
  BY <1>2 DEF Connected, Placed
<1>4. Said(t)'
  BY <1>1, <1>2 DEF Said
<1>5. Heard(t)' /\ Knows(t)'
  BY <1>2 DEF Heard, Knows
<1>6. RequestFits(t)'
  BY <1>2 DEF RequestFits
<1>7. Own(t)'
  BY <1>3, <1>4, <1>5, <1>6 DEF Own, Told
<1> QED BY <1>2, <1>7, Assemble

(* A failure before anything was answered, or one that promises nothing.   *)
LEMMA Fails ==
  ASSUME IInv, NEW t \in KeyThread, UNCHANGED mmVars,
         NEW code \in ReturnCode \ {"SUCCESS", "RSP_BUFFER_TOO_SMALL"}, Fail(t, code),
         code = "HECI_SNDRCV_FAILED" \/ said[t] = NoReply,
         TxeiTypeOK(Req, ReplySpace)', HandlesExclusive', DescriptorsAccounted',
         OthersUntouched(t), fd'[t] = NoFd
  PROVE  IInv'
<1>1. t \in Thread /\ KeyTypeOK
  BY Parts
<1>2. cmd[t].rsp \in Nat /\ "FAILURE" \in Result
  BY <1>1, Locals DEF Result
<1>3. Finish(t, code, "FAILURE", cmd[t].rsp)
  BY DEF Fail
<1>4. /\ ret'[t] = [code |-> code, result |-> "FAILURE", len |-> cmd[t].rsp]
      /\ said'[t] = said[t]
  BY <1>1, <1>2, <1>3, FinishStep
<1>5. ret'[t].code = code
  BY <1>4
<1>6. CodeTells(t)'
  BY <1>4, <1>5 DEF CodeTells
<1>7. ResultIsFirmware(t)' /\ Coded(t)'
  BY <1>5 DEF ResultIsFirmware, Coded, ReturnCode
<1> QED BY <1>2, <1>3, <1>6, <1>7, Returns

(* mei_disconnect at the end of a call.                                    *)
LEMMA Disconnects ==
  ASSUME IInv, NEW t \in KeyThread, UNCHANGED mmVars, at[t] = "close", MeiDisconnect(t)
  PROVE  /\ TxeiTypeOK(Req, ReplySpace)' /\ HandlesExclusive' /\ DescriptorsAccounted'
         /\ OthersUntouched(t) /\ fd'[t] = NoFd
<1>1. t \in Thread /\ TxeiTypeOK(Req, ReplySpace) /\ HandlesExclusive /\ DescriptorsAccounted
      /\ fd[t] # NoFd
  BY Parts DEF Connected
<1>2. lost' = lost
  BY DEF mmVars
<1> QED BY <1>1, <1>2, MeiDisconnectStep, AccountDisconnect

(* Without a connection, the descriptor table is left alone.               *)
LEMMA Detached ==
  ASSUME IInv, NEW t \in KeyThread, UNCHANGED mmVars, UNCHANGED txeiVars,
         at[t] \notin {"write", "wait", "close"}
  PROVE  /\ TxeiTypeOK(Req, ReplySpace)' /\ HandlesExclusive' /\ DescriptorsAccounted'
         /\ OthersUntouched(t) /\ fd'[t] = NoFd
<1>1. fd[t] = NoFd
  BY Parts DEF Connected
<1>2. fd'[t] = fd[t]
  BY DEF txeiVars
<1> QED BY <1>1, <1>2, TxeiSame DEF OthersUntouched

-----------------------------------------------------------------------------
(* A call that has not returned has told its caller nothing yet.           *)
LEMMA Underway ==
  ASSUME NEW t \in KeyThread, at'[t] # "idle", RequestFits(t)'
  PROVE  Told(t)'
BY DEF Told, Returned, CodeTells, ResultIsFirmware, Coded

(* Begin, Reject: sep_keymaster_send_cmd checks its arguments.             *)
LEMMA BeginInv ==
  ASSUME IInv, NEW t \in KeyThread, Begin(t), UNCHANGED mmVars PROVE IInv'
<1>1. /\ t \in Thread /\ KeyTypeOK /\ Cached(ProcOf[t]) /\ Heard(t) /\ Connected(t)
      /\ Placed(t) /\ fd[t] = NoFd /\ reply[t] = NoReply /\ phase[t] = "cmd"
  BY Parts DEF Begin, Connected, Heard, Placed
<1>2. PICK c \in Uses[t] : ArgumentError(c) = "SUCCESS" /\ cmd' = [cmd EXCEPT ![t] = c]
  BY DEF Begin
<1>3. c \in CallSpace /\ c.rsp \in Nat /\ c.id # "none"
  BY KeymasterAssumption DEF CallSpace, Cmd
<1>4. c.rsp >= CallerRsp
  BY <1>2, <1>3 DEF ArgumentError, CallerRsp
<1>5. /\ cmd'[t] = c /\ said'[t] = NoReply /\ reply'[t] = NoReply
      /\ \/ caps_obtained[ProcOf[t]] /\ at'[t] = "build" /\ phase'[t] = "cmd"
         \/ at'[t] = "open" /\ phase'[t] = "caps"
  BY <1>1, <1>2 DEF KeyTypeOK, Begin, Goto
<1>6. KeyTypeOK' /\ OthersUndisturbed(t)
  <2>1. at' \in [Thread -> Places] /\ phase' \in [Thread -> {"caps", "cmd"}]
    BY <1>1 DEF KeyTypeOK, Begin, Goto, Places
  <2>2. KeyTypeOK'
    BY <1>1, <1>2, <1>3, <2>1, Values DEF KeyTypeOK, Begin
  <2>3. OthersUndisturbed(t)
    BY <1>1, <1>2 DEF KeyTypeOK, Begin, Goto, OthersUndisturbed, Undisturbed
  <2> QED BY <2>2, <2>3
<1>7. Steady /\ UNCHANGED <<caps_obtained, key_opaque_size, blank, txeiVars>>
  BY DEF Begin, Steady
<1>8. /\ TxeiTypeOK(Req, ReplySpace)' /\ HandlesExclusive' /\ DescriptorsAccounted'
      /\ OthersUntouched(t) /\ fd'[t] = NoFd
  BY <1>7, Detached DEF Begin
<1>9. Connected(t)' /\ Placed(t)' /\ Said(t)' /\ Heard(t)'
  BY <1>3, <1>4, <1>5, <1>8 DEF Connected, Placed, Said, Heard
<1>10. Knows(t)'
  BY <1>1, <1>5, <1>7 DEF Knows, Cached
<1>11. Told(t)'
  BY <1>5, Underway DEF RequestFits
<1> QED BY <1>6, <1>7, <1>8, <1>9, <1>10, <1>11, Assemble DEF Own

LEMMA RejectInv ==
  ASSUME IInv, NEW t \in KeyThread, Reject(t), UNCHANGED mmVars PROVE IInv'
<1>1. /\ t \in Thread /\ KeyTypeOK /\ Heard(t) /\ Connected(t)
      /\ Placed(t) /\ fd[t] = NoFd /\ reply[t] = NoReply /\ phase[t] = "cmd"
  BY Parts DEF Reject, Connected, Heard, Placed
<1>2. PICK c \in Uses[t] :
        /\ ArgumentError(c) # "SUCCESS"
        /\ cmd' = [cmd EXCEPT ![t] = c]
        /\ ret' = [ret EXCEPT ![t] =
                     [code |-> ArgumentError(c), result |-> "FAILURE", len |-> c.rsp]]
  BY DEF Reject
<1>3. c \in CallSpace /\ c.rsp \in Nat
  BY KeymasterAssumption DEF CallSpace
<1>4. ArgumentError(c) \in {"BAD_PARAMETER", "RSP_BUFFER_TOO_SMALL"}
  BY <1>2 DEF ArgumentError
<1>5. /\ cmd'[t] = c /\ said'[t] = NoReply /\ reply'[t] = NoReply
      /\ at'[t] = "idle" /\ phase'[t] = "cmd"
      /\ ret'[t].code = ArgumentError(c) /\ ret'[t].len = c.rsp
  BY <1>1, <1>2 DEF KeyTypeOK, Reject
<1>6. KeyTypeOK' /\ OthersUndisturbed(t)
  <2>1. [code |-> ArgumentError(c), result |-> "FAILURE", len |-> c.rsp]
          \in [code : ReturnCode, result : Result, len : Nat]
    BY <1>3, <1>4 DEF ReturnCode, Result
  <2>2. KeyTypeOK'
    BY <1>1, <1>2, <1>3, <2>1, Values DEF KeyTypeOK, Reject
  <2>3. OthersUndisturbed(t)
    BY <1>1, <1>2 DEF KeyTypeOK, Reject, OthersUndisturbed, Undisturbed
  <2> QED BY <2>2, <2>3
<1>7. Steady /\ UNCHANGED txeiVars
  BY DEF Reject, Steady
<1>8. /\ TxeiTypeOK(Req, ReplySpace)' /\ HandlesExclusive' /\ DescriptorsAccounted'
      /\ OthersUntouched(t) /\ fd'[t] = NoFd
  BY <1>7, Detached DEF Reject
<1>9. Connected(t)' /\ Placed(t)' /\ Said(t)' /\ Heard(t)' /\ Knows(t)'
  BY <1>5, <1>8 DEF Connected, Placed, Said, Heard, Knows
<1>10. Told(t)'
  BY <1>4, <1>5 DEF Told, CodeTells, ResultIsFirmware, RequestFits, Coded
<1> QED BY <1>6, <1>7, <1>8, <1>9, <1>10, Assemble DEF Own

-----------------------------------------------------------------------------
(* send_req_to_fw, mei_snd_rcv.                                            *)
LEMMA OpenInv ==
  ASSUME IInv, NEW t \in KeyThread, Open(t), UNCHANGED mmVars PROVE IInv'
<1>1. /\ t \in Thread /\ KeyTypeOK /\ TxeiTypeOK(Req, ReplySpace) /\ HandlesExclusive
      /\ DescriptorsAccounted /\ at[t] = "open" /\ fd[t] = NoFd /\ MeiConnect(t)
      /\ Placed(t) /\ Said(t) /\ Heard(t) /\ Knows(t) /\ Told(t)
  BY Parts DEF Open, Connected
<1>2. /\ TxeiTypeOK(Req, ReplySpace)' /\ HandlesExclusive' /\ OthersUntouched(t)
      /\ fd'[t] # NoFd /\ LinkOf(t)' = NoTraffic
  BY <1>1, MeiConnectStep
<1>3. DescriptorsAccounted'
  <2>1. Held(t) = {}
    BY <1>1 DEF Held
  <2>2. Drops(t, Held(t))
    BY <2>1 DEF Drops, mmVars
  <2> QED BY <1>1, <2>2, AccountConnect
<1>4. /\ at'[t] = "write"
      /\ UNCHANGED <<phase, cmd, req, reply, ret, caps_obtained, key_opaque_size, said, blank>>
  BY <1>1 DEF KeyTypeOK, Open, Goto
<1>5. KeyTypeOK' /\ OthersUndisturbed(t) /\ Steady
  BY <1>1 DEF KeyTypeOK, Open, Goto, Places, OthersUndisturbed, Undisturbed, Steady
<1>6. Connected(t)'
  BY <1>1, <1>2, <1>4 DEF Connected, NoTraffic, Heard
<1>7. Placed(t)' /\ Said(t)' /\ Heard(t)' /\ Knows(t)'
  BY <1>1, <1>4 DEF Placed, Said, Heard, Knows
<1>8. Told(t)'
  BY <1>1, <1>4, Underway DEF Told, RequestFits
<1> QED BY <1>2, <1>3, <1>5, <1>6, <1>7, <1>8, Assemble DEF Own

LEMMA OpenFailsInv ==
  ASSUME IInv, NEW t \in KeyThread, OpenFails(t) \/ CapsAllocFails(t), UNCHANGED mmVars
  PROVE  IInv'
<1>1. at[t] = "open" /\ UNCHANGED txeiVars
  BY DEF OpenFails, CapsAllocFails, MeiConnectFails
<1>2. said[t] = NoReply
  BY <1>1, Parts DEF Said
<1>3. PICK code \in {"HECI_CONNECT_FAILED", "OUT_OF_MEMORY"} : Fail(t, code)
  BY DEF OpenFails, CapsAllocFails
<1>4. code \in ReturnCode \ {"SUCCESS", "RSP_BUFFER_TOO_SMALL"}
  BY DEF ReturnCode
<1> QED BY <1>1, <1>2, <1>3, <1>4, Detached, Fails

LEMMA WriteInv ==
  ASSUME IInv, NEW t \in KeyThread, Write(t), UNCHANGED mmVars PROVE IInv'
<1>1. /\ t \in Thread /\ KeyTypeOK /\ TxeiTypeOK(Req, ReplySpace) /\ HandlesExclusive
      /\ DescriptorsAccounted /\ at[t] = "write" /\ MeiWrite(t, Message(t))
      /\ Connected(t) /\ Placed(t) /\ Said(t) /\ Heard(t) /\ Knows(t) /\ Told(t)
  BY Parts DEF Write
<1>2. Message(t) \in Req
  BY <1>1 DEF Message, Placed, Req, KeyTypeOK
<1>3. /\ TxeiTypeOK(Req, ReplySpace)' /\ HandlesExclusive' /\ OthersUntouched(t)
      /\ fd' = fd /\ LinkOf(t)' = [req |-> {Message(t)}, rsp |-> LinkOf(t).rsp]
  BY <1>1, <1>2, MeiWriteStep
<1>4. DescriptorsAccounted'
  BY <1>1, <1>3, AccountSame DEF MeiWrite, mmVars
<1>5. /\ at'[t] = "wait"
      /\ UNCHANGED <<phase, cmd, req, reply, ret, caps_obtained, key_opaque_size, said, blank>>
  BY <1>1 DEF KeyTypeOK, Write, Goto
<1>6. KeyTypeOK' /\ OthersUndisturbed(t) /\ Steady
  BY <1>1 DEF KeyTypeOK, Write, Goto, Places, OthersUndisturbed, Undisturbed, Steady
<1>7. Connected(t)'
  <2>1. LinkOf(t).rsp = {} /\ reply[t] = NoReply /\ fd[t] # NoFd /\ said[t] = NoReply
    BY <1>1 DEF Connected, NoTraffic, Heard, Said
  <2>2. LinkOf(t)'.req = {Message(t)} /\ LinkOf(t)'.rsp = {} /\ Message(t)' = Message(t)
    BY <1>3, <1>5, <2>1 DEF Message
  <2> QED BY <1>3, <1>5, <2>1, <2>2 DEF Connected
<1>8. Placed(t)' /\ Said(t)' /\ Heard(t)' /\ Knows(t)'
  BY <1>1, <1>5 DEF Placed, Said, Heard, Knows
<1>9. Told(t)'
  BY <1>1, <1>5, Underway DEF Told, RequestFits
<1> QED BY <1>3, <1>4, <1>6, <1>7, <1>8, <1>9, Assemble DEF Own

(* The message is not handed over, or no answer is read.                   *)
LEMMA UnansweredInv ==
  ASSUME IInv, NEW t \in KeyThread, WriteFails(t) \/ ReceiveFails(t), UNCHANGED mmVars
  PROVE  IInv'
<1>1. /\ t \in Thread /\ KeyTypeOK /\ at[t] \in {"write", "wait"}
      /\ Connected(t) /\ Placed(t) /\ Said(t) /\ Heard(t) /\ Knows(t)
  BY Parts DEF WriteFails, ReceiveFails
<1>2. /\ Goto(t, "close")
      /\ UNCHANGED <<txeiVars, phase, cmd, req, reply, ret, caps_obtained, key_opaque_size,
                     said, blank>>
  BY DEF WriteFails, ReceiveFails, MeiWriteFails
<1>3. /\ TxeiTypeOK(Req, ReplySpace)' /\ HandlesExclusive' /\ DescriptorsAccounted'
      /\ OthersUntouched(t) /\ Untouched(t)
  BY <1>1, <1>2, TxeiSame DEF OthersUntouched
<1>4. KeyTypeOK' /\ OthersUndisturbed(t) /\ Steady /\ at'[t] = "close"
  BY <1>1, <1>2 DEF KeyTypeOK, Goto, Places, OthersUndisturbed, Undisturbed, Steady
<1>5. Connected(t)'
  BY <1>1, <1>2, <1>3, <1>4 DEF Connected, Untouched, Message
<1>6. Placed(t)' /\ Said(t)' /\ Heard(t)' /\ Knows(t)'
  BY <1>1, <1>2, <1>4 DEF Placed, Said, Heard, Knows
<1>7. Told(t)'
  BY <1>4, Underway DEF RequestFits
<1> QED BY <1>3, <1>4, <1>5, <1>6, <1>7, Assemble DEF Own

LEMMA ReceiveInv ==
  ASSUME IInv, NEW t \in KeyThread, Receive(t), UNCHANGED mmVars PROVE IInv'
<1>1. /\ t \in Thread /\ KeyTypeOK /\ TxeiTypeOK(Req, ReplySpace) /\ HandlesExclusive
      /\ DescriptorsAccounted /\ at[t] = "wait"
      /\ Connected(t) /\ Placed(t) /\ Said(t) /\ Heard(t) /\ Knows(t)
  BY Parts DEF Receive
<1>2. PICK r \in LinkOf(t).rsp : MeiRead(t, r) /\ reply' = [reply EXCEPT ![t] = r]
  BY DEF Receive
<1>3. /\ TxeiTypeOK(Req, ReplySpace)' /\ HandlesExclusive' /\ OthersUntouched(t)
      /\ fd' = fd /\ LinkOf(t)' = [req |-> LinkOf(t).req, rsp |-> {}]
      /\ r \in ReplySpace
  BY <1>1, <1>2, MeiReadStep
<1>4. DescriptorsAccounted'
  BY <1>1, <1>2, <1>3, AccountSame DEF MeiRead, mmVars
<1>5. /\ at'[t] = "close" /\ reply'[t] = r
      /\ UNCHANGED <<phase, cmd, req, ret, caps_obtained, key_opaque_size, said, blank>>
  BY <1>1, <1>2 DEF KeyTypeOK, Receive, Goto
<1>6. KeyTypeOK' /\ OthersUndisturbed(t) /\ Steady
  BY <1>1, <1>2, <1>3
  DEF KeyTypeOK, Receive, Goto, Places, OthersUndisturbed, Undisturbed, Steady
<1>7. /\ fd[t] # NoFd /\ LinkOf(t).req = {}
      /\ IF phase[t] = "caps" THEN r \in Answers("caps") ELSE r = said[t] /\ r # NoReply
  BY <1>1, <1>2 DEF Connected
<1>8. Connected(t)'
  <2>1. LinkOf(t)'.req = {} /\ LinkOf(t)'.rsp = {}
    BY <1>3, <1>7
  <2> QED BY <1>3, <1>5, <1>7, <2>1 DEF Connected
<1>9. Heard(t)'
  BY <1>1, <1>5, <1>7 DEF Heard, KeyTypeOK
<1>10. Placed(t)' /\ Said(t)' /\ Knows(t)'
  BY <1>1, <1>5 DEF Placed, Said, Knows
<1>11. Told(t)'
  BY <1>5, Underway DEF RequestFits
<1> QED BY <1>3, <1>4, <1>6, <1>8, <1>9, <1>10, <1>11, Assemble DEF Own

LEMMA ReceiveNothingInv ==
  ASSUME IInv, NEW t \in KeyThread, ReceiveNothing(t), UNCHANGED mmVars PROVE IInv'
<1>1. /\ t \in Thread /\ KeyTypeOK /\ at[t] = "wait" /\ ProcOf[t] \in Process
      /\ Connected(t) /\ Placed(t) /\ Said(t) /\ Heard(t) /\ Knows(t)
  BY Parts DEF ReceiveNothing
<1>2. /\ Goto(t, "close") /\ LinkOf(t).rsp # {} /\ "empty" \in Faults
      /\ reply' = [reply EXCEPT ![t] = Blank]
      /\ blank' = [blank EXCEPT ![ProcOf[t]] = TRUE]
      /\ UNCHANGED <<txeiVars, phase, cmd, req, ret, caps_obtained, key_opaque_size, said>>
  BY DEF ReceiveNothing, MeiReadable
<1>3. /\ TxeiTypeOK(Req, ReplySpace)' /\ HandlesExclusive' /\ DescriptorsAccounted'
      /\ OthersUntouched(t) /\ Untouched(t)
  BY <1>1, <1>2, TxeiSame DEF OthersUntouched
<1>4. KeyTypeOK' /\ at'[t] = "close" /\ reply'[t] = Blank /\ blank'[ProcOf[t]]
  BY <1>1, <1>2, Values DEF KeyTypeOK, Goto, Places
<1>5. OthersUndisturbed(t) /\ Steady
  BY <1>1, <1>2 DEF KeyTypeOK, Goto, OthersUndisturbed, Undisturbed, Steady
<1>6. Connected(t)'
  BY <1>1, <1>2, <1>3, <1>4 DEF Connected, Untouched, Message
<1>7. Placed(t)' /\ Said(t)' /\ Heard(t)' /\ Knows(t)'
  BY <1>1, <1>2, <1>4 DEF Placed, Said, Heard, Knows
<1>8. Told(t)'
  BY <1>4, Underway DEF RequestFits
<1> QED BY <1>3, <1>4, <1>5, <1>6, <1>7, <1>8, Assemble DEF Own

-----------------------------------------------------------------------------
(* get_caps.                                                               *)
LEMMA CapsFailInv ==
  ASSUME IInv, NEW t \in KeyThread, CapsFail(t), UNCHANGED mmVars PROVE IInv'
<1>1. at[t] = "close" /\ MeiDisconnect(t) /\ said[t] = NoReply
  BY Parts DEF CapsFail, Said
<1>2. PICK code \in {"HECI_SNDRCV_FAILED", "FAILURE"} : Fail(t, code)
  BY DEF CapsFail
<1>3. code \in ReturnCode \ {"SUCCESS", "RSP_BUFFER_TOO_SMALL"}
  BY DEF ReturnCode
<1> QED BY <1>1, <1>2, <1>3, Disconnects, Fails

LEMMA CapsOkInv ==
  ASSUME IInv, NEW t \in KeyThread, CapsOk(t), UNCHANGED mmVars PROVE IInv'
<1>1. /\ t \in Thread /\ KeyTypeOK /\ at[t] = "close" /\ phase[t] = "caps"
      /\ MeiDisconnect(t) /\ reply[t] # NoReply /\ reply[t].code = 0
      /\ Placed(t) /\ Said(t) /\ Heard(t) /\ Knows(t)
  BY Parts DEF CapsOk
<1>2. /\ TxeiTypeOK(Req, ReplySpace)' /\ HandlesExclusive' /\ DescriptorsAccounted'
      /\ OthersUntouched(t) /\ fd'[t] = NoFd
  BY <1>1, Disconnects
<1>3. /\ at'[t] = "store"
      /\ UNCHANGED <<phase, cmd, req, reply, ret, caps_obtained, key_opaque_size, said, blank>>
  BY <1>1 DEF KeyTypeOK, CapsOk, Goto
<1>4. KeyTypeOK' /\ OthersUndisturbed(t) /\ Steady
  BY <1>1 DEF KeyTypeOK, CapsOk, Goto, Places, OthersUndisturbed, Undisturbed, Steady
<1>5. Connected(t)' /\ Placed(t)' /\ Said(t)' /\ Heard(t)' /\ Knows(t)'
  BY <1>1, <1>2, <1>3 DEF Connected, Placed, Said, Heard, Knows
<1>6. Told(t)'
  BY <1>3, Underway DEF RequestFits
<1> QED BY <1>2, <1>4, <1>5, <1>6, Assemble DEF Own

LEMMA StoreSizeInv ==
  ASSUME IInv, NEW t \in KeyThread, StoreSize(t), UNCHANGED mmVars PROVE IInv'
<1> DEFINE p == ProcOf[t]
<1>1. /\ t \in Thread /\ p \in Process /\ KeyTypeOK /\ at[t] = "store"
      /\ Connected(t) /\ Placed(t) /\ Said(t) /\ Heard(t) /\ Cached(p)
      /\ phase[t] = "caps" /\ fd[t] = NoFd
  BY Parts DEF StoreSize, Placed, Connected
<1>2. /\ Goto(t, "latch")
      /\ UNCHANGED <<txeiVars, phase, cmd, req, reply, ret, caps_obtained, said, blank>>
      /\ key_opaque_size' = IF reply[t] = Blank THEN key_opaque_size
                            ELSE [key_opaque_size EXCEPT ![p] = reply[t].n]
  BY DEF StoreSize
<1>3. /\ TxeiTypeOK(Req, ReplySpace)' /\ HandlesExclusive' /\ DescriptorsAccounted'
      /\ OthersUntouched(t) /\ fd'[t] = NoFd
  BY <1>1, <1>2, Detached
<1>4. \/ reply[t] = Blank /\ blank[p]
      \/ reply[t].n = KeyOpaqueSize
  BY <1>1, AnswersFacts DEF Heard, Req
<1>5. /\ blank[p] \/ key_opaque_size'[p] = KeyOpaqueSize
      /\ key_opaque_size'[p] \in {key_opaque_size[p], KeyOpaqueSize}
  <2>1. CASE reply[t] = Blank
    BY <2>1, <1>1, <1>2, <1>4, Values DEF Cached
  <2>2. CASE reply[t] # Blank
    <3>1. key_opaque_size' = [key_opaque_size EXCEPT ![p] = KeyOpaqueSize]
      BY <2>2, <1>2, <1>4
    <3> QED BY <3>1, <1>1 DEF KeyTypeOK
  <2> QED BY <2>1, <2>2
<1>6. KeyTypeOK'
  <2>1. reply[t].n \in Nat
    BY <1>1, Locals
  <2>2. key_opaque_size' \in [Process -> Nat]
    BY <2>1, <1>1, <1>2 DEF KeyTypeOK
  <2> QED BY <2>2, <1>1, <1>2 DEF KeyTypeOK, Goto, Places
<1>7. at'[t] = "latch" /\ OthersUndisturbed(t)
  BY <1>1, <1>2 DEF KeyTypeOK, Goto, OthersUndisturbed, Undisturbed
<1>8. Steady
  <2>1. \A q \in Process \ {p} : key_opaque_size'[q] = key_opaque_size[q]
    BY <1>1, <1>2 DEF KeyTypeOK
  <2> QED BY <2>1, <1>2, <1>5 DEF Steady
<1>9. Connected(t)' /\ Placed(t)' /\ Said(t)' /\ Heard(t)' /\ Knows(t)'
  BY <1>1, <1>2, <1>3, <1>5, <1>7 DEF Connected, Placed, Said, Heard, Knows
<1>10. Told(t)'
  BY <1>7, Underway DEF RequestFits
<1> QED BY <1>3, <1>6, <1>7, <1>8, <1>9, <1>10, Assemble DEF Own

LEMMA LatchInv ==
  ASSUME IInv, NEW t \in KeyThread, Latch(t), UNCHANGED mmVars PROVE IInv'
<1>1. /\ t \in Thread /\ ProcOf[t] \in Process /\ KeyTypeOK /\ at[t] = "latch"
      /\ Connected(t) /\ Placed(t) /\ Said(t) /\ Knows(t) /\ phase[t] = "caps"
  BY Parts DEF Latch, Placed
<1>2. /\ Goto(t, "build")
      /\ caps_obtained' = [caps_obtained EXCEPT ![ProcOf[t]] = TRUE]
      /\ phase' = [phase EXCEPT ![t] = "cmd"]
      /\ reply' = [reply EXCEPT ![t] = NoReply]
      /\ UNCHANGED <<txeiVars, cmd, req, ret, key_opaque_size, said, blank>>
  BY DEF Latch
<1>3. /\ TxeiTypeOK(Req, ReplySpace)' /\ HandlesExclusive' /\ DescriptorsAccounted'
      /\ OthersUntouched(t) /\ fd'[t] = NoFd
  BY <1>1, <1>2, Detached
<1>4. /\ KeyTypeOK' /\ OthersUndisturbed(t)
      /\ at'[t] = "build" /\ phase'[t] = "cmd" /\ reply'[t] = NoReply
  BY <1>1, <1>2, Values DEF KeyTypeOK, Goto, Places, OthersUndisturbed, Undisturbed
<1>5. Steady
  BY <1>1, <1>2 DEF KeyTypeOK, Steady, Knows
<1>6. Connected(t)' /\ Placed(t)' /\ Said(t)' /\ Heard(t)' /\ Knows(t)'
  BY <1>1, <1>2, <1>3, <1>4 DEF Connected, Placed, Said, Heard, Knows
<1>7. Told(t)'
  BY <1>4, Underway DEF RequestFits
<1> QED BY <1>3, <1>4, <1>5, <1>6, <1>7, Assemble DEF Own

-----------------------------------------------------------------------------
(* generate_cmd_buf.                                                       *)
LEMMA BuildInv ==
  ASSUME IInv, NEW t \in KeyThread, Build(t), UNCHANGED mmVars PROVE IInv'
<1> DEFINE len == RequestLength(cmd[t].id, key_opaque_size[ProcOf[t]])
<1>1. /\ t \in Thread /\ KeyTypeOK /\ at[t] = "build" /\ cmd[t].id \in Cmd
      /\ Connected(t) /\ Placed(t) /\ Said(t) /\ Heard(t) /\ Knows(t) /\ phase[t] = "cmd"
  BY Parts DEF Build, Placed
<1>2. /\ Goto(t, "fill")
      /\ req' = [req EXCEPT ![t].len = len]
      /\ UNCHANGED <<txeiVars, phase, cmd, reply, ret, caps_obtained, key_opaque_size, said,
                     blank>>
  BY DEF Build
<1>3. /\ TxeiTypeOK(Req, ReplySpace)' /\ HandlesExclusive' /\ DescriptorsAccounted'
      /\ OthersUntouched(t) /\ fd'[t] = NoFd
  BY <1>1, <1>2, Detached
<1>4. len \in Nat
  BY <1>1, Locals DEF RequestLength
<1>5. req' \in [Thread -> [len : Nat, size : Nat]] /\ req'[t].len = len
  BY <1>1, <1>2, <1>4 DEF KeyTypeOK
<1>6. KeyTypeOK' /\ at'[t] = "fill"
  BY <1>1, <1>2, <1>5 DEF KeyTypeOK, Goto, Places
<1>7. OthersUndisturbed(t) /\ Steady
  BY <1>1, <1>2 DEF KeyTypeOK, Goto, OthersUndisturbed, Undisturbed, Steady
<1>8. Connected(t)' /\ Placed(t)' /\ Said(t)' /\ Heard(t)'
  BY <1>1, <1>2, <1>3, <1>6 DEF Connected, Placed, Said, Heard
<1>9. Knows(t)'
  BY <1>1, <1>2, <1>5, <1>6 DEF Knows
<1>10. Told(t)'
  BY <1>6, Underway DEF RequestFits
<1> QED BY <1>3, <1>6, <1>7, <1>8, <1>9, <1>10, Assemble DEF Own

LEMMA FillErrors ==
  ASSUME NEW t, NEW size
  PROVE  RequestError(t, size) \in {"SUCCESS", "BAD_PARAMETER", "CMD_BUFFER_TOO_BIG"}
<1>1. FillError(cmd[t], size) \in {"SUCCESS", "BAD_PARAMETER", "CMD_BUFFER_TOO_BIG"}
  <2>1. /\ GenerateError(cmd[t]) \in {"SUCCESS", "BAD_PARAMETER"}
        /\ ImportError(cmd[t]) \in {"SUCCESS", "BAD_PARAMETER"}
        /\ GetPublicError(cmd[t], size) \in {"SUCCESS", "BAD_PARAMETER"}
    BY DEF GenerateError, ImportError, GetPublicError
  <2>2. /\ SignError(cmd[t], size) \in {"SUCCESS", "BAD_PARAMETER", "CMD_BUFFER_TOO_BIG"}
        /\ VerifyError(cmd[t], size) \in {"SUCCESS", "BAD_PARAMETER", "CMD_BUFFER_TOO_BIG"}
    BY DEF SignError, VerifyError
  <2> QED BY <2>1, <2>2 DEF FillError
<1> QED BY <1>1 DEF RequestError

(* generate_cmd_buf fails, before anything is sent.                        *)
LEMMA BuildFailsInv ==
  ASSUME IInv, NEW t \in KeyThread, BuildFails(t) \/ FillFails(t), UNCHANGED mmVars
  PROVE  IInv'
<1>1. at[t] \in {"build", "fill"} /\ UNCHANGED txeiVars
  BY DEF BuildFails, FillFails
<1>2. said[t] = NoReply
  BY <1>1, Parts DEF Said
<1>3. PICK code \in {"FAILURE", "OUT_OF_MEMORY", "BAD_PARAMETER", "CMD_BUFFER_TOO_BIG"} :
        Fail(t, code)
  BY FillErrors DEF BuildFails, FillFails
<1>4. code \in ReturnCode \ {"SUCCESS", "RSP_BUFFER_TOO_SMALL"}
  BY DEF ReturnCode
<1> QED BY <1>1, <1>2, <1>3, <1>4, Detached, Fails

LEMMA FillInv ==
  ASSUME IInv, NEW t \in KeyThread, Fill(t), UNCHANGED mmVars PROVE IInv'
<1> DEFINE size == key_opaque_size[ProcOf[t]]
<1>1. /\ t \in Thread /\ KeyTypeOK /\ at[t] = "fill" /\ size \in Nat /\ req[t].len \in Nat
      /\ Connected(t) /\ Placed(t) /\ Said(t) /\ Heard(t) /\ Knows(t) /\ phase[t] = "cmd"
  BY Parts, Locals DEF Fill, Placed
<1>2. /\ Goto(t, "open") /\ RequestError(t, size) = "SUCCESS"
      /\ req' = [req EXCEPT ![t].size = size]
      /\ UNCHANGED <<txeiVars, phase, cmd, reply, ret, caps_obtained, key_opaque_size, said,
                     blank>>
  BY DEF Fill
<1>3. /\ TxeiTypeOK(Req, ReplySpace)' /\ HandlesExclusive' /\ DescriptorsAccounted'
      /\ OthersUntouched(t) /\ fd'[t] = NoFd
  BY <1>1, <1>2, Detached
<1>4. req[t].len <= MaxHeci
  BY <1>1, <1>2 DEF RequestError, MaxHeci
<1>5. /\ req' \in [Thread -> [len : Nat, size : Nat]]
      /\ req'[t].len = req[t].len /\ req'[t].size = size
  BY <1>1, <1>2 DEF KeyTypeOK
<1>6. KeyTypeOK' /\ at'[t] = "open"
  BY <1>1, <1>2, <1>5 DEF KeyTypeOK, Goto, Places
<1>7. OthersUndisturbed(t) /\ Steady
  BY <1>1, <1>2 DEF KeyTypeOK, Goto, OthersUndisturbed, Undisturbed, Steady
<1>8. Connected(t)' /\ Placed(t)' /\ Said(t)' /\ Heard(t)' /\ Knows(t)'
  BY <1>1, <1>2, <1>3, <1>6 DEF Connected, Placed, Said, Heard, Knows
<1>9. Told(t)'
  BY <1>1, <1>2, <1>4, <1>5, <1>6, Underway DEF RequestFits, Knows
<1> QED BY <1>3, <1>6, <1>7, <1>8, <1>9, Assemble DEF Own

-----------------------------------------------------------------------------
(* The command has been answered, or not, and the call returns.            *)
LEMMA NotAnsweredInv ==
  ASSUME IInv, NEW t \in KeyThread, NotAnswered(t), UNCHANGED mmVars PROVE IInv'
<1>1. at[t] = "close" /\ MeiDisconnect(t) /\ Fail(t, "HECI_SNDRCV_FAILED")
  BY DEF NotAnswered
<1>2. "HECI_SNDRCV_FAILED" \in ReturnCode \ {"SUCCESS", "RSP_BUFFER_TOO_SMALL"}
  BY DEF ReturnCode
<1> QED BY <1>1, <1>2, Disconnects, Fails

(* An answer that is not blank is the firmware's to this very command.     *)
LEMMA HeardAnswer ==
  ASSUME IInv, NEW t \in KeyThread, at[t] = "close", phase[t] = "cmd",
         reply[t] # NoReply, reply[t] # Blank
  PROVE  /\ cmd[t].id \in Cmd /\ cmd[t].rsp \in Nat /\ cmd[t].rsp >= CallerRsp
         /\ reply[t] = said[t] /\ said[t].id = cmd[t].id
<1>1. /\ KeyTypeOK /\ t \in Thread /\ Placed(t) /\ Said(t) /\ Heard(t)
  BY Parts
<1>2. cmd[t].id \in Cmd /\ cmd[t].rsp >= CallerRsp /\ cmd[t].rsp \in Nat
  BY <1>1, Locals DEF Placed
<1>3. reply[t] = said[t]
  BY <1>1 DEF Heard
<1>4. said[t] \in Answers(cmd[t].id)
  BY <1>1, <1>3 DEF Said
<1> QED BY <1>2, <1>3, <1>4, AnswersFacts DEF Req

LEMMA RefusedInv ==
  ASSUME IInv, NEW t \in KeyThread, Refused(t), UNCHANGED mmVars PROVE IInv'
<1>1. /\ at[t] = "close" /\ phase[t] = "cmd" /\ MeiDisconnect(t) /\ reply[t].code # 0
      /\ Finish(t, "SUCCESS", ResultOf(reply[t].code), CallerRsp)
  BY DEF Refused
<1>2. /\ TxeiTypeOK(Req, ReplySpace)' /\ HandlesExclusive' /\ DescriptorsAccounted'
      /\ OthersUntouched(t) /\ fd'[t] = NoFd
  BY <1>1, Disconnects
<1>3. reply[t] = said[t] /\ said[t].id = cmd[t].id
  BY <1>1, Values, HeardAnswer
<1>4. "SUCCESS" \in ReturnCode /\ ResultOf(reply[t].code) \in Result /\ CallerRsp \in Nat
  BY DEF ReturnCode, Result, ResultOf, CallerRsp
<1>5. t \in Thread /\ KeyTypeOK
  BY Parts
<1>6. /\ ret'[t] = [code |-> "SUCCESS", result |-> ResultOf(reply[t].code), len |-> CallerRsp]
      /\ cmd'[t] = cmd[t] /\ said'[t] = said[t]
  BY <1>1, <1>4, <1>5, FinishStep
<1>7. /\ ret'[t].code = "SUCCESS" /\ ret'[t].result = ResultOf(said[t].code)
      /\ ret'[t].len = CallerRsp
  BY <1>3, <1>6
<1>8. CodeTells(t)' /\ Coded(t)'
  BY <1>7, Values DEF CodeTells, Coded
<1>9. ResultIsFirmware(t)'
  BY <1>1, <1>3, <1>6, <1>7 DEF ResultIsFirmware
<1> QED BY <1>1, <1>2, <1>4, <1>8, <1>9, Returns

(* The caller's buffer holds what the answer says, unless the size is read *)
(* from behind the response.                                               *)
LEMMA NeededFits ==
  ASSUME NEW id \in Cmd \ {"verify"}, NEW n \in Nat, NEW rsp \in Nat
  PROVE  /\ Needed(id, n) \in Nat /\ Needed(id, n) <= MaxMtu + n
         /\ rsp >= Needed(id, n) => ReplyLength(id, n) <= ResponseLength(rsp)
<1>1. CASE id \in {"generate", "import"}
  BY <1>1 DEF Needed, ReplyLength, ResponseLength, CallerRsp, RspHeader, MaxMtu
<1>2. CASE id = "get_public"
  BY <1>2 DEF Needed, ReplyLength, ResponseLength, CallerRsp, RspHeader, MaxMtu
<1>3. CASE id = "sign"
  BY <1>3 DEF Needed, ReplyLength, ResponseLength, CallerRsp, RspHeader, MaxMtu
<1> QED BY <1>1, <1>2, <1>3 DEF Cmd

LEMMA Remainder ==
  ASSUME NEW m \in Nat
  PROVE  m % Word \in Nat /\ (m < Word => m % Word = m)
<1>1. Word \in Nat /\ Word > 0
  BY KeymasterAssumption DEF MaxMtu
<1> QED BY <1>1

LEMMA CopiedFacts ==
  ASSUME IInv, NEW t \in KeyThread, at[t] = "close", phase[t] = "cmd",
         reply[t].code = 0, reply[t].id \in Cmd \ {"verify"}, NEW n \in Sizes(t)
  PROVE  /\ reply[t] = said[t] /\ said[t] # NoReply /\ said[t].code = 0
         /\ said[t].id = cmd[t].id /\ cmd[t].id # "verify" /\ cmd[t].rsp \in Nat
         /\ Needed(reply[t].id, n) % Word \in Nat
         /\ ~Behind(cmd[t]) =>
              /\ Needed(reply[t].id, n) % Word = Needed(cmd[t].id, said[t].n)
              /\ cmd[t].rsp >= Needed(cmd[t].id, said[t].n) =>
                   ReplyLength(cmd[t].id, said[t].n) <= ResponseLength(cmd[t].rsp)
<1>1. reply[t] # NoReply /\ reply[t] # Blank
  BY Values DEF Cmd
<1>2. /\ reply[t] = said[t] /\ said[t].id = cmd[t].id /\ cmd[t].id \in Cmd
      /\ cmd[t].rsp \in Nat
  BY <1>1, HeardAnswer
<1>3. said[t].n \in 0 .. MaxMtu
  <2>1. said[t] \in Answers(cmd[t].id)
    BY <1>1, <1>2, Parts DEF Said
  <2> QED BY <2>1, <1>2, AnswersFacts DEF Req
<1>4. n \in Nat /\ (~Behind(cmd[t]) => n = said[t].n)
  BY <1>2, <1>3, KeymasterAssumption DEF Sizes
<1> DEFINE needed == Needed(reply[t].id, n)
<1>5. /\ needed \in Nat /\ needed <= MaxMtu + n
      /\ cmd[t].rsp >= needed => ReplyLength(reply[t].id, n) <= ResponseLength(cmd[t].rsp)
  BY <1>2, <1>4, NeededFits
<1> HIDE DEF needed
<1>6. needed % Word \in Nat
  BY <1>5, Remainder
<1>7. ASSUME ~Behind(cmd[t])
      PROVE  /\ needed % Word = Needed(cmd[t].id, said[t].n)
             /\ cmd[t].rsp >= Needed(cmd[t].id, said[t].n) =>
                  ReplyLength(cmd[t].id, said[t].n) <= ResponseLength(cmd[t].rsp)
  <2>1. n = said[t].n /\ n <= MaxMtu
    BY <1>3, <1>4, <1>7
  <2>2. needed < Word
    <3>1. n \in Nat /\ n <= 4096 /\ needed \in Nat /\ needed <= 4096 + n
      BY <2>1, <1>4, <1>5 DEF MaxMtu
    <3>2. Word \in Nat /\ Word > 2 * 4096
      BY KeymasterAssumption DEF MaxMtu
    <3> QED BY <3>1, <3>2
  <2>3. needed % Word = needed
    BY <2>2, <1>5, Remainder
  <2>4. needed = Needed(cmd[t].id, said[t].n)
    BY <2>1, <1>2 DEF needed
  <2> QED BY <2>1, <2>3, <2>4, <1>2, <1>5
<1> QED BY <1>1, <1>2, <1>6, <1>7 DEF needed

LEMMA CopiedInv ==
  ASSUME IInv, NEW t \in KeyThread, Copied(t), UNCHANGED mmVars PROVE IInv'
<1>1. /\ at[t] = "close" /\ phase[t] = "cmd" /\ MeiDisconnect(t)
      /\ reply[t].code = 0 /\ reply[t].id \in Cmd \ {"verify"}
  BY DEF Copied
<1>2. /\ TxeiTypeOK(Req, ReplySpace)' /\ HandlesExclusive' /\ DescriptorsAccounted'
      /\ OthersUntouched(t) /\ fd'[t] = NoFd
  BY <1>1, Disconnects
<1>3. PICK n \in Sizes(t) :
        \/ /\ cmd[t].rsp < Needed(reply[t].id, n) % Word
           /\ Finish(t, "RSP_BUFFER_TOO_SMALL", "SUCCESS", Needed(reply[t].id, n) % Word)
        \/ /\ ~(cmd[t].rsp < Needed(reply[t].id, n) % Word)
           /\ Finish(t, "SUCCESS", "SUCCESS", Needed(reply[t].id, n) % Word)
  BY DEF Copied
<1> DEFINE needed == Needed(reply[t].id, n) % Word
<1>4. /\ said[t].id = cmd[t].id /\ cmd[t].rsp \in Nat /\ said[t] # NoReply
      /\ said[t].code = 0 /\ cmd[t].id # "verify" /\ needed \in Nat
      /\ ~Behind(cmd[t]) /\ cmd[t].rsp >= needed =>
           ReplyLength(cmd[t].id, said[t].n) <= ResponseLength(cmd[t].rsp)
  BY <1>1, CopiedFacts
<1>5. t \in Thread /\ KeyTypeOK
  BY Parts
<1>7. {"SUCCESS", "RSP_BUFFER_TOO_SMALL"} \subseteq ReturnCode /\ "SUCCESS" \in Result
  BY DEF ReturnCode, Result
<1> HIDE DEF needed
<1>8. CASE cmd[t].rsp < needed
  <2>1. Finish(t, "RSP_BUFFER_TOO_SMALL", "SUCCESS", needed)
    BY <1>3, <1>8 DEF needed
  <2>2. /\ ret'[t] = [code |-> "RSP_BUFFER_TOO_SMALL", result |-> "SUCCESS", len |-> needed]
        /\ cmd'[t] = cmd[t] /\ said'[t] = said[t]
    BY <2>1, <1>4, <1>5, <1>7, FinishStep
  <2>3. ret'[t].code = "RSP_BUFFER_TOO_SMALL" /\ ret'[t].len # cmd'[t].rsp
    BY <2>2, <1>4, <1>8
  <2>4. CodeTells(t)'
    BY <2>2, <2>3, <1>4 DEF CodeTells
  <2>5. ResultIsFirmware(t)' /\ Coded(t)'
    BY <2>3 DEF ResultIsFirmware, Coded
  <2> QED BY <2>1, <2>4, <2>5, <1>2, <1>4, <1>7, Returns
<1>9. CASE ~(cmd[t].rsp < needed)
  <2>1. Finish(t, "SUCCESS", "SUCCESS", needed)
    BY <1>3, <1>9 DEF needed
  <2>2. /\ ret'[t] = [code |-> "SUCCESS", result |-> "SUCCESS", len |-> needed]
        /\ cmd'[t] = cmd[t] /\ said'[t] = said[t]
    BY <2>1, <1>4, <1>5, <1>7, FinishStep
  <2>3. ret'[t].code = "SUCCESS" /\ ret'[t].result = "SUCCESS"
    BY <2>2
  <2>4. CodeTells(t)' /\ Coded(t)'
    BY <2>3 DEF CodeTells, Coded
  <2>5. ~Behind(cmd[t]) => ReplyLength(cmd[t].id, said[t].n) <= ResponseLength(cmd[t].rsp)
    BY <1>4, <1>9
  <2>6. ResultOf(said[t].code) = "SUCCESS"
    BY <1>4 DEF ResultOf
  <2>7. ResultIsFirmware(t)'
    BY <2>2, <2>3, <2>5, <2>6, <1>4 DEF ResultIsFirmware
  <2> QED BY <2>1, <2>4, <2>7, <1>2, <1>4, <1>7, Returns
<1> QED BY <1>8, <1>9

LEMMA VerifiedInv ==
  ASSUME IInv, NEW t \in KeyThread, Verified(t), UNCHANGED mmVars PROVE IInv'
<1>1. /\ at[t] = "close" /\ phase[t] = "cmd" /\ MeiDisconnect(t)
      /\ reply[t].code = 0 /\ reply[t].id = "verify"
  BY DEF Verified
<1>2. PICK v \in IF Behind(cmd[t]) THEN BOOLEAN ELSE {reply[t].verified} :
        Finish(t, "SUCCESS", IF v THEN "SUCCESS" ELSE "FAILURE", CallerRsp)
  BY DEF Verified
<1>3. /\ TxeiTypeOK(Req, ReplySpace)' /\ HandlesExclusive' /\ DescriptorsAccounted'
      /\ OthersUntouched(t) /\ fd'[t] = NoFd
  BY <1>1, Disconnects
<1>4. reply[t] # NoReply /\ reply[t] # Blank
  BY <1>1, Values
<1>5. /\ reply[t] = said[t] /\ said[t].id = cmd[t].id /\ cmd[t].rsp \in Nat
  BY <1>1, <1>4, HeardAnswer
<1> DEFINE result == IF v THEN "SUCCESS" ELSE "FAILURE"
<1>7. result \in Result /\ "SUCCESS" \in ReturnCode /\ CallerRsp \in Nat
  BY DEF Result, ReturnCode, CallerRsp
<1>8. ~Behind(cmd[t]) => result = IF said[t].verified THEN "SUCCESS" ELSE "FAILURE"
  BY <1>5
<1>9. Finish(t, "SUCCESS", result, CallerRsp)
  BY <1>2
<1> HIDE DEF result
<1>10. t \in Thread /\ KeyTypeOK
  BY Parts
<1>11. /\ ret'[t] = [code |-> "SUCCESS", result |-> result, len |-> CallerRsp]
       /\ cmd'[t] = cmd[t] /\ said'[t] = said[t]
  BY <1>7, <1>9, <1>10, FinishStep
<1>12. ret'[t].code = "SUCCESS" /\ ret'[t].result = result /\ ret'[t].len = CallerRsp
  BY <1>11
<1>13. CodeTells(t)' /\ Coded(t)'
  BY <1>12, Values DEF CodeTells, Coded
<1>14. ResultIsFirmware(t)'
  <2>1. ResultOf(said[t].code) = "SUCCESS" /\ said[t].code = 0 /\ cmd[t].id = "verify"
    BY <1>1, <1>5 DEF ResultOf
  <2> QED BY <2>1, <1>5, <1>8, <1>11, <1>12 DEF ResultIsFirmware
<1> QED BY <1>3, <1>7, <1>9, <1>13, <1>14, Returns

(* An answer of another command is a blank one.                            *)
LEMMA UnmatchedInv ==
  ASSUME IInv, NEW t \in KeyThread, Unmatched(t), UNCHANGED mmVars PROVE IInv'
<1>1. /\ at[t] = "close" /\ phase[t] = "cmd" /\ MeiDisconnect(t)
      /\ reply[t].code = 0 /\ reply[t].id = "caps"
      /\ Finish(t, "SUCCESS", "SUCCESS", cmd[t].rsp)
  BY DEF Unmatched
<1>2. /\ TxeiTypeOK(Req, ReplySpace)' /\ HandlesExclusive' /\ DescriptorsAccounted'
      /\ OthersUntouched(t) /\ fd'[t] = NoFd
  BY <1>1, Disconnects
<1>3. t \in Thread /\ KeyTypeOK /\ Heard(t) /\ cmd[t].rsp \in Nat /\ cmd[t].rsp >= CallerRsp
  BY <1>1, Parts, Locals DEF Placed
<1>4. reply[t] = Blank
  <2>1. SUFFICES ASSUME reply[t] # Blank PROVE FALSE
    OBVIOUS
  <2>2. cmd[t].id \in Cmd /\ reply[t].id = cmd[t].id
    BY <2>1, <1>1, Values, HeardAnswer
  <2> QED BY <2>2, <1>1 DEF Cmd
<1>5. blank[ProcOf[t]]
  <2>1. SUFFICES ASSUME reply[t] = said[t] PROVE FALSE
    BY <1>1, <1>3, <1>4, Values DEF Heard
  <2>2. said[t] \in Answers(cmd[t].id) /\ cmd[t].id \in Cmd
    BY <2>1, <1>1, <1>4, Values, Parts DEF Said, Placed
  <2>3. reply[t].id = cmd[t].id
    BY <2>1, <2>2, AnswersFacts DEF Req
  <2> QED BY <2>2, <2>3, <1>1 DEF Cmd
<1>6. "SUCCESS" \in ReturnCode /\ "SUCCESS" \in Result
  BY DEF ReturnCode, Result
<1>7. /\ ret'[t] = [code |-> "SUCCESS", result |-> "SUCCESS", len |-> cmd[t].rsp]
      /\ blank'[ProcOf[t]] = blank[ProcOf[t]]
  BY <1>1, <1>3, <1>6, FinishStep
<1>8. ret'[t].code = "SUCCESS" /\ ret'[t].len = cmd[t].rsp
  BY <1>7
<1>9. CodeTells(t)' /\ Coded(t)'
  BY <1>3, <1>8 DEF CodeTells, Coded
<1>10. ResultIsFirmware(t)'
  BY <1>5, <1>7 DEF ResultIsFirmware
<1> QED BY <1>1, <1>2, <1>3, <1>6, <1>9, <1>10, Returns

-----------------------------------------------------------------------------
(* The firmware answers the thread that waits on the descriptor, and the   *)
(* message that was sent.                                                  *)
LEMMA AnsweredStays ==
  ASSUME IInv, NEW u \in KeyThread, fd[u] # NoFd, NEW m \in LinkOf(u).req,
         NEW r \in Answers(m), LinkOf(u)' = [req |-> {}, rsp |-> {r}], fd'[u] = fd[u],
         said'[u] = IF m # "caps" THEN r ELSE said[u],
         UNCHANGED <<at, phase, cmd, req, reply, ret, caps_obtained, key_opaque_size, blank>>
  PROVE  Own(u)'
<1>1. /\ Connected(u) /\ Placed(u) /\ Said(u) /\ Heard(u) /\ Knows(u) /\ Told(u)
  BY Parts
<1>2. /\ m = Message(u) /\ LinkOf(u).rsp = {} /\ reply[u] = NoReply
      /\ at[u] \in {"wait", "close"}
  <2>1. LinkOf(u).req \subseteq {Message(u)} /\ LinkOf(u).req # {}
    BY <1>1 DEF Connected
  <2>2. at[u] # "write"
    BY <1>1, <2>1 DEF Connected, NoTraffic
  <2> QED BY <1>1, <2>1, <2>2 DEF Connected
<1>3. Message(u)' = Message(u)
  BY DEF Message
<1>4. LinkOf(u)'.req = {} /\ LinkOf(u)'.rsp = {r}
  OBVIOUS
<1>5. phase[u] = "caps" => m = "caps" /\ said'[u] = said[u]
  BY <1>2 DEF Message
<1>6. phase[u] # "caps" => m = cmd[u].id /\ cmd[u].id \in Cmd /\ said'[u] = r /\ r # NoReply
  <2>1. SUFFICES ASSUME phase[u] # "caps"
                 PROVE  m = cmd[u].id /\ cmd[u].id \in Cmd /\ said'[u] = r /\ r # NoReply
    OBVIOUS
  <2>2. phase[u] = "cmd"
    BY <2>1, Parts DEF KeyTypeOK
  <2>3. m = cmd[u].id /\ cmd[u].id \in Cmd
    BY <2>2, <1>1, <1>2 DEF Message, Placed
  <2>4. m # "caps" /\ m \in Req
    BY <2>3 DEF Cmd, Req
  <2> QED BY <2>3, <2>4, AnswersFacts
<1>7. Connected(u)'
  BY <1>1, <1>2, <1>3, <1>4, <1>5, <1>6 DEF Connected
<1>8. Said(u)'
  BY <1>1, <1>2, <1>5, <1>6 DEF Said
<1>9. Placed(u)' /\ Heard(u)' /\ Knows(u)'
  BY <1>1, <1>2 DEF Placed, Heard, Knows
<1>10. Told(u)'
  BY <1>1, <1>2, Underway DEF Told, RequestFits
<1> QED BY <1>7, <1>8, <1>9, <1>10 DEF Own

LEMMA KeyAnswerInv ==
  ASSUME IInv, NEW p \in Process, NEW f \in Fd, KeyAnswer(p, f), UNCHANGED mmVars
  PROVE  IInv'
<1>0. /\ TxeiTypeOK(Req, ReplySpace) /\ KeyTypeOK /\ MmTypeOK /\ HandlesExclusive
      /\ DescriptorsAccounted
  BY DEF IInv, TypeOK, Req
<1>1. PICK m \in link[p][f].req : \E r \in Answers(m) :
        /\ MeiAnswer(p, f, r)
        /\ said' = [t \in Thread |->
                      IF t \in Waiting(p, f) /\ m # "caps" THEN r ELSE said[t]]
  BY DEF KeyAnswer
<1>2. PICK r \in Answers(m) :
        /\ MeiAnswer(p, f, r)
        /\ said' = [t \in Thread |->
                      IF t \in Waiting(p, f) /\ m # "caps" THEN r ELSE said[t]]
  BY <1>1
<1>3. UNCHANGED <<at, phase, cmd, req, reply, ret, caps_obtained, key_opaque_size, blank>>
  BY DEF KeyAnswer
<1>4. m \in Req /\ r \in ReplySpace
  BY <1>0, <1>2, AnswersFacts DEF TxeiTypeOK
<1>5. /\ TxeiTypeOK(Req, ReplySpace)' /\ HandlesExclusive' /\ fd' = fd
      /\ \A u \in Thread : ~(ProcOf[u] = p /\ fd[u] = f) => Untouched(u)
      /\ \A u \in Thread : ProcOf[u] = p /\ fd[u] = f =>
           LinkOf(u)' = [req |-> {}, rsp |-> {r}]
  BY <1>0, <1>2, <1>4, MeiAnswerStep
<1>6. TypeOK'
  <2>1. said' \in [Thread -> ReplySpace]
    BY <1>0, <1>2, <1>4 DEF KeyTypeOK
  <2>2. KeyTypeOK'
    BY <1>0, <1>3, <2>1 DEF KeyTypeOK
  <2> QED BY <1>0, <1>5, <2>2 DEF TypeOK, MmTypeOK, mmVars, Req
<1>7. DescriptorsAccounted'
  BY <1>0, <1>2, <1>5, AccountSame DEF MeiAnswer, mmVars
<1>8. ASSUME NEW u \in KeyThread PROVE Own(u)'
  <2>1. u \in Thread /\ Own(u)
    BY KeymasterAssumption DEF IInv
  <2>2. CASE ProcOf[u] = p /\ fd[u] = f
    <3>1. fd[u] # NoFd /\ u \in Waiting(p, f) /\ m \in LinkOf(u).req
      BY <2>2, <1>2, Values DEF Waiting, LinkOf
    <3>2. said'[u] = IF m # "caps" THEN r ELSE said[u]
      BY <3>1, <2>1, <1>2
    <3> QED BY <3>1, <3>2, <2>1, <2>2, <1>2, <1>3, <1>5, AnsweredStays
  <2>3. CASE ~(ProcOf[u] = p /\ fd[u] = f)
    <3>1. u \notin Waiting(p, f)
      BY <2>3 DEF Waiting
    <3>2. Undisturbed(u) /\ Steady /\ Untouched(u)
      BY <3>1, <2>1, <2>3, <1>2, <1>3, <1>5 DEF Undisturbed, Steady
    <3> QED BY <3>2, <2>1, Frame
  <2> QED BY <2>2, <2>3
<1>9. ASSUME NEW u \in Thread PROVE Mapped(u)'
  BY <1>5 DEF IInv, Mapped, mmVars
<1>10. ASSUME NEW q \in Process PROVE Cached(q)'
  BY <1>3 DEF IInv, Cached
<1> QED BY <1>5, <1>6, <1>7, <1>8, <1>9, <1>10 DEF IInv

-----------------------------------------------------------------------------
(* A step on a handle of shared memory is none of libsepkeymaster's.       *)
LEMMA AssembleMm ==
  ASSUME IInv, NEW t \in MmThread, UNCHANGED keyVars,
         MmTypeOK', TxeiTypeOK(Req, ReplySpace)', HandlesExclusive', DescriptorsAccounted',
         OthersUntouched(t), Mapped(t)',
         \A u \in Thread \ {t} : mm'[u] = mm[u]
  PROVE  IInv'
<1>1. t \in Thread /\ t \notin KeyThread
  BY DEF MmThread
<1>2. UNCHANGED <<at, phase, cmd, req, reply, ret, caps_obtained, key_opaque_size, said, blank>>
  BY DEF keyVars
<1>3. TypeOK'
  BY <1>2 DEF IInv, TypeOK, KeyTypeOK, Req
<1>4. ASSUME NEW u \in KeyThread PROVE Own(u)'
  <2>1. u \in Thread \ {t}
    BY <1>1, KeymasterAssumption
  <2>2. Undisturbed(u) /\ Steady /\ Untouched(u)
    BY <1>2, <2>1 DEF Undisturbed, Steady, OthersUntouched
  <2> QED BY <2>2, Frame DEF IInv
<1>5. ASSUME NEW u \in Thread PROVE Mapped(u)'
  <2>1. CASE u # t
    BY <2>1 DEF IInv, Mapped, OthersUntouched, Untouched
  <2> QED BY <2>1
<1>6. ASSUME NEW p \in Process PROVE Cached(p)'
  BY <1>2 DEF IInv, Cached
<1> QED BY <1>3, <1>4, <1>5, <1>6 DEF IInv

(* What is known of a thread with a handle on shared memory.               *)
LEMMA MmParts ==
  ASSUME IInv, NEW t \in MmThread
  PROVE  /\ t \in Thread /\ t \notin KeyThread /\ ProcOf[t] \in Process
         /\ MmTypeOK /\ TxeiTypeOK(Req, ReplySpace)
         /\ HandlesExclusive /\ DescriptorsAccounted /\ Mapped(t)
<1>1. t \in Thread /\ t \notin KeyThread /\ ProcOf[t] \in Process
  BY TxeiAssumption DEF MmThread
<1> QED BY <1>1 DEF IInv, TypeOK, Req

LEMMA BecomesStep ==
  ASSUME MmTypeOK, NEW t \in Thread, NEW status \in Status, NEW live \in BOOLEAN,
         Becomes(t, status, live)
  PROVE  /\ mm' \in [Thread -> [status : Status, live : BOOLEAN]]
         /\ mm'[t] = [status |-> status, live |-> live]
         /\ \A u \in Thread \ {t} : mm'[u] = mm[u]
<1>1. [status |-> status, live |-> live] \in [status : Status, live : BOOLEAN]
  OBVIOUS
<1>2. mm \in [Thread -> [status : Status, live : BOOLEAN]]
  BY DEF MmTypeOK
<1>3. mm' = [mm EXCEPT ![t] = [status |-> status, live |-> live]]
  BY DEF Becomes
<1> HIDE DEF Becomes, MmTypeOK
<1> QED BY <1>1, <1>2, <1>3

(* What a thread loses was a descriptor.                                   *)
LEMMA LoseStep ==
  ASSUME MmTypeOK, NEW t \in Thread, NEW F \in SUBSET Fd, Lose(t, F)
  PROVE  lost' \in [Process -> SUBSET Fd] /\ Drops(t, F)
<1>1. ProcOf[t] \in Process
  BY TxeiAssumption
<1> QED BY <1>1 DEF MmTypeOK, Lose, Drops

(* The descriptor table is left alone.                                     *)
LEMMA MmQuietInv ==
  ASSUME IInv, NEW t \in MmThread, UNCHANGED keyVars, UNCHANGED txeiVars, lost' = lost,
         NEW status \in Status, NEW live \in BOOLEAN, Becomes(t, status, live),
         status = "none" => fd[t] = NoFd,
         status \in {"allocated", "dma"} => fd[t] # NoFd,
         status = "allocated" => live
  PROVE  IInv'
<1>1. /\ t \in Thread /\ t \notin KeyThread /\ MmTypeOK /\ TxeiTypeOK(Req, ReplySpace)
      /\ HandlesExclusive /\ DescriptorsAccounted
  BY MmParts
<1>2. /\ mm' \in [Thread -> [status : Status, live : BOOLEAN]]
      /\ mm'[t] = [status |-> status, live |-> live]
      /\ \A u \in Thread \ {t} : mm'[u] = mm[u]
  BY <1>1, BecomesStep
<1>3. fd' = fd /\ files' = files /\ link' = link
  BY DEF txeiVars
<1>4. TxeiTypeOK(Req, ReplySpace)' /\ HandlesExclusive'
  BY <1>1, <1>3 DEF TxeiTypeOK, HandlesExclusive
<1>5. DescriptorsAccounted'
  BY <1>1, <1>3, AccountSame
<1>6. OthersUntouched(t)
  BY <1>3 DEF OthersUntouched, Untouched, LinkOf
<1>7. MmTypeOK'
  BY <1>1, <1>2 DEF MmTypeOK
<1>8. Mapped(t)'
  <2>1. mm'[t].status = status /\ mm'[t].live = live
    BY <1>2
  <2> QED BY <2>1, <1>1, <1>3 DEF Mapped
<1> QED BY <1>2, <1>4, <1>5, <1>6, <1>7, <1>8, AssembleMm

(* A descriptor is opened, over the one the handle has.                    *)
LEMMA MmOpenInv ==
  ASSUME IInv, NEW t \in MmThread, UNCHANGED keyVars, MeiConnect(t), Lose(t, Held(t)),
         NEW status \in {"allocated", "dma"}, NEW live \in BOOLEAN,
         Becomes(t, status, live), status = "allocated" => live
  PROVE  IInv'
<1>1. /\ t \in Thread /\ t \notin KeyThread /\ MmTypeOK /\ TxeiTypeOK(Req, ReplySpace)
      /\ HandlesExclusive /\ DescriptorsAccounted
  BY MmParts
<1>2. status \in Status
  BY DEF Status
<1>3. /\ mm' \in [Thread -> [status : Status, live : BOOLEAN]]
      /\ mm'[t] = [status |-> status, live |-> live]
      /\ \A u \in Thread \ {t} : mm'[u] = mm[u]
  BY <1>1, <1>2, BecomesStep
<1>4. /\ TxeiTypeOK(Req, ReplySpace)' /\ HandlesExclusive' /\ OthersUntouched(t)
      /\ fd'[t] # NoFd
  BY <1>1, MeiConnectStep
<1>5. Held(t) \in SUBSET Fd
  BY <1>1 DEF TxeiTypeOK, Held
<1>6. lost' \in [Process -> SUBSET Fd] /\ Drops(t, Held(t))
  BY <1>1, <1>5, LoseStep
<1>7. DescriptorsAccounted'
  BY <1>1, <1>6, AccountConnect
<1>8. MmTypeOK'
  BY <1>3, <1>6 DEF MmTypeOK
<1>9. Mapped(t)'
  <2>1. mm'[t].status = status /\ mm'[t].live = live
    BY <1>3
  <2> QED BY <2>1, <1>1, <1>4 DEF Mapped
<1> QED BY <1>3, <1>4, <1>7, <1>8, <1>9, AssembleMm

(* A descriptor is closed.                                                 *)
LEMMA MmCloseInv ==
  ASSUME IInv, NEW t \in MmThread, UNCHANGED keyVars, fd[t] # NoFd, MeiDisconnect(t),
         lost' = lost, Becomes(t, "none", FALSE)
  PROVE  IInv'
<1>1. /\ t \in Thread /\ t \notin KeyThread /\ MmTypeOK /\ TxeiTypeOK(Req, ReplySpace)
      /\ HandlesExclusive /\ DescriptorsAccounted
  BY MmParts
<1>2. /\ mm' \in [Thread -> [status : Status, live : BOOLEAN]]
      /\ mm'[t] = [status |-> "none", live |-> FALSE]
      /\ \A u \in Thread \ {t} : mm'[u] = mm[u]
  <2>1. "none" \in Status
    BY DEF Status
  <2> QED BY <2>1, <1>1, BecomesStep
<1>3. /\ TxeiTypeOK(Req, ReplySpace)' /\ HandlesExclusive' /\ OthersUntouched(t)
      /\ fd'[t] = NoFd
  BY <1>1, MeiDisconnectStep
<1>4. DescriptorsAccounted'
  BY <1>1, AccountDisconnect
<1>5. MmTypeOK'
  BY <1>1, <1>2 DEF MmTypeOK
<1>6. Mapped(t)'
  <2>1. mm'[t].status = "none"
    BY <1>2
  <2> QED BY <2>1, <1>1, <1>3 DEF Mapped
<1> QED BY <1>2, <1>3, <1>4, <1>5, <1>6, AssembleMm

LEMMA MeimmInitInv ==
  ASSUME IInv, NEW t \in MmThread, MeimmInit(t), UNCHANGED keyVars PROVE IInv'
<1>1. UNCHANGED txeiVars /\ lost' = lost /\ Becomes(t, "init", FALSE) /\ fd[t] = NoFd
  BY DEF MeimmInit
<1>2. "init" \in Status
  BY DEF Status
<1> QED BY <1>1, <1>2, MmQuietInv

LEMMA MeimmAllocMapInv ==
  ASSUME IInv, NEW t \in MmThread, MeimmAllocMap(t), UNCHANGED keyVars PROVE IInv'
BY MmOpenInv DEF MeimmAllocMap

(* The descriptor the handle had is lost, open.                            *)
LEMMA MeimmAllocFailsInv ==
  ASSUME IInv, NEW t \in MmThread, MeimmAllocFails(t), UNCHANGED keyVars PROVE IInv'
<1>1. ForgetHandle(t) /\ Lose(t, Held(t)) /\ Becomes(t, "none", FALSE)
  BY DEF MeimmAllocFails
<1>2. /\ t \in Thread /\ t \notin KeyThread /\ MmTypeOK /\ TxeiTypeOK(Req, ReplySpace)
      /\ HandlesExclusive /\ DescriptorsAccounted
  BY MmParts
<1>3. "none" \in Status
  BY DEF Status
<1>4. /\ mm' \in [Thread -> [status : Status, live : BOOLEAN]]
      /\ mm'[t] = [status |-> "none", live |-> FALSE]
      /\ \A u \in Thread \ {t} : mm'[u] = mm[u]
  BY <1>1, <1>2, <1>3, BecomesStep
<1>5. /\ TxeiTypeOK(Req, ReplySpace)' /\ HandlesExclusive' /\ OthersUntouched(t)
      /\ fd'[t] = NoFd
  BY <1>1, <1>2, ForgetHandleStep
<1>6. Held(t) \in SUBSET Fd
  BY <1>2 DEF TxeiTypeOK, Held
<1>7. lost' \in [Process -> SUBSET Fd] /\ Drops(t, Held(t))
  BY <1>1, <1>2, <1>6, LoseStep
<1>8. DescriptorsAccounted'
  <2>1. files' = files
    BY <1>1 DEF ForgetHandle
  <2>2. fd[t] # NoFd => fd[t] \in files[ProcOf[t]]
    BY <1>2 DEF HandlesExclusive
  <2>3. NoFd \notin files[ProcOf[t]]
    BY <1>2, TxeiAssumption, Values DEF TxeiTypeOK
  <2>4. \A g : g \in Held(t) <=> g = fd[t] /\ g # NoFd
    BY DEF Held
  <2> QED BY <2>1, <2>2, <2>3, <2>4, <1>2, <1>5, <1>7, Account
<1>9. MmTypeOK'
  BY <1>4, <1>7 DEF MmTypeOK
<1>10. Mapped(t)'
  <2>1. mm'[t].status = "none"
    BY <1>4
  <2> QED BY <2>1, <1>2, <1>5 DEF Mapped
<1> QED BY <1>4, <1>5, <1>8, <1>9, <1>10, AssembleMm

LEMMA MeimmFreeInv ==
  ASSUME IInv, NEW t \in MmThread, MeimmFree(t), UNCHANGED keyVars PROVE IInv'
<1>1. UNCHANGED txeiVars /\ lost' = lost
  BY DEF MeimmFree
<1>2. PICK live \in BOOLEAN : Becomes(t, "init", live)
  BY DEF MeimmFree
<1>3. "init" \in Status
  BY DEF Status
<1> QED BY <1>1, <1>2, <1>3, MmQuietInv

LEMMA MeimmDeinitInv ==
  ASSUME IInv, NEW t \in MmThread, MeimmDeinit(t), UNCHANGED keyVars PROVE IInv'
<1>1. lost' = lost /\ Becomes(t, "none", FALSE)
  BY DEF MeimmDeinit
<1>2. CASE fd[t] # NoFd
  BY <1>1, <1>2, MmCloseInv DEF MeimmDeinit
<1>3. CASE fd[t] = NoFd
  <2>1. UNCHANGED txeiVars
    BY <1>3 DEF MeimmDeinit
  <2>2. "none" \in Status
    BY DEF Status
  <2> QED BY <2>1, <2>2, <1>1, <1>3, MmQuietInv
<1> QED BY <1>2, <1>3

LEMMA AllocDmaInv ==
  ASSUME IInv, NEW t \in MmThread, AllocDma(t), UNCHANGED keyVars PROVE IInv'
<1>1. fd[t] = NoFd /\ MeiConnect(t) /\ lost' = lost
  BY DEF AllocDma
<1>2. PICK live \in BOOLEAN : Becomes(t, "dma", live)
  <2>1. PICK live \in {TRUE, "connect" \notin Faults} : Becomes(t, "dma", live)
    BY DEF AllocDma
  <2> QED BY <2>1
<1>3. Lose(t, Held(t))
  <2>1. Held(t) = {}
    BY <1>1 DEF Held
  <2>2. lost \in [Process -> SUBSET Fd] /\ ProcOf[t] \in Process
    BY MmParts DEF MmTypeOK
  <2> QED BY <2>1, <2>2, <1>1 DEF Lose
<1> QED BY <1>1, <1>2, <1>3, MmOpenInv

(* Descriptor 0 is lost at once.                                           *)
LEMMA AllocDmaZeroInv ==
  ASSUME IInv, NEW t \in MmThread, AllocDmaZero(t), UNCHANGED keyVars PROVE IInv'
<1> DEFINE p == ProcOf[t]
<1>1. /\ mm[t].status = "none" /\ fd[t] = NoFd /\ 0 \in FreeFd(p)
      /\ files' = [files EXCEPT ![p] = @ \cup {0}]
      /\ Lose(t, {0}) /\ fd' = fd /\ link' = link /\ mm' = mm
  BY DEF AllocDmaZero
<1>2. /\ t \in Thread /\ t \notin KeyThread /\ p \in Process /\ MmTypeOK
      /\ TxeiTypeOK(Req, ReplySpace)
      /\ HandlesExclusive /\ DescriptorsAccounted /\ Mapped(t)
  BY MmParts
<1>3. 0 \in Fd /\ 0 \notin files[p]
  BY <1>1 DEF FreeFd
<1>4. files'[p] = files[p] \cup {0} /\ \A q \in Process \ {p} : files'[q] = files[q]
  BY <1>1, <1>2 DEF TxeiTypeOK
<1>5. TxeiTypeOK(Req, ReplySpace)'
  <2>1. files' \in [Process -> SUBSET Fd]
    BY <1>1, <1>2, <1>3 DEF TxeiTypeOK
  <2> QED BY <2>1, <1>1, <1>2 DEF TxeiTypeOK
<1>6. HandlesExclusive'
  <2>1. \A u \in Thread : files[ProcOf[u]] \subseteq files'[ProcOf[u]]
    BY <1>4, TxeiAssumption
  <2> QED BY <2>1, <1>1, <1>2 DEF HandlesExclusive
<1>7. OthersUntouched(t)
  BY <1>1 DEF OthersUntouched, Untouched, LinkOf
<1>8. lost' \in [Process -> SUBSET Fd] /\ Drops(t, {0})
  BY <1>1, <1>2, <1>3, LoseStep
<1>9. DescriptorsAccounted'
  <2>1. NoFd \notin files[p]
    BY <1>2, Values DEF TxeiTypeOK
  <2> QED BY <2>1, <1>1, <1>2, <1>3, <1>4, <1>7, <1>8, Account
<1>10. MmTypeOK' /\ Mapped(t)'
  BY <1>1, <1>2, <1>8 DEF MmTypeOK, Mapped
<1> QED BY <1>1, <1>5, <1>6, <1>7, <1>9, <1>10, AssembleMm

LEMMA AllocDmaFailsInv ==
  ASSUME IInv, NEW t \in MmThread, AllocDmaFails(t), UNCHANGED keyVars PROVE IInv'
<1>1. UNCHANGED <<fd, files, link, mm, lost>>
  BY DEF AllocDmaFails, MeiConnectFails, txeiVars
<1>2. /\ t \in Thread /\ MmTypeOK /\ TxeiTypeOK(Req, ReplySpace)
      /\ HandlesExclusive /\ DescriptorsAccounted /\ Mapped(t)
  BY MmParts
<1>3. MmTypeOK' /\ TxeiTypeOK(Req, ReplySpace)' /\ HandlesExclusive' /\ Mapped(t)'
  BY <1>1, <1>2 DEF MmTypeOK, TxeiTypeOK, HandlesExclusive, Mapped
<1>4. DescriptorsAccounted' /\ OthersUntouched(t)
  BY <1>1, <1>2, AccountSame DEF OthersUntouched, Untouched, LinkOf
<1> QED BY <1>1, <1>3, <1>4, AssembleMm

LEMMA ClearDmaInv ==
  ASSUME IInv, NEW t \in MmThread, ClearDma(t), UNCHANGED keyVars PROVE IInv'
<1>1. mm[t].status = "dma" /\ MeiDisconnect(t) /\ Becomes(t, "none", FALSE) /\ lost' = lost
  BY DEF ClearDma
<1>2. fd[t] # NoFd
  BY <1>1, MmParts DEF Mapped
<1> QED BY <1>1, <1>2, MmCloseInv

-----------------------------------------------------------------------------
LEMMA InitInv == Init => IInv
<1> SUFFICES ASSUME Init PROVE IInv
  OBVIOUS
<1>1. TxeiInit /\ KeyInit /\ MmInit
  BY DEF Init
<1>2. TypeOK
  <2>1. TxeiTypeOK(Cmd \cup {"caps"}, ReplySpace)
    BY <1>1 DEF TxeiInit, TxeiTypeOK, NoTraffic
  <2>2. KeyTypeOK
    BY <1>1, Values DEF KeyInit, KeyTypeOK, Places
  <2>3. MmTypeOK
    <3>1. [status |-> "none", live |-> FALSE] \in [status : Status, live : BOOLEAN]
      BY DEF Status
    <3> QED BY <3>1, <1>1 DEF MmInit, MmTypeOK
  <2> QED BY <2>1, <2>2, <2>3 DEF TypeOK
<1>3. HandlesExclusive /\ DescriptorsAccounted
  BY <1>1 DEF TxeiInit, MmInit, HandlesExclusive, DescriptorsAccounted
<1>4. ASSUME NEW t \in KeyThread PROVE Own(t)
  <2>1. /\ t \in Thread /\ at[t] = "idle" /\ phase[t] = "cmd" /\ cmd[t] = NoCall
        /\ reply[t] = NoReply /\ said[t] = NoReply /\ fd[t] = NoFd
    BY <1>1, KeymasterAssumption DEF KeyInit, TxeiInit
  <2>2. Connected(t) /\ Placed(t) /\ Said(t) /\ Heard(t) /\ Knows(t)
    BY <2>1 DEF Connected, Placed, Said, Heard, Knows
  <2>3. Told(t)
    BY <2>1 DEF Told, Returned, CodeTells, ResultIsFirmware, RequestFits, Coded
  <2> QED BY <2>2, <2>3 DEF Own
<1>5. ASSUME NEW t \in Thread PROVE Mapped(t)
  BY <1>1 DEF MmInit, TxeiInit, Mapped
<1>6. ASSUME NEW p \in Process PROVE Cached(p)
  BY <1>1 DEF KeyInit, Cached
<1> QED BY <1>2, <1>3, <1>4, <1>5, <1>6 DEF IInv

LEMMA StepInv == IInv /\ [Next]_vars => IInv'
<1> SUFFICES ASSUME IInv, [Next]_vars PROVE IInv'
  OBVIOUS
<1>1. CASE UNCHANGED vars
  <2>1. UNCHANGED <<txeiVars, keyVars, mmVars>>
    BY <1>1 DEF vars
  <2>2. UNCHANGED <<fd, files, link, mm, lost, at, phase, cmd, req, reply, ret, caps_obtained,
                    key_opaque_size, said, blank>>
    BY <2>1 DEF txeiVars, keyVars, mmVars
  <2>3. TxeiTypeOK(Req, ReplySpace)' /\ HandlesExclusive' /\ DescriptorsAccounted'
        /\ \A u \in Thread : Untouched(u)
    BY <2>1, TxeiSame
  <2>4. TypeOK'
    BY <2>2, <2>3 DEF IInv, TypeOK, KeyTypeOK, MmTypeOK, Req
  <2>5. ASSUME NEW u \in KeyThread PROVE Own(u)'
    <3>1. u \in Thread
      BY KeymasterAssumption
    <3>2. Undisturbed(u) /\ Steady
      BY <2>2 DEF Undisturbed, Steady
    <3> QED BY <3>1, <3>2, <2>3, Frame DEF IInv
  <2>6. (\A u \in Thread : Mapped(u)') /\ (\A p \in Process : Cached(p)')
    BY <2>2 DEF IInv, Mapped, Cached
  <2> QED BY <2>3, <2>4, <2>5, <2>6 DEF IInv
<1>2. ASSUME NEW t \in KeyThread, KeyStep(t), UNCHANGED mmVars PROVE IInv'
  <2>1. CASE Begin(t) \/ Reject(t)
    BY <2>1, <1>2, BeginInv, RejectInv
  <2>2. CASE SendStep(t)
    BY <2>2, <1>2, OpenInv, OpenFailsInv, WriteInv, UnansweredInv, ReceiveInv,
       ReceiveNothingInv DEF SendStep
  <2>3. CASE CapsStep(t)
    BY <2>3, <1>2, OpenFailsInv, CapsFailInv, CapsOkInv, StoreSizeInv, LatchInv DEF CapsStep
  <2>4. CASE BuildStep(t)
    BY <2>4, <1>2, BuildInv, BuildFailsInv, FillInv DEF BuildStep
  <2>5. CASE ReturnStep(t)
    BY <2>5, <1>2, NotAnsweredInv, RefusedInv, CopiedInv, VerifiedInv, UnmatchedInv
    DEF ReturnStep
  <2> QED BY <2>1, <2>2, <2>3, <2>4, <2>5, <1>2 DEF KeyStep, KeyCallStep
<1>3. ASSUME NEW t \in MmThread, MmStep(t), UNCHANGED keyVars PROVE IInv'
  BY <1>3, MeimmInitInv, MeimmAllocMapInv, MeimmAllocFailsInv, MeimmFreeInv, MeimmDeinitInv,
     AllocDmaInv, AllocDmaZeroInv, AllocDmaFailsInv, ClearDmaInv DEF MmStep
<1>4. ASSUME NEW p \in Process, NEW f \in Fd, KeyAnswer(p, f), UNCHANGED mmVars PROVE IInv'
  BY <1>4, KeyAnswerInv
<1> QED BY <1>1, <1>2, <1>3, <1>4 DEF Next

-----------------------------------------------------------------------------
(* The inductive invariant of libsepkeymaster and of the handles on shared *)
(* memory (sep_keymaster.c:42-894, txei_drv.c, meimm.c).                   *)
THEOREM KeyInvariance == Spec => []IInv
<1> QED BY InitInv, StepInv, PTL DEF Spec

(* Every variable keeps its type.                                          *)
THEOREM KeyTypeCorrect == Spec => []TypeOK
<1>1. IInv => TypeOK
  BY DEF IInv
<1> QED BY <1>1, KeyInvariance, PTL

(* No two threads of a process hold one descriptor, and none that was      *)
(* closed is held, whichever of the two libraries opened it.               *)
THEOREM KeyHandlesExclusive == Spec => []HandlesExclusive
<1>1. IInv => HandlesExclusive
  BY DEF IInv
<1> QED BY <1>1, KeyInvariance, PTL

(* Every open descriptor has one handle, or was lost in one of the two     *)
(* ways there are (meimm.c:167-226, txei_drv.c).                           *)
THEOREM KeyDescriptorsAccounted == Spec => []DescriptorsAccounted
<1>1. IInv => DescriptorsAccounted
  BY DEF IInv
<1> QED BY <1>1, KeyInvariance, PTL

(* The address meimm_get_addr returns is mapped (meimm.c).                 *)
THEOREM KeyAddressIsLive == Spec => []AddressIsLive
<1>1. IInv => AddressIsLive
  <2>1. SUFFICES ASSUME IInv, NEW t \in Thread, mm[t].status = "allocated"
                 PROVE  mm[t].live /\ fd[t] \in files[ProcOf[t]]
    BY DEF AddressIsLive, HasAddress
  <2>2. mm[t].live /\ fd[t] # NoFd
    BY <2>1 DEF IInv, Mapped, MmThread
  <2> QED BY <2>1, <2>2 DEF IInv, HandlesExclusive
<1> QED BY <1>1, KeyInvariance, PTL

(* What a process has open is the connection of an exchange under way, or  *)
(* of the shared memory: every way out of send_req_to_fw closes.           *)
THEOREM KeyConnectionsClosed == Spec => []ConnectionsClosed
<1>1. IInv => ConnectionsClosed
  <2>1. SUFFICES ASSUME IInv PROVE ConnectionsClosed
    OBVIOUS
  <2>2. ASSUME NEW t \in KeyThread, fd[t] # NoFd PROVE Exchanging(t)
    BY <2>1, <2>2, Parts DEF Connected, Exchanging
  <2>3. ASSUME NEW p \in Process, NEW f \in files[p] \ lost[p]
        PROVE  \E t \in Thread : /\ ProcOf[t] = p /\ fd[t] = f
                                 /\ t \in MmThread \/ Exchanging(t)
    <3>1. f \in Fd /\ f # NoFd
      BY <2>1, <2>3, Values DEF IInv, TypeOK, TxeiTypeOK
    <3>2. PICK t \in Thread : ProcOf[t] = p /\ fd[t] = f
      BY <2>1, <2>3 DEF IInv, DescriptorsAccounted
    <3>3. t \in MmThread \/ Exchanging(t)
      BY <3>1, <3>2, <2>2 DEF MmThread
    <3> QED BY <3>2, <3>3
  <2> QED BY <2>2, <2>3 DEF ConnectionsClosed
<1> QED BY <1>1, KeyInvariance, PTL

(* A code of an error before sending means that the firmware saw nothing,  *)
(* and *rsp_length tells the two RSP_BUFFER_TOO_SMALL apart.               *)
THEOREM KeyCodesTell == Spec => []CodesTell
<1>1. IInv => CodesTell
  BY DEF IInv, Own, Told, CodesTell
<1> QED BY <1>1, KeyInvariance, PTL

(* Success is the firmware's answer to this very command, unless a read of *)
(* the process once returned no bytes.                                     *)
THEOREM KeyResultsAreFirmwares == Spec => []ResultIsFirmwares
<1>1. IInv => ResultIsFirmwares
  BY DEF IInv, Own, Told, ResultIsFirmwares
<1> QED BY <1>1, KeyInvariance, PTL

(* Every request is allocated and filled in for the size the firmware      *)
(* stated, whoever stored it.                                              *)
THEOREM KeyRequestsFit == Spec => []RequestsFit
<1>1. IInv => RequestsFit
  BY DEF IInv, Own, Told, RequestsFit
<1> QED BY <1>1, KeyInvariance, PTL

(* Nothing becomes of a command once its call has returned.                *)
THEOREM KeyNothingAfterReturn == Spec => NothingAfterReturn
<1> DEFINE Still(t) ==
      at[t] = "idle" /\ cmd'[t] = cmd[t] /\ ret'[t] = ret[t] => said'[t] = said[t]
<1>1. ASSUME IInv, [Next]_vars, NEW t \in KeyThread PROVE Still(t)
  <2>0. SUFFICES ASSUME at[t] = "idle", cmd'[t] = cmd[t], ret'[t] = ret[t],
                        said'[t] # said[t]
                 PROVE  FALSE
    OBVIOUS
  <2>1. /\ t \in Thread /\ KeyTypeOK /\ fd[t] = NoFd /\ Told(t)
    BY <1>1, <2>0, Parts DEF Connected
  <2>2. CASE UNCHANGED vars
    BY <2>0, <2>2 DEF vars, keyVars
  <2>3. ASSUME NEW u \in KeyThread, Begin(u) PROVE FALSE
    <3>1. PICK c \in Uses[u] : cmd' = [cmd EXCEPT ![u] = c]
      BY <2>3 DEF Begin
    <3>2. ret' = [ret EXCEPT ![u] = NoRet] /\ said' = [said EXCEPT ![u] = NoReply]
      BY <2>3 DEF Begin
    <3>3. u = t
      BY <3>2, <2>0, <2>1 DEF KeyTypeOK
    <3>4. cmd[t] = c /\ ret[t] = NoRet
      BY <3>1, <3>2, <3>3, <2>0, <2>1 DEF KeyTypeOK
    <3>5. c \in CallSpace
      BY <3>1, KeymasterAssumption
    <3>6. Returned(t) /\ ret[t].code = "NONE"
      BY <3>4, <3>5, <2>0, Values DEF Returned, NoRet
    <3> QED BY <3>6, <2>1 DEF Told, Coded
  <2>4. ASSUME NEW u \in KeyThread, Reject(u) PROVE FALSE
    <3>1. PICK c \in Uses[u] :
            /\ ArgumentError(c) # "SUCCESS"
            /\ cmd' = [cmd EXCEPT ![u] = c]
            /\ ret' = [ret EXCEPT ![u] =
                         [code |-> ArgumentError(c), result |-> "FAILURE", len |-> c.rsp]]
      BY <2>4 DEF Reject
    <3>2. said' = [said EXCEPT ![u] = NoReply]
      BY <2>4 DEF Reject
    <3>3. u = t /\ said'[t] = NoReply
      BY <3>2, <2>0, <2>1 DEF KeyTypeOK
    <3>4. /\ cmd[t] = c
          /\ ret[t] = [code |-> ArgumentError(c), result |-> "FAILURE", len |-> c.rsp]
      BY <3>1, <3>3, <2>0, <2>1 DEF KeyTypeOK
    <3>5. c \in CallSpace
      BY <3>1, KeymasterAssumption
    <3>6. /\ Returned(t) /\ ret[t].len = cmd[t].rsp
          /\ ret[t].code \in {"BAD_PARAMETER", "RSP_BUFFER_TOO_SMALL"}
      BY <3>1, <3>4, <3>5, <2>0, Values DEF Returned, ArgumentError
    <3>7. said[t] = NoReply
      BY <3>6, <2>1 DEF Told, CodeTells
    <3> QED BY <3>3, <3>7, <2>0
  <2>5. ASSUME NEW u \in KeyThread, KeyCallStep(u) PROVE FALSE
    <3>1. said' = said
      BY <2>5 DEF KeyCallStep, SendStep, CapsStep, BuildStep, ReturnStep, Open, OpenFails,
         Write, WriteFails, Receive, ReceiveNothing, ReceiveFails, CapsAllocFails, CapsFail,
         CapsOk, StoreSize, Latch, Build, BuildFails, Fill, FillFails, NotAnswered, Refused,
         Copied, Verified, Unmatched, Fail, Finish
    <3> QED BY <3>1, <2>0
  <2>6. ASSUME NEW p \in Process, NEW f \in Fd, KeyAnswer(p, f) PROVE FALSE
    <3>1. t \notin Waiting(p, f)
      BY <2>1, Values DEF Waiting
    <3>2. said'[t] = said[t]
      BY <3>1, <2>1, <2>6 DEF KeyAnswer
    <3> QED BY <3>2, <2>0
  <2>7. CASE UNCHANGED keyVars
    BY <2>0, <2>7 DEF keyVars
  <2> QED BY <1>1, <2>2, <2>3, <2>4, <2>5, <2>6, <2>7 DEF Next, KeyStep
<1>2. IInv /\ [Next]_vars => [\A t \in KeyThread : Still(t)]_vars
  BY <1>1
<1> QED BY <1>2, KeyInvariance, PTL DEF Spec, NothingAfterReturn

-----------------------------------------------------------------------------
(* KeyDevice implements Exchange.                                          *)

(* What a return code, a result and a length leave possible.               *)
LEMMA PossibleWithin ==
  ASSUME NEW c, NEW r PROVE Possible(c, r) \subseteq Replies \cup {NoReply}
<1> DEFINE small == r.code = "RSP_BUFFER_TOO_SMALL"
           plain == r.result = "SUCCESS" /\ r.len = c.rsp /\ "empty" \in Faults
           dropped == {a \in Replies : a.id = c.id /\ a.code = 0 /\ Filled(a, c, r.len)}
           shown == {a \in Replies : a.id = c.id /\ Shows(a, c, r.result, r.len)}
<1>1. dropped \subseteq Replies /\ shown \subseteq Replies
  OBVIOUS
<1>2. Possible(c, r) =
        CASE r.code \in Unsent \/ (small /\ r.len = c.rsp) -> {NoReply}
          [] small /\ r.len # c.rsp -> dropped
          [] r.code = "SUCCESS" /\ ~plain -> shown
          [] OTHER -> Replies \cup {NoReply}
  BY DEF Possible
<1> HIDE DEF dropped, shown
<1>3. CASE r.code \in Unsent \/ (small /\ r.len = c.rsp)
  <2>1. r.code # "SUCCESS"
    BY <1>3 DEF Unsent
  <2>2. Possible(c, r) = {NoReply}
    BY <2>1, <1>2, <1>3 DEF Unsent
  <2> QED BY <2>2
<1>4. CASE ~(r.code \in Unsent \/ (small /\ r.len = c.rsp))
  <2>1. Possible(c, r) \in {dropped, shown, Replies \cup {NoReply}}
    BY <1>2, <1>4
  <2> QED BY <2>1, <1>1
<1> QED BY <1>3, <1>4

LEMMA PossibleUnsent ==
  ASSUME NEW c, NEW r,
         r.code \in Unsent \/ (r.code = "RSP_BUFFER_TOO_SMALL" /\ r.len = c.rsp)
  PROVE  NoReply \in Possible(c, r)
<1>1. Possible(c, r) = {NoReply}
  BY DEF Possible, Unsent
<1> QED BY <1>1

LEMMA PossibleDropped ==
  ASSUME NEW c, NEW r, r.code = "RSP_BUFFER_TOO_SMALL", r.len # c.rsp,
         NEW a \in Replies, a.id = c.id, a.code = 0, Filled(a, c, r.len)
  PROVE  a \in Possible(c, r)
<1>1. r.code \notin Unsent
  BY DEF Unsent
<1>2. Possible(c, r) =
        {b \in Replies : b.id = c.id /\ b.code = 0 /\ Filled(b, c, r.len)}
  BY <1>1 DEF Possible
<1> QED BY <1>2

LEMMA PossibleShown ==
  ASSUME NEW c, NEW r, r.code = "SUCCESS",
         NEW a \in Replies, a.id = c.id, Shows(a, c, r.result, r.len)
  PROVE  a \in Possible(c, r)
<1>1. r.code \notin Unsent
  BY DEF Unsent
<1> DEFINE plain == r.result = "SUCCESS" /\ r.len = c.rsp /\ "empty" \in Faults
<1>2. CASE plain
  <2>1. Possible(c, r) = Replies \cup {NoReply}
    BY <1>1, <1>2 DEF Possible
  <2> QED BY <2>1
<1>3. CASE ~plain
  <2>1. Possible(c, r) =
          {b \in Replies : b.id = c.id /\ Shows(b, c, r.result, r.len)}
    BY <1>1, <1>3 DEF Possible
  <2> QED BY <2>1
<1> QED BY <1>2, <1>3

LEMMA PossibleAnything ==
  ASSUME NEW c, NEW r,
         \/ r.code = "HECI_SNDRCV_FAILED"
         \/ /\ r.code = "SUCCESS" /\ r.result = "SUCCESS" /\ r.len = c.rsp
            /\ "empty" \in Faults
  PROVE  Possible(c, r) = Replies \cup {NoReply}
BY DEF Possible, Unsent

-----------------------------------------------------------------------------
(* A step of one thread leaves the others' part of Exchange alone.         *)
LEMMA OnlyOwn ==
  ASSUME KeyTypeOK, NEW t \in Thread, KeyStep(t) PROVE OthersUndisturbed(t)
<1>1. CASE Begin(t)
  BY <1>1 DEF KeyTypeOK, Begin, Goto, OthersUndisturbed, Undisturbed
<1>2. CASE Reject(t)
  BY <1>2 DEF KeyTypeOK, Reject, OthersUndisturbed, Undisturbed
<1>3. CASE SendStep(t)
  BY <1>3 DEF KeyTypeOK, SendStep, Open, OpenFails, Write, WriteFails, Receive,
     ReceiveNothing, ReceiveFails, Fail, Finish, Goto, OthersUndisturbed, Undisturbed
<1>4. CASE CapsStep(t)
  BY <1>4 DEF KeyTypeOK, CapsStep, CapsAllocFails, CapsFail, CapsOk, StoreSize, Latch,
     Fail, Finish, Goto, OthersUndisturbed, Undisturbed
<1>5. CASE BuildStep(t)
  BY <1>5 DEF KeyTypeOK, BuildStep, Build, BuildFails, Fill, FillFails,
     Fail, Finish, Goto, OthersUndisturbed, Undisturbed
<1>6. CASE ReturnStep(t)
  BY <1>6 DEF KeyTypeOK, ReturnStep, NotAnswered, Refused, Copied, Verified, Unmatched,
     Fail, Finish, Goto, OthersUndisturbed, Undisturbed
<1> QED BY <1>1, <1>2, <1>3, <1>4, <1>5, <1>6 DEF KeyStep, KeyCallStep

LEMMA Alike ==
  ASSUME NEW u \in KeyThread, Undisturbed(u)
  PROVE  /\ u \in Busy' <=> u \in Busy
         /\ said'[u] = said[u] /\ Learnt(u)' = Learnt(u)
<1>1. at'[u] = at[u] /\ cmd'[u] = cmd[u] /\ ret'[u] = ret[u] /\ said'[u] = said[u]
  BY DEF Undisturbed
<1>2. Returned(u)' = Returned(u)
  BY <1>1 DEF Returned
<1>3. Possible(cmd[u], ret[u])' = Possible(cmd[u], ret[u])
  BY <1>1
<1> QED BY <1>1, <1>2, <1>3 DEF Busy, Learnt

LEMMA LearntWithin ==
  ASSUME NEW u \in KeyThread PROVE Learnt(u) \subseteq Replies \cup {NoReply}
BY PossibleWithin DEF Learnt

LEMMA ToldWithin ==
  \A u \in KeyThread : ToldMap[u] = Learnt(u) /\ Learnt(u) \subseteq Commands!Anything
BY LearntWithin DEF ToldMap, Commands!Anything

LEMMA ToldWithinNext ==
  (\A u \in KeyThread : ToldMap[u] = Learnt(u) /\ Learnt(u) \subseteq Commands!Anything)'
BY ToldWithin, PTL

LEMMA ToldMapsTo == ToldMap' \in [KeyThread -> SUBSET Commands!Anything]
<1>1. ToldMap' = [u \in KeyThread |-> Learnt(u)']
  BY DEF ToldMap
<1>2. ASSUME NEW u \in KeyThread PROVE Learnt(u)' \in SUBSET Commands!Anything
  BY ToldWithinNext DEF Commands!Anything
<1> QED BY <1>1, <1>2

(* A step within a call, and any step of another component, is a stutter.  *)
LEMMA Stutters ==
  ASSUME \A u \in KeyThread :
           (u \in Busy' <=> u \in Busy) /\ said'[u] = said[u] /\ Learnt(u)' = Learnt(u)
  PROVE  UNCHANGED Commands!vars
<1>1. Busy' = Busy
  BY DEF Busy
<1>2. Decided' = Decided
  BY DEF Decided
<1>3. ToldMap' = ToldMap
  BY DEF ToldMap
<1> QED BY <1>1, <1>2, <1>3 DEF Commands!vars

LEMMA UndisturbedStutters ==
  ASSUME \A u \in KeyThread : Undisturbed(u) PROVE UNCHANGED Commands!vars
BY Alike, Stutters

(* The steps that neither begin a call nor end one.                        *)
InnerStep(t) ==
  \/ Open(t) \/ Write(t) \/ WriteFails(t) \/ Receive(t) \/ ReceiveNothing(t) \/ ReceiveFails(t)
  \/ CapsOk(t) \/ StoreSize(t) \/ Latch(t) \/ Build(t) \/ Fill(t)

LEMMA InnerStutters ==
  ASSUME IInv, NEW t \in KeyThread, InnerStep(t) PROVE UNCHANGED Commands!vars
<1>1. t \in Thread /\ KeyTypeOK
  BY Parts
<1>2. OthersUndisturbed(t)
  BY <1>1, OnlyOwn
  DEF InnerStep, KeyStep, KeyCallStep, SendStep, CapsStep, BuildStep
<1>3. at[t] # "idle" /\ at'[t] # "idle" /\ said' = said
  BY <1>1 DEF KeyTypeOK, InnerStep, Open, Write, WriteFails, Receive, ReceiveNothing,
     ReceiveFails, CapsOk, StoreSize, Latch, Build, Fill, Goto
<1>4. Learnt(t)' = Learnt(t)
  BY <1>3 DEF Learnt, Returned
<1>5. ASSUME NEW u \in KeyThread
      PROVE  (u \in Busy' <=> u \in Busy) /\ said'[u] = said[u] /\ Learnt(u)' = Learnt(u)
  <2>1. CASE u = t
    BY <2>1, <1>3, <1>4 DEF Busy
  <2>2. CASE u # t
    <3>1. Undisturbed(u)
      BY <2>2, <1>2, KeymasterAssumption DEF OthersUndisturbed
    <3> QED BY <3>1, Alike
  <2> QED BY <2>1, <2>2
<1> QED BY <1>5, Stutters

-----------------------------------------------------------------------------
(* What the firmware said of a command under way is an answer, or nothing. *)
LEMMA SaidWithin ==
  ASSUME IInv, NEW t \in KeyThread, at[t] # "idle", said[t] # NoReply
  PROVE  /\ said[t] \in Replies /\ said[t] \in Answers(cmd[t].id)
         /\ said[t].id = cmd[t].id /\ cmd[t].id \in Cmd
<1>1. Placed(t) /\ Said(t) /\ KeyTypeOK /\ t \in Thread
  BY Parts
<1>2. phase[t] = "cmd" /\ at[t] # "build"
  BY <1>1 DEF Said, KeyTypeOK
<1>3. cmd[t].id \in Cmd /\ said[t] \in Answers(cmd[t].id)
  BY <1>1, <1>2 DEF Placed, Said
<1> QED BY <1>3, AnswersFacts DEF Replies, Req

(* What the return of thread t leaves possible concerns that thread only.  *)
LEMMA Concludes ==
  ASSUME NEW t \in KeyThread, OthersUndisturbed(t), NEW d, d \in Learnt(t)'
  PROVE  Commands!Conclude(t, d)
<1>1. \A u \in KeyThread : ToldMap'[u] = Learnt(u)' /\ ToldMap[u] = Learnt(u)
  BY DEF ToldMap
<1>2. ASSUME NEW u \in KeyThread \ {t} PROVE ToldMap'[u] = ToldMap[u]
  <2>1. Undisturbed(u)
    BY KeymasterAssumption DEF OthersUndisturbed
  <2> QED BY <2>1, <1>1, Alike
<1>3. d \in ToldMap'[t]
  BY <1>1
<1>4. ToldMap' = [ToldMap EXCEPT ![t] = ToldMap'[t]]
  <2>1. ToldMap' = [u \in KeyThread |-> ToldMap'[u]]
    BY ToldMapsTo
  <2> QED BY <2>1, <1>2 DEF ToldMap
<1>5. ToldMap'[t] \subseteq Commands!Anything
  BY ToldMapsTo
<1> QED BY <1>3, <1>4, <1>5 DEF Commands!Conclude

(* A call returns.                                                         *)
LEMMA ReturnImplements ==
  ASSUME IInv, NEW t \in KeyThread, KeyStep(t), at[t] # "idle",
         NEW code \in ReturnCode, NEW result \in Result, NEW len \in Nat,
         Finish(t, code, result, len),
         said[t] \in Possible(cmd[t], [code |-> code, result |-> result, len |-> len])
  PROVE  Commands!Return(t)
<1>1. t \in Thread /\ KeyTypeOK /\ Placed(t)
  BY Parts
<1>2. OthersUndisturbed(t)
  BY <1>1, OnlyOwn
<1>3. /\ at'[t] = "idle" /\ cmd'[t] = cmd[t] /\ said'[t] = said[t]
      /\ ret'[t] = [code |-> code, result |-> result, len |-> len]
  BY <1>1, FinishStep
<1>4. cmd[t] # NoCall
  BY <1>1, Values DEF Placed
<1>5. Returned(t)'
  BY <1>3, <1>4 DEF Returned
<1>6. Learnt(t)' = Possible(cmd[t], [code |-> code, result |-> result, len |-> len])
  BY <1>3, <1>5 DEF Learnt
<1>7. Commands!Conclude(t, said[t])
  BY <1>2, <1>6, Concludes
<1>8. \A u \in KeyThread \ {t} : Undisturbed(u)
  BY <1>2, KeymasterAssumption DEF OthersUndisturbed
<1>9. t \in Busy /\ Busy' = Busy \ {t}
  <2>1. \A u \in KeyThread \ {t} : at'[u] = at[u]
    BY <1>8 DEF Undisturbed
  <2> QED BY <2>1, <1>3 DEF Busy
<1>10. Decided' = Decided /\ Decided[t] = said[t]
  <2>1. \A u \in KeyThread : said'[u] = said[u]
    BY <1>3, <1>8 DEF Undisturbed
  <2> QED BY <2>1 DEF Decided
<1> QED BY <1>7, <1>9, <1>10 DEF Commands!Return

LEMMA BeginImplements ==
  ASSUME IInv, NEW t \in KeyThread, Begin(t) PROVE Commands!Begin(t)
<1>1. t \in Thread /\ KeyTypeOK /\ at[t] = "idle"
  BY Parts DEF Begin
<1>2. \A u \in KeyThread \ {t} : Undisturbed(u)
  BY <1>1, OnlyOwn, KeymasterAssumption DEF KeyStep, OthersUndisturbed
<1>3. at'[t] # "idle" /\ said'[t] = NoReply
  BY <1>1 DEF KeyTypeOK, Begin, Goto
<1>4. t \notin Busy /\ Busy' = Busy \cup {t}
  <2>1. \A u \in KeyThread \ {t} : at'[u] = at[u]
    BY <1>2 DEF Undisturbed
  <2> QED BY <2>1, <1>1, <1>3 DEF Busy
<1>5. Decided' = [Decided EXCEPT ![t] = NoReply]
  <2>1. \A u \in KeyThread \ {t} : said'[u] = said[u]
    BY <1>2 DEF Undisturbed
  <2> QED BY <2>1, <1>3 DEF Decided
<1>6. ToldMap' = [ToldMap EXCEPT ![t] = Commands!Anything]
  <2>1. Learnt(t)' = Commands!Anything
    BY <1>3 DEF Learnt, Returned, Commands!Anything
  <2>2. \A u \in KeyThread \ {t} : Learnt(u)' = Learnt(u)
    BY <1>2, Alike
  <2>3. ToldMap' = [u \in KeyThread |-> Learnt(u)']
    BY DEF ToldMap
  <2> QED BY <2>1, <2>2, <2>3 DEF ToldMap
<1> QED BY <1>4, <1>5, <1>6 DEF Commands!Begin

LEMMA RejectImplements ==
  ASSUME IInv, NEW t \in KeyThread, Reject(t) PROVE Commands!Reject(t)
<1>1. t \in Thread /\ KeyTypeOK /\ at[t] = "idle" /\ at' = at
  BY Parts DEF Reject
<1>2. OthersUndisturbed(t)
  BY <1>1, OnlyOwn DEF KeyStep
<1>3. \A u \in KeyThread \ {t} : Undisturbed(u)
  BY <1>2, KeymasterAssumption DEF OthersUndisturbed
<1>4. PICK c \in Uses[t] :
        /\ ArgumentError(c) # "SUCCESS"
        /\ cmd' = [cmd EXCEPT ![t] = c]
        /\ ret' = [ret EXCEPT ![t] =
                     [code |-> ArgumentError(c), result |-> "FAILURE", len |-> c.rsp]]
  BY DEF Reject
<1> DEFINE r == [code |-> ArgumentError(c), result |-> "FAILURE", len |-> c.rsp]
<1>5. c \in CallSpace
  BY KeymasterAssumption
<1>6. /\ cmd'[t] = c /\ said'[t] = NoReply /\ ret'[t] = r
  BY <1>1, <1>4 DEF KeyTypeOK, Reject
<1>7. NoReply \in Possible(c, r)
  <2>1. ArgumentError(c) \in {"BAD_PARAMETER", "RSP_BUFFER_TOO_SMALL"}
    BY <1>4 DEF ArgumentError
  <2> QED BY <2>1, PossibleUnsent DEF Unsent
<1>8. Learnt(t)' = Possible(c, r)
  <2>1. Returned(t)'
    BY <1>1, <1>5, <1>6, Values DEF Returned
  <2> HIDE DEF r
  <2> QED BY <2>1, <1>6 DEF Learnt
<1>9. Commands!Conclude(t, NoReply)
  BY <1>2, <1>7, <1>8, Concludes
<1>10. t \notin Busy /\ Busy' = Busy
  BY <1>1 DEF Busy
<1>11. Decided' = [Decided EXCEPT ![t] = NoReply]
  <2>1. \A u \in KeyThread \ {t} : said'[u] = said[u]
    BY <1>3 DEF Undisturbed
  <2> QED BY <2>1, <1>6 DEF Decided
<1> QED BY <1>9, <1>10, <1>11 DEF Commands!Reject

-----------------------------------------------------------------------------
(* Every way to return leaves what the firmware did among the possible.    *)
LEMMA UnsentReturns ==
  ASSUME IInv, NEW t \in KeyThread, KeyStep(t), at[t] # "idle", said[t] = NoReply,
         NEW code \in Unsent, Fail(t, code)
  PROVE  Commands!Return(t)
<1> DEFINE r == [code |-> code, result |-> "FAILURE", len |-> cmd[t].rsp]
<1>1. cmd[t].rsp \in Nat /\ "FAILURE" \in Result /\ code \in ReturnCode
  BY Parts, Locals DEF Result, ReturnCode, Unsent
<1>2. r.code = code
  OBVIOUS
<1>3. said[t] \in Possible(cmd[t], r)
  BY <1>2, PossibleUnsent
<1>4. Finish(t, code, "FAILURE", cmd[t].rsp)
  BY DEF Fail
<1> QED BY <1>1, <1>3, <1>4, ReturnImplements

LEMMA SilentReturns ==
  ASSUME IInv, NEW t \in KeyThread, KeyStep(t), at[t] # "idle",
         Fail(t, "HECI_SNDRCV_FAILED")
  PROVE  Commands!Return(t)
<1> DEFINE r == [code |-> "HECI_SNDRCV_FAILED", result |-> "FAILURE", len |-> cmd[t].rsp]
<1>1. /\ cmd[t].rsp \in Nat /\ "FAILURE" \in Result
      /\ "HECI_SNDRCV_FAILED" \in ReturnCode
  BY Parts, Locals DEF Result, ReturnCode
<1>2. said[t] \in Replies \cup {NoReply}
  BY SaidWithin
<1>3. Possible(cmd[t], r) = Replies \cup {NoReply}
  BY PossibleAnything
<1>4. Finish(t, "HECI_SNDRCV_FAILED", "FAILURE", cmd[t].rsp)
  BY DEF Fail
<1> QED BY <1>1, <1>2, <1>3, <1>4, ReturnImplements

LEMMA RefusedReturns ==
  ASSUME IInv, NEW t \in KeyThread, Refused(t) PROVE Commands!Return(t)
<1> DEFINE result == ResultOf(reply[t].code)
           r == [code |-> "SUCCESS", result |-> result, len |-> CallerRsp]
<1>1. /\ at[t] = "close" /\ phase[t] = "cmd" /\ reply[t].code # 0 /\ KeyStep(t)
      /\ Finish(t, "SUCCESS", result, CallerRsp)
  BY DEF Refused, KeyStep, KeyCallStep, ReturnStep
<1>2. /\ reply[t] = said[t] /\ said[t] # NoReply
  BY <1>1, Values, HeardAnswer
<1>3. said[t] \in Replies /\ said[t].id = cmd[t].id
  BY <1>1, <1>2, SaidWithin
<1>4. "SUCCESS" \in ReturnCode /\ result \in Result /\ CallerRsp \in Nat
  BY DEF ReturnCode, Result, ResultOf, CallerRsp
<1>5. Shows(said[t], cmd[t], result, CallerRsp)
  BY <1>1, <1>2 DEF Shows
<1> HIDE DEF result
<1>6. said[t] \in Possible(cmd[t], r)
  BY <1>3, <1>5, PossibleShown
<1> QED BY <1>1, <1>4, <1>6, ReturnImplements

LEMMA CopiedReturns ==
  ASSUME IInv, NEW t \in KeyThread, Copied(t) PROVE Commands!Return(t)
<1>1. /\ at[t] = "close" /\ phase[t] = "cmd" /\ KeyStep(t)
      /\ reply[t].code = 0 /\ reply[t].id \in Cmd \ {"verify"}
  BY DEF Copied, KeyStep, KeyCallStep, ReturnStep
<1>2. PICK n \in Sizes(t) :
        \/ /\ cmd[t].rsp < Needed(reply[t].id, n) % Word
           /\ Finish(t, "RSP_BUFFER_TOO_SMALL", "SUCCESS", Needed(reply[t].id, n) % Word)
        \/ /\ ~(cmd[t].rsp < Needed(reply[t].id, n) % Word)
           /\ Finish(t, "SUCCESS", "SUCCESS", Needed(reply[t].id, n) % Word)
  BY DEF Copied
<1> DEFINE needed == Needed(reply[t].id, n) % Word
<1>3. /\ reply[t] = said[t] /\ said[t].code = 0
      /\ cmd[t].id # "verify" /\ cmd[t].rsp \in Nat /\ needed \in Nat
      /\ ~Behind(cmd[t]) => needed = Needed(cmd[t].id, said[t].n)
  BY <1>1, CopiedFacts
<1>4. said[t] \in Replies /\ said[t].id = cmd[t].id
  BY <1>1, <1>3, Values, SaidWithin DEF Cmd
<1>7. {"SUCCESS", "RSP_BUFFER_TOO_SMALL"} \subseteq ReturnCode /\ "SUCCESS" \in Result
  BY DEF ReturnCode, Result
<1>8. Filled(said[t], cmd[t], needed)
  BY <1>3 DEF Filled
<1>9. Shows(said[t], cmd[t], "SUCCESS", needed)
  BY <1>3, <1>8 DEF Shows, ResultOf
<1> HIDE DEF needed
<1>10. CASE cmd[t].rsp < needed
  <2> DEFINE r == [code |-> "RSP_BUFFER_TOO_SMALL", result |-> "SUCCESS", len |-> needed]
  <2>1. r.code = "RSP_BUFFER_TOO_SMALL" /\ r.len = needed /\ r.len # cmd[t].rsp
    BY <1>3, <1>10
  <2>2. said[t] \in Possible(cmd[t], r)
    <3> HIDE DEF r
    <3> QED BY <2>1, <1>3, <1>4, <1>8, PossibleDropped
  <2>3. Finish(t, "RSP_BUFFER_TOO_SMALL", "SUCCESS", needed)
    BY <1>2, <1>10 DEF needed
  <2> QED BY <2>2, <2>3, <1>1, <1>3, <1>7, ReturnImplements
<1>11. CASE ~(cmd[t].rsp < needed)
  <2> DEFINE r == [code |-> "SUCCESS", result |-> "SUCCESS", len |-> needed]
  <2>1. r.code = "SUCCESS" /\ r.result = "SUCCESS" /\ r.len = needed
    OBVIOUS
  <2>2. said[t] \in Possible(cmd[t], r)
    <3> HIDE DEF r
    <3> QED BY <2>1, <1>4, <1>9, PossibleShown
  <2>3. Finish(t, "SUCCESS", "SUCCESS", needed)
    BY <1>2, <1>11 DEF needed
  <2> QED BY <2>2, <2>3, <1>1, <1>3, <1>7, ReturnImplements
<1> QED BY <1>10, <1>11

LEMMA VerifiedReturns ==
  ASSUME IInv, NEW t \in KeyThread, Verified(t) PROVE Commands!Return(t)
<1>1. /\ at[t] = "close" /\ phase[t] = "cmd" /\ KeyStep(t)
      /\ reply[t].code = 0 /\ reply[t].id = "verify"
  BY DEF Verified, KeyStep, KeyCallStep, ReturnStep
<1>2. PICK v \in IF Behind(cmd[t]) THEN BOOLEAN ELSE {reply[t].verified} :
        Finish(t, "SUCCESS", IF v THEN "SUCCESS" ELSE "FAILURE", CallerRsp)
  BY DEF Verified
<1>3. reply[t] # NoReply /\ reply[t] # Blank
  BY <1>1, Values
<1>4. reply[t] = said[t] /\ cmd[t].rsp \in Nat
  BY <1>1, <1>3, HeardAnswer
<1>5. said[t] \in Replies /\ said[t].id = cmd[t].id
  BY <1>1, <1>3, <1>4, SaidWithin
<1> DEFINE result == IF v THEN "SUCCESS" ELSE "FAILURE"
<1>6. result \in Result /\ "SUCCESS" \in ReturnCode /\ CallerRsp \in Nat
  BY DEF Result, ReturnCode, CallerRsp
<1>8. IF Behind(cmd[t]) THEN result \in {"SUCCESS", "FAILURE"}
                        ELSE result = IF ~said[t].verified THEN "FAILURE" ELSE "SUCCESS"
  BY <1>4
<1>9. Finish(t, "SUCCESS", result, CallerRsp)
  BY <1>2
<1> HIDE DEF result
<1>10. Shows(said[t], cmd[t], result, CallerRsp)
  <2>1. cmd[t].id = "verify" /\ said[t].code = 0
    BY <1>1, <1>4, <1>5
  <2>2. ResultOf(said[t].code) = "SUCCESS"
    BY <2>1 DEF ResultOf
  <2> QED BY <2>1, <2>2, <1>8 DEF Shows
<1>11. said[t] \in Possible(cmd[t], [code |-> "SUCCESS", result |-> result, len |-> CallerRsp])
  BY <1>5, <1>10, PossibleShown
<1> QED BY <1>1, <1>6, <1>9, <1>11, ReturnImplements

(* A blank answer is only read where reads of no bytes happen.             *)
LEMMA UnmatchedReturns ==
  ASSUME IInv, NEW t \in KeyThread, Unmatched(t) PROVE Commands!Return(t)
<1> DEFINE r == [code |-> "SUCCESS", result |-> "SUCCESS", len |-> cmd[t].rsp]
<1>1. /\ at[t] = "close" /\ phase[t] = "cmd" /\ KeyStep(t)
      /\ reply[t].code = 0 /\ reply[t].id = "caps"
      /\ Finish(t, "SUCCESS", "SUCCESS", cmd[t].rsp)
  BY DEF Unmatched, KeyStep, KeyCallStep, ReturnStep
<1>2. t \in Thread /\ Heard(t) /\ cmd[t].rsp \in Nat /\ Cached(ProcOf[t])
  BY <1>1, Parts, Locals DEF Placed
<1>3. reply[t] # said[t]
  <2>1. SUFFICES ASSUME reply[t] = said[t] PROVE FALSE
    OBVIOUS
  <2>2. cmd[t].id \in Cmd /\ said[t].id = cmd[t].id
    BY <2>1, <1>1, Values, SaidWithin
  <2> QED BY <2>1, <2>2, <1>1 DEF Cmd
<1>4. "empty" \in Faults
  BY <1>1, <1>2, <1>3, Values DEF Heard, Cached
<1>5. said[t] \in Replies \cup {NoReply}
  BY <1>1, SaidWithin
<1>6. Possible(cmd[t], r) = Replies \cup {NoReply}
  <2>1. r.code = "SUCCESS" /\ r.result = "SUCCESS" /\ r.len = cmd[t].rsp
    OBVIOUS
  <2> HIDE DEF r
  <2> QED BY <2>1, <1>4, PossibleAnything
<1>7. "SUCCESS" \in ReturnCode /\ "SUCCESS" \in Result
  BY DEF ReturnCode, Result
<1> QED BY <1>1, <1>2, <1>5, <1>6, <1>7, ReturnImplements

LEMMA EarlyReturns ==
  ASSUME IInv, NEW t \in KeyThread,
         OpenFails(t) \/ CapsAllocFails(t) \/ BuildFails(t) \/ FillFails(t) \/ CapsFail(t)
  PROVE  Commands!Return(t)
<1>1. KeyStep(t) /\ at[t] # "idle"
  BY DEF KeyStep, KeyCallStep, SendStep, CapsStep, BuildStep, OpenFails, CapsAllocFails,
     BuildFails, FillFails, CapsFail
<1>2. said[t] = NoReply
  BY Parts DEF Said, OpenFails, CapsAllocFails, BuildFails, FillFails, CapsFail
<1>3. PICK code \in Unsent \cup {"HECI_SNDRCV_FAILED"} : Fail(t, code)
  BY FillErrors DEF OpenFails, CapsAllocFails, BuildFails, FillFails, CapsFail, Unsent
<1> QED BY <1>1, <1>2, <1>3, UnsentReturns, SilentReturns

LEMMA NotAnsweredReturns ==
  ASSUME IInv, NEW t \in KeyThread, NotAnswered(t) PROVE Commands!Return(t)
<1>1. KeyStep(t) /\ at[t] # "idle" /\ Fail(t, "HECI_SNDRCV_FAILED")
  BY DEF NotAnswered, KeyStep, KeyCallStep, ReturnStep
<1> QED BY <1>1, SilentReturns

-----------------------------------------------------------------------------
(* The firmware decides once about a command, while its call waits.        *)
LEMMA KeyAnswerImplements ==
  ASSUME IInv, NEW p \in Process, NEW f \in Fd, KeyAnswer(p, f)
  PROVE  (\E t \in KeyThread : Commands!Decide(t)) \/ UNCHANGED Commands!vars
<1>0. PICK m \in link[p][f].req : \E r \in Answers(m) :
        said' = [t \in Thread |-> IF t \in Waiting(p, f) /\ m # "caps" THEN r ELSE said[t]]
  BY DEF KeyAnswer
<1>1. PICK r \in Answers(m) :
        said' = [t \in Thread |-> IF t \in Waiting(p, f) /\ m # "caps" THEN r ELSE said[t]]
  BY <1>0
<1>2. UNCHANGED <<at, phase, cmd, req, reply, ret>>
  BY DEF KeyAnswer
<1>3. \A u \in KeyThread : u \in Thread
  BY KeymasterAssumption
<1>4. ASSUME NEW u \in KeyThread, said'[u] = said[u] PROVE Undisturbed(u)
  BY <1>2, <1>4 DEF Undisturbed
<1>5. CASE \E u \in Waiting(p, f) : m # "caps"
  <2>1. PICK u \in KeyThread : ProcOf[u] = p /\ fd[u] = f /\ m # "caps"
    BY <1>5 DEF Waiting
  <2>2. fd[u] # NoFd /\ m \in LinkOf(u).req
    BY <2>1, <1>1, Values DEF LinkOf
  <2>3. at[u] # "idle" /\ m = Message(u) /\ said[u] = NoReply
    BY <2>2, Parts DEF Connected
  <2>4. phase[u] = "cmd" /\ m = cmd[u].id
    BY <2>1, <2>3, Parts DEF Message, KeyTypeOK
  <2>5. m \in Cmd
    <3>1. at[u] # "build"
      BY <2>2, Parts DEF Connected
    <3> QED BY <3>1, <2>3, <2>4, Parts DEF Placed
  <2>6. r \in Replies
    BY <2>5 DEF Replies
  <2>7. \A v \in KeyThread \ {u} : said'[v] = said[v]
    <3>1. \A v \in KeyThread \ {u} : v \notin Waiting(p, f)
      BY <2>1, <2>2, <1>3 DEF Waiting, IInv, HandlesExclusive
    <3> QED BY <3>1, <1>1, <1>3
  <2>8. said'[u] = r
    BY <2>1, <1>1, <1>3 DEF Waiting
  <2>9. Decided' = [Decided EXCEPT ![u] = r] /\ Decided[u] = NoReply
    BY <2>3, <2>7, <2>8 DEF Decided
  <2>10. u \in Busy /\ Busy' = Busy
    BY <2>3, <1>2 DEF Busy
  <2>11. ToldMap' = ToldMap
    <3>1. Learnt(u)' = Learnt(u)
      BY <2>3, <1>2 DEF Learnt, Returned
    <3>2. \A v \in KeyThread \ {u} : Learnt(v)' = Learnt(v)
      BY <2>7, <1>4, Alike
    <3> QED BY <3>1, <3>2 DEF ToldMap
  <2>12. Commands!Decide(u)
    BY <2>6, <2>9, <2>10, <2>11 DEF Commands!Decide
  <2> QED BY <2>12
<1>6. CASE ~\E u \in Waiting(p, f) : m # "caps"
  <2>1. \A u \in KeyThread : said'[u] = said[u]
    BY <1>1, <1>3, <1>6
  <2> QED BY <2>1, <1>4, UndisturbedStutters
<1> QED BY <1>5, <1>6

LEMMA InitImplements == Init => Commands!Init
<1> SUFFICES ASSUME Init PROVE Commands!Init
  OBVIOUS
<1>1. ASSUME NEW t \in KeyThread
      PROVE  at[t] = "idle" /\ cmd[t] = NoCall /\ said[t] = NoReply
  BY KeymasterAssumption DEF Init, KeyInit
<1>2. Busy = {} /\ Decided = [t \in KeyThread |-> NoReply]
  BY <1>1 DEF Busy, Decided
<1>3. ToldMap = [t \in KeyThread |-> Commands!Anything]
  BY <1>1 DEF ToldMap, Learnt, Returned, Commands!Anything
<1> QED BY <1>2, <1>3 DEF Commands!Init

LEMMA StepImplements == IInv /\ [Next]_vars => [Commands!Next]_(Commands!vars)
<1> SUFFICES ASSUME IInv, [Next]_vars PROVE Commands!Next \/ UNCHANGED Commands!vars
  OBVIOUS
<1>1. CASE UNCHANGED keyVars
  BY <1>1, UndisturbedStutters DEF keyVars, Undisturbed
<1>2. ASSUME NEW t \in KeyThread, KeyStep(t)
      PROVE  Commands!Next \/ UNCHANGED Commands!vars
  <2>1. CASE Begin(t) \/ Reject(t)
    BY <2>1, BeginImplements, RejectImplements DEF Commands!Next
  <2>2. CASE InnerStep(t)
    BY <2>2, InnerStutters
  <2>3. CASE OpenFails(t) \/ CapsAllocFails(t) \/ BuildFails(t) \/ FillFails(t) \/ CapsFail(t)
    BY <2>3, EarlyReturns DEF Commands!Next
  <2>4. CASE ReturnStep(t)
    BY <2>4, NotAnsweredReturns, RefusedReturns, CopiedReturns, VerifiedReturns,
       UnmatchedReturns DEF ReturnStep, Commands!Next
  <2> QED BY <2>1, <2>2, <2>3, <2>4, <1>2
      DEF KeyStep, KeyCallStep, SendStep, CapsStep, BuildStep, InnerStep
<1>3. ASSUME NEW p \in Process, NEW f \in Fd, KeyAnswer(p, f)
      PROVE  Commands!Next \/ UNCHANGED Commands!vars
  BY <1>3, KeyAnswerImplements DEF Commands!Next
<1>4. UNCHANGED vars => UNCHANGED keyVars
  BY DEF vars
<1> QED BY <1>1, <1>2, <1>3, <1>4 DEF Next

(* Whatever the threads, the firmware and the kernel do, a command is      *)
(* decided upon once at most and within its call, and the return code, the *)
(* result and *rsp_length are never at odds with what became of it         *)
(* (sep_keymaster.c:591-894).                                              *)
THEOREM KeyImplementsExchange == Spec => ImplementsExchange
<1> QED BY InitImplements, StepImplements, KeyInvariance, PTL
    DEF Spec, Commands!Spec, ImplementsExchange
=============================================================================
