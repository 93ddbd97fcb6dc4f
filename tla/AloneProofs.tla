---------------------------- MODULE AloneProofs ----------------------------
(***************************************************************************)
(* The components on their own: the types of the handlers' and of the      *)
(* pipeline's variables, and what the handlers promise about agreements as *)
(* long as the process lives: the store implements Sessions, and a client  *)
(* that keeps to its own session is understood.                            *)
(***************************************************************************)
EXTENDS AgreementProofs, PipelineAlone, FiniteSetTheorems

----------------------------------------------------------------------------
(* Types *)

\* What the handlers need to know of their variables.
RpcTypes == StoreType /\ TableType /\ FileType /\ CallsType

\* At first the store, the table and the channels are empty.
LEMMA RpcTypesInit == RpcAloneInit => RpcTypes
<1>. SUFFICES ASSUME RpcAloneInit PROVE RpcTypes
  OBVIOUS
<1>1. RpcInit
  BY DEF RpcAloneInit
<1>2. StoreType /\ FileType
  BY <1>1, EmptySeq, StoreSizeAssumption, ChannelAssumption
  DEF RpcInit, StoreInit, ChannelsInit, StoreType, FileType
<1>3. NoRow \in Row
  BY DEF NoRow, Row, Absent, Pending, WitnessGenerated, ProofGenererated, Failed
<1>4. TableType
  BY <1>1, <1>3, EmptySeq DEF RpcInit, TableInit, TableType
<1>5. CallsType
  BY <1>1 DEF RpcInit, CallsType, IdleCall, Call, Replies, Awaits, HelloAwaits, SubmitAwaits
<1>. QED  BY <1>2, <1>4, <1>5 DEF RpcTypes

\* What a step of the handlers on their own does: a call moves, or the file loop
\* takes a message.
RpcMoves ==
    \/ \E c \in Calls : CallMoves(c)
    \/ UNCHANGED <<ecdh_store, proofs, notified, calls>>

\* Every step is one of these and keeps the types.
LEMMA RpcStep ==
    ASSUME RpcTypes, [RpcNext]_rpcVars
    PROVE  RpcTypes' /\ RpcMoves
<1>0. StoreType /\ TableType /\ FileType /\ CallsType
  BY DEF RpcTypes
<1>1. ASSUME NEW c \in Calls, ClientStep(c) \/ HandlerStep(c) PROVE RpcTypes' /\ CallMoves(c)
  BY <1>0, <1>1, ClientType, HandlerType, CallStepMoves DEF RpcKept, RpcTypes
<1>2. ASSUME UNCHANGED <<ecdh_store, proofs, notified, calls>>, FileType'
      PROVE  RpcTypes'
  BY <1>0, <1>2 DEF RpcTypes, StoreType, TableType, CallsType
<1>3. ASSUME Drain PROVE FileType'
  BY <1>0, <1>3, ReceiveType DEF Drain, FileType
<1>4. ASSUME UNCHANGED fileCh PROVE FileType'
  BY <1>0, <1>4 DEF FileType
<1>. QED  BY <1>1, <1>2, <1>3, <1>4 DEF RpcNext, Drain, RpcQuiet, rpcVars, RpcMoves

\* The variables of the handlers keep their types when the handlers run on their
\* own, with nothing but a loop that empties their channel.
THEOREM RpcTypeCorrect == RpcSpec => []RpcTypeOK
<1>1. RpcTypes /\ [RpcNext]_rpcVars => RpcTypes'
  BY RpcStep
<1>2. RpcTypes => RpcTypeOK
  BY DEF RpcTypes, StoreType, TableType, CallsType, RpcTypeOK
<1>. QED  BY <1>1, <1>2, RpcTypesInit, PTL DEF RpcSpec

\* What the pipeline needs to know of its variables.
PipelineTypes ==
    /\ TableType /\ FileType /\ WitnessType /\ ProofType
    /\ TasksType /\ FoldersType /\ WritesType /\ FolderTypeOK

\* At first there are no jobs, and main has made the map from the folder.
LEMMA PipelineTypesInit == AloneInit => PipelineTypes
<1>. SUFFICES ASSUME AloneInit PROVE PipelineTypes
  OBVIOUS
<1>1. FileType /\ WitnessType /\ ProofType
  BY EmptySeq, ChannelAssumption DEF AloneInit, ChannelsInit, FileType, WitnessType, ProofType
<1>2. NoRow \in Row
  BY DEF NoRow, Row, Absent, Pending, WitnessGenerated, ProofGenererated, Failed
<1>3. TableType
  BY <1>2, EmptySeq DEF AloneInit, TableInit, TableType
<1>4. NoTask \in Task /\ NoTask.pc = "none"
  BY DEF NoTask, Task, Stopped
<1>5. TasksType
  BY <1>4 DEF AloneInit, PipelineInit, TasksType
<1>6. NoFolder \in Folder
  BY Zenon DEF NoFolder, Folder
<1>7. FoldersType /\ WritesType
  BY <1>6 DEF AloneInit, PipelineInit, FoldersType, WritesType
<1>8. FolderTypeOK
  <2>1. circuit_folder \subseteq Entries /\ circuit_zkey_map = [n \in Names |-> ZkeyPath(n)]
    BY DEF AloneInit, ScannedInit
  <2>2. Names \subseteq {e.name : e \in Entries} /\ Names \subseteq STRING
    BY <2>1, FolderAssumption DEF Names, Entry
  <2>3. \A n \in Names : ZkeyPath(n) \in Path
    BY <2>2, ZkeyPathType
  <2>. QED  BY <2>1, <2>2, <2>3 DEF FolderTypeOK
<1>. QED  BY <1>1, <1>3, <1>5, <1>7, <1>8 DEF PipelineTypes

\* A job that comes, and every step of the loops and the tasks, keep the types.
LEMMA PipelineTypesStep ==
    ASSUME PipelineTypes, [PipelineNext]_allPipelineVars
    PROVE  PipelineTypes'
<1>0. /\ TableType /\ FileType /\ WitnessType /\ ProofType
      /\ TasksType /\ FoldersType /\ WritesType /\ FolderTypeOK
  BY DEF PipelineTypes
<1>1. ASSUME NEW m \in Jobs, Accept(m), UNCHANGED <<circuit_folder, circuit_zkey_map>>
      PROVE  PipelineTypes'
  <2>. DEFINE request == [proof_type |-> 0, version |-> 1, endpoint |-> FALSE]
  <2>1. m \in FileGenerator /\ m.uuid \in Uuids /\ m.id \in Calls
    BY <1>1, JobsAssumption DEF FileGenerator
  <2>2. request \in Metadata
    <3>1. 0 \in 0..9 /\ 1 \in I32
      BY RequestAssumption DEF I32
    <3>. QED  BY <3>1, Zenon DEF Metadata
  <2>3. create_proof_status(m.uuid, m.id, request, TRUE, TRUE)
    BY <1>1 DEF Accept
  <2>. HIDE DEF request
  <2>4. TableType'
    BY <1>0, <2>1, <2>2, <2>3, CreateType
  <2>5. FileType'
    BY <1>0, <1>1, <2>1, SendType DEF Accept, FileType
  <2>. QED  BY <1>0, <1>1, <2>4, <2>5
            DEF Accept, PipelineTypes, WitnessType, ProofType, TasksType, FoldersType, WritesType,
                FolderTypeOK
<1>2. ASSUME PipelineStep, UNCHANGED <<circuit_folder, circuit_zkey_map>> PROVE PipelineTypes'
  <2>1. FolderTypeOK'
    BY <1>0, <1>2 DEF FolderTypeOK
  <2>2. LoopKept \/ TaskKept
    BY <1>0, <1>2, LoopType, TaskStepType DEF PipelineStep
  <2>. QED  BY <2>1, <2>2 DEF LoopKept, TaskKept, PipelineTypes
<1>3. CASE UNCHANGED allPipelineVars
  BY <1>0, <1>3 DEF allPipelineVars, PipelineTypes, TableType, FileType, WitnessType, ProofType,
     TasksType, FoldersType, WritesType, FolderTypeOK
<1>. QED  BY <1>1, <1>2, <1>3 DEF PipelineNext, Alone, PipelineQuiet

\* The variables of the pipeline keep their types when it runs on its own,
\* whatever jobs come, in whatever order, and even if a prover never ends.
THEOREM PipelineTypeCorrect == PipelineSafety => []PipelineTypeOK
<1>1. PipelineTypes /\ [PipelineNext]_allPipelineVars => PipelineTypes'
  BY PipelineTypesStep
<1>2. PipelineTypes => PipelineTypeOK
  BY DEF PipelineTypes, FileType, WitnessType, ProofType, TasksType, FoldersType, WritesType,
     PipelineTypeOK, ChannelsTypeOK
<1>. QED  BY <1>1, <1>2, PipelineTypesInit, PTL DEF PipelineSafety

----------------------------------------------------------------------------
(* What the operations of the store keep *)

\* All entries of s but the one at i are entries of t.
KeptBut(s, t, i) == \A k \in DOMAIN s \ {i} : \E j \in DOMAIN t : t[j] = s[k]

\* The operations on the list give up one entry at most.
LEMMA RemoveKeeps ==
    ASSUME NEW S, NEW s \in Seq(S), NEW i \in DOMAIN s
    PROVE  KeptBut(s, RemoveAt(s, i), i)
<1>. DEFINE a == SubSeq(s, 1, i - 1)
            b == SubSeq(s, i + 1, Len(s))
            t == RemoveAt(s, i)
<1>0. /\ Len(s) \in Nat /\ DOMAIN s = 1..Len(s) /\ i \in 1..Len(s) /\ i \in Int
      /\ \A j \in 1..Len(s) : s[j] \in S
  BY LenProperties, ElementOfSeq
<1>1. a \in Seq(S) /\ Len(a) = i - 1 /\ \A k \in 1..(i - 1) : a[k] = s[k]
  BY <1>0, SubSeqProperties
<1>2. b \in Seq(S) /\ Len(b) = Len(s) - i /\ \A k \in 1..(Len(s) - i) : b[k] = s[i + k]
  BY <1>0, SubSeqProperties
<1>3. t = a \o b
  BY DEF RemoveAt
<1>. HIDE DEF a, b, t
<1>4. /\ t \in Seq(S) /\ Len(t) = Len(a) + Len(b)
      /\ \A k \in 1..(Len(a) + Len(b)) : t[k] = IF k <= Len(a) THEN a[k] ELSE b[k - Len(a)]
  BY <1>1, <1>2, <1>3, ConcatProperties
<1>5. DOMAIN t = 1..(Len(s) - 1)
  <2>1. DOMAIN t = 1..Len(t)
    BY <1>4, LenProperties
  <2>. QED  BY <1>0, <1>1, <1>2, <1>4, <2>1
<1>6. ASSUME NEW k \in DOMAIN s, k # i PROVE \E j \in DOMAIN t : t[j] = s[k]
  <2>1. CASE k < i
    <3>1. k \in 1..(i - 1) /\ k \in DOMAIN t /\ k \in 1..(Len(a) + Len(b)) /\ k <= Len(a)
      BY <1>0, <1>1, <1>2, <1>5, <2>1
    <3>2. t[k] = a[k] /\ a[k] = s[k]
      BY <1>1, <1>4, <3>1
    <3>. QED  BY <3>1, <3>2
  <2>2. CASE ~(k < i)
    <3>0. k \in Int /\ k > i /\ k <= Len(s)
      BY <1>0, <1>6, <2>2
    <3>l. Len(a) = i - 1 /\ Len(b) = Len(s) - i /\ Len(a) + Len(b) = Len(s) - 1
      BY <1>0, <1>1, <1>2
    <3>1. /\ k - 1 \in 1..(Len(s) - 1) /\ ~(k - 1 <= i - 1) /\ (k - 1) - (i - 1) = k - i
          /\ k - i \in 1..(Len(s) - i) /\ i + (k - i) = k
      BY <1>0, <3>0
    <3>2. t[k - 1] = b[k - i] /\ k - 1 \in DOMAIN t
      BY <1>4, <1>5, <3>1, <3>l
    <3>3. b[k - i] = s[k]
      BY <1>2, <3>1
    <3>. QED  BY <3>2, <3>3
  <2>. QED  BY <2>1, <2>2
<1>. QED  BY <1>6 DEF KeptBut, t

\* Evicting the last agreement keeps all the others, and its uuid is then free.
LEMMA FrontKeeps ==
    ASSUME NEW S, NEW s \in Seq(S), s # <<>>
    PROVE  /\ Len(s) \in DOMAIN s /\ KeptBut(s, Front(s), Len(s))
           /\ OnceIn(s) => Lacks(Front(s), s[Len(s)].uuid)
<1>1. Len(s) \in Nat \ {0} /\ DOMAIN s = 1..Len(s) /\ \A j \in 1..Len(s) : s[j] \in S
  BY EmptySeq, ElementOfSeq, LenProperties
<1>. DEFINE t == Front(s)
<1>2. t = SubSeq(s, 1, Len(s) - 1)
  BY DEF Front
<1>. HIDE DEF t
<1>3. t \in Seq(S) /\ Len(t) = Len(s) - 1 /\ \A k \in 1..(Len(s) - 1) : t[k] = s[k]
  BY <1>1, <1>2, SubSeqProperties
<1>4. DOMAIN t = 1..(Len(s) - 1)
  BY <1>3, LenProperties
<1>5. \A k \in DOMAIN s \ {Len(s)} : k \in DOMAIN t /\ t[k] = s[k]
  BY <1>1, <1>3, <1>4
<1>6. \A k \in DOMAIN t : k \in DOMAIN s /\ k # Len(s) /\ t[k] = s[k]
  BY <1>1, <1>3, <1>4
<1>7. OnceIn(s) => Lacks(t, s[Len(s)].uuid)
  BY <1>1, <1>6 DEF OnceIn, Lacks
<1>8. KeptBut(s, t, Len(s))
  BY <1>5 DEF KeptBut
<1>. QED  BY <1>1, <1>7, <1>8 DEF t

\* e is somewhere in t.
Has(t, e) == \E j \in DOMAIN t : t[j] = e

\* Putting an agreement in front adds it and keeps all the others.
LEMMA PutKeeps ==
    ASSUME NEW S, NEW s \in Seq(S), NEW e \in S
    PROVE  LET t == <<e>> \o s
           IN  Adds(t, e, s) /\ Has(t, e) /\ \A k \in DOMAIN s : Has(t, s[k])
<1>. DEFINE h == <<e>>
            t == h \o s
<1>1. h \in Seq(S) /\ Len(h) = 1 /\ h[1] = e
  OBVIOUS
<1>. HIDE DEF h
<1>3. /\ t \in Seq(S) /\ Len(t) = 1 + Len(s) /\ Len(s) \in Nat /\ DOMAIN s = 1..Len(s)
      /\ \A k \in 1..Len(t) : t[k] = IF k <= Len(h) THEN h[k] ELSE s[k - Len(h)]
  BY <1>1, ConcatProperties, LenProperties
<1>. HIDE DEF t
<1>4. DOMAIN t = 1..(1 + Len(s))
  BY <1>3, LenProperties
<1>5. 1 \in DOMAIN t /\ t[1] = e
  BY <1>1, <1>3, <1>4
<1>6. \A k \in DOMAIN s : k + 1 \in DOMAIN t /\ t[k + 1] = s[k]
  BY <1>1, <1>3, <1>4
<1>7. \A k \in DOMAIN t : k = 1 \/ (k - 1 \in DOMAIN s /\ t[k] = s[k - 1])
  BY <1>1, <1>3, <1>4
<1>8. Adds(t, e, s) /\ Has(t, e) /\ \A k \in DOMAIN s : Has(t, s[k])
  BY <1>5, <1>6, <1>7 DEF Has, Adds
<1>. QED  BY <1>8 DEF t, h

\* The agreement h is stored under u.
Stored(u, h) == \E i \in DOMAIN ecdh_store : ecdh_store[i].uuid = u /\ ecdh_store[i].secret = h

\* A lookup keeps every agreement,
LEMMA GetStored ==
    ASSUME StoreType, StoreOnce, NEW u \in Uuids, get_shared_secret(u), NEW w, NEW h
    PROVE  Stored(w, h)' <=> Stored(w, h)
<1>1. Stored(w, h)' => Stored(w, h)
  BY GetOnce DEF From, Stored
<1>2. ASSUME Stored(w, h) PROVE Stored(w, h)'
  <2>1. CASE ~Holds(u)
    BY <1>2, <2>1 DEF get_shared_secret, Stored
  <2>2. CASE Holds(u)
    <3>. DEFINE e == ecdh_store[Slot(u)]
                rest == RemoveAt(ecdh_store, Slot(u))
    <3>1. Slot(u) \in DOMAIN ecdh_store
      BY <2>2, SlotInDomain
    <3>2. e \in Agreement /\ rest \in Seq(Agreement)
      BY <3>1, ElementOfSeq, LenProperties, RemoveOnce DEF StoreType, StoreOnce
    <3>3. ecdh_store' = <<e>> \o rest
      BY <2>2 DEF get_shared_secret
    <3>4. KeptBut(ecdh_store, rest, Slot(u))
      BY <3>1, RemoveKeeps DEF StoreType
    <3>5. PICK i \in DOMAIN ecdh_store : ecdh_store[i].uuid = w /\ ecdh_store[i].secret = h
      BY <1>2 DEF Stored
    <3>6. ecdh_store[i] = e \/ \E k \in DOMAIN rest : rest[k] = ecdh_store[i]
      BY <3>4, <3>5 DEF KeptBut
    <3>. HIDE DEF e, rest
    <3>7. Has(ecdh_store', e) /\ \A k \in DOMAIN rest : Has(ecdh_store', rest[k])
      BY <3>2, <3>3, PutKeeps
    <3>8. Has(ecdh_store', ecdh_store[i])
      BY <3>6, <3>7
    <3>. QED  BY <3>5, <3>8 DEF Has, Stored
  <2>. QED  BY <2>1, <2>2
<1>. QED  BY <1>1, <1>2

\* a removal all but the one of its uuid,
LEMMA RemoveStored ==
    ASSUME StoreType, StoreOnce, NEW u \in Uuids, remove_agreement(u), NEW w, NEW h
    PROVE  Stored(w, h)' <=> Stored(w, h) /\ w # u
<1>1. Stored(w, h)' => Stored(w, h) /\ w # u
  BY RemoveAgreementOnce DEF From, Lacks, Stored
<1>2. ASSUME Stored(w, h), w # u PROVE Stored(w, h)'
  <2>1. CASE ~Holds(u)
    BY <1>2, <2>1 DEF remove_agreement, Stored
  <2>2. CASE Holds(u)
    <3>1. Slot(u) \in DOMAIN ecdh_store /\ ecdh_store[Slot(u)].uuid = u
      BY <2>2, SlotInDomain
    <3>2. KeptBut(ecdh_store, ecdh_store', Slot(u))
      BY <2>2, <3>1, RemoveKeeps DEF StoreType, remove_agreement
    <3>. QED  BY <1>2, <3>1, <3>2 DEF KeptBut, Stored
  <2>. QED  BY <2>1, <2>2
<1>. QED  BY <1>1, <1>2

\* The uuids a store gives up for a new entry: one if it is full.
GivenUp(over) ==
    \/ over = {} /\ Len(ecdh_store) # StoreSize
    \/ \E v \in Uuids : over = {v} /\ Holds(v) /\ Len(ecdh_store) = StoreSize

\* Agreement c is stored under u, and the ones of over are gone.
StoredFor(u, c, over) ==
    \A w, h : Stored(w, h)' <=> (w = u /\ h = c) \/ (Stored(w, h) /\ w \notin over)

\* and an insert adds one; a full store gives up one for it.
LEMMA InsertStored ==
    ASSUME StoreType, StoreOnce, NEW u \in Uuids, NEW c \in Calls,
           insert_new_agreement(u, c, TRUE)
    PROVE  /\ ~Holds(u)
           /\ \E over \in SUBSET Uuids : GivenUp(over) /\ StoredFor(u, c, over)
<1>. DEFINE e == [uuid |-> u, secret |-> c]
<1>1. e \in Agreement /\ e.uuid = u /\ e.secret = c
  BY DEF Agreement
<1>2. ~Holds(u) /\ ecdh_store' = <<e>> \o Room
  BY DEF insert_new_agreement
<1>3. /\ ecdh_store \in Seq(Agreement) /\ Len(ecdh_store) \in Nat /\ Len(ecdh_store) <= StoreSize
      /\ StoreSize \in Nat \ {0} /\ OnceIn(ecdh_store)
      /\ \A i \in DOMAIN ecdh_store : ecdh_store[i] \in Agreement
  BY StoreSizeAssumption, LenProperties, ElementOfSeq DEF StoreType, StoreOnce
<1>. HIDE DEF e
<1>4. ASSUME Room \in Seq(Agreement), NEW w, NEW h
      PROVE  Stored(w, h)' <=> \/ w = u /\ h = c
                               \/ \E i \in DOMAIN Room : Room[i].uuid = w /\ Room[i].secret = h
  <2>1. /\ Adds(ecdh_store', e, Room) /\ Has(ecdh_store', e)
        /\ \A k \in DOMAIN Room : Has(ecdh_store', Room[k])
    BY <1>1, <1>2, <1>4, PutKeeps
  <2>. QED  BY <1>1, <2>1 DEF Adds, Has, Stored
<1>5. CASE Len(ecdh_store) # StoreSize
  <2>1. Room = ecdh_store
    BY <1>3, <1>5 DEF Room
  <2>2. GivenUp({}) /\ StoredFor(u, c, {})
    BY <1>3, <1>4, <1>5, <2>1 DEF Stored, GivenUp, StoredFor
  <2>. QED  BY <1>2, <2>2
<1>6. CASE Len(ecdh_store) = StoreSize
  <2>. DEFINE n == Len(ecdh_store)
              v == ecdh_store[n].uuid
  <2>1. Room = Front(ecdh_store) /\ ecdh_store # <<>>
    BY <1>3, <1>6, EmptySeq DEF Room
  <2>2. n \in DOMAIN ecdh_store /\ KeptBut(ecdh_store, Room, n) /\ Lacks(Room, v)
    BY <1>3, <2>1, FrontKeeps
  <2>3. v \in Uuids /\ Holds(v)
    BY <1>3, <2>2 DEF Agreement, Holds
  <2>4. Room \in Seq(Agreement) /\ From(Room, ecdh_store)
    BY <1>3, <2>1, FrontOnce
  <2>5. \A w, h : (\E i \in DOMAIN Room : Room[i].uuid = w /\ Room[i].secret = h)
                  <=> Stored(w, h) /\ w # v
    BY <1>3, <2>2, <2>4 DEF KeptBut, From, Lacks, Stored
  <2>. HIDE DEF n, v
  <2>6. StoredFor(u, c, {v})
    BY <1>4, <2>4, <2>5 DEF StoredFor
  <2>7. GivenUp({v}) /\ {v} \in SUBSET Uuids
    BY <1>6, <2>3 DEF GivenUp
  <2>. QED  BY <1>2, <2>6, <2>7
<1>. QED  BY <1>5, <1>6

----------------------------------------------------------------------------
(* The store implements Sessions *)

\* The answers of a hello that made an agreement.
Welcomes == {"attested", "unattested"}

\* A hello has its good answer when it comes to the store, and no other handler
\* has one under way.
ReplyFits(c) ==
    /\ calls[c].pc = "insert" => calls[c].reply \in Welcomes
    /\ calls[c].pc \in {"idle", "attest"} \cup SubmitAwaits => calls[c].reply \notin Welcomes
    /\ calls[c].pc = "send" => calls[c].reply = "accepted"

\* An agreement is stored under the uuid its hello was made for.
StoredInserted ==
    \A u \in Uuids, h \in Calls : Stored(u, h) => Inserted(h) /\ calls[h].uuid = u

SessionInv ==
    RpcTypes /\ StoreOnce /\ StoredInserted /\ \A c \in Calls : ReplyFits(c)

\* What a step does to the agreements: a hello makes its own, the handler of a
\* submission ends the one of its uuid, or they stay, and no hello comes to be
\* answered.
AgreementMoves ==
    \/ \E c \in Calls :
          LET u == calls[c].uuid
          IN  /\ u \in Uuids /\ At(c, "insert") /\ calls'[c].pc = "replied"
              /\ calls'[c].uuid = u /\ calls'[c].reply = calls[c].reply
              /\ insert_new_agreement(u, c, TRUE)
              /\ \A h \in Calls : Inserted(h)' <=> Inserted(h) \/ h = c
    \/ \E c \in Calls :
          LET u == calls[c].uuid
          IN  /\ u \in Uuids /\ At(c, "remove") /\ calls'[c].pc = "replied"
              /\ remove_agreement(u)
              /\ \A h \in Calls : Inserted(h)' <=> Inserted(h)
    \/ /\ \A w, h : Stored(w, h)' <=> Stored(w, h)
       /\ \A h \in Calls : Inserted(h)' <=> Inserted(h)

\* Every step of the handlers is one of these, seen from the agreements.
LEMMA AgreementsMove ==
    ASSUME SessionInv, [RpcNext]_rpcVars
    PROVE  AgreementMoves
<1>0. /\ RpcMoves /\ CallsType /\ StoreType /\ StoreOnce
      /\ \A c \in Calls : ReplyFits(c)
  BY RpcStep DEF SessionInv, RpcTypes
<1>1. CASE UNCHANGED <<ecdh_store, calls>>
  BY <1>1 DEF AgreementMoves, Stored, Inserted, Answered, At
<1>2. ASSUME NEW c \in Calls, CallMoves(c) PROVE AgreementMoves
  <2>. DEFINE u == calls[c].uuid
  <2>0. /\ \A d \in Calls \ {c} : calls'[d] = calls[d]
        /\ ReplyFits(c)
        /\ calls[c].pc \in Awaits => u \in Uuids
    BY <1>0, <1>2 DEF CallMoves, CallsType
  <2>1. ASSUME Inserted(c)' <=> Inserted(c)
        PROVE  \A h \in Calls : Inserted(h)' <=> Inserted(h)
    BY <2>0, <2>1 DEF Inserted, Answered, At
  <2>2. ASSUME ecdh_store' = ecdh_store, Inserted(c)' <=> Inserted(c) PROVE AgreementMoves
    BY <2>1, <2>2 DEF AgreementMoves, Stored
  <2>3. CASE UNCHANGED ecdh_store /\ ~At(c, "insert")
    <3>1. Inserted(c)' <=> Inserted(c)
      BY <1>2, <2>0, <2>3
      DEF CallMoves, Turns, Refusals, Inserted, Answered, At, ReplyFits, Welcomes, Verdict, After,
          Awaits, HelloAwaits, SubmitAwaits
    <3>. QED  BY <2>2, <2>3, <3>1
  <2>4. ASSUME At(c, "insert"), calls'[c].pc = "dropped", UNCHANGED ecdh_store
        PROVE  AgreementMoves
    BY <2>2, <2>4 DEF Inserted, Answered, At
  <2>5. ASSUME NEW ok \in BOOLEAN, insert_new_agreement(u, c, ok),
               Turns(c, "insert", "replied", IF ok THEN calls[c].reply ELSE "UuidExists")
        PROVE  AgreementMoves
    <3>1. CASE ok = FALSE
      <4>1. ecdh_store' = ecdh_store /\ ~Inserted(c) /\ ~Inserted(c)'
        BY <2>5, <3>1 DEF insert_new_agreement, Turns, Inserted, Answered, At
      <4>. QED  BY <2>2, <4>1
    <3>2. CASE ok = TRUE
      <4>1. /\ calls'[c].pc = "replied" /\ calls'[c].reply = calls[c].reply /\ calls'[c].uuid = u
            /\ At(c, "insert") /\ calls[c].reply \in Welcomes /\ u \in Uuids
        BY <2>0, <2>5, <3>2 DEF Turns, Same, At, ReplyFits, Awaits, HelloAwaits
      <4>2. insert_new_agreement(u, c, TRUE)
        BY <2>5, <3>2
      <4>3. \A h \in Calls : Inserted(h)' <=> Inserted(h) \/ h = c
        BY <2>0, <4>1 DEF Inserted, Answered, At, Welcomes
      <4>. QED  BY <4>1, <4>2, <4>3 DEF AgreementMoves
    <3>. QED  BY <3>1, <3>2
  <2>6. ASSUME At(c, "lookup"), get_shared_secret(u), calls'[c].pc \in {"create", "remove"}
        PROVE  AgreementMoves
    <3>1. u \in Uuids
      BY <2>0, <2>6 DEF At, Awaits, SubmitAwaits
    <3>. HIDE DEF u
    <3>2. \A w, h : Stored(w, h)' <=> Stored(w, h)
      BY <1>0, <2>6, <3>1, GetStored
    <3>3. \A h \in Calls : Inserted(h)' <=> Inserted(h)
      BY <2>1, <2>6 DEF Inserted, Answered, At
    <3>. QED  BY <3>2, <3>3 DEF AgreementMoves
  <2>7. ASSUME remove_agreement(u), Turns(c, "remove", "replied", calls[c].reply)
        PROVE  AgreementMoves
    <3>1. u \in Uuids /\ At(c, "remove") /\ calls'[c].pc = "replied"
      BY <2>0, <2>7 DEF Turns, At, Awaits, SubmitAwaits
    <3>2. \A h \in Calls : Inserted(h)' <=> Inserted(h)
      BY <2>0, <2>1, <2>7 DEF Turns, Inserted, Answered, At, ReplyFits, SubmitAwaits, Welcomes
    <3>. QED  BY <2>7, <3>1, <3>2 DEF AgreementMoves
  <2>8. calls[c].pc = "insert" \/ UNCHANGED ecdh_store \/ calls[c].pc \in {"lookup", "remove"}
    BY <1>2 DEF CallMoves, At, Turns
  <2>9. CASE At(c, "insert")
    BY <1>2, <2>4, <2>5, <2>9 DEF CallMoves, Turns, At
  <2>10. CASE At(c, "lookup") /\ ecdh_store' # ecdh_store
    <3>1. get_shared_secret(u) /\ calls'[c].pc \in {"create", "remove"}
      BY <1>2, <2>10 DEF CallMoves, Turns, At, After
    <3>. QED  BY <2>6, <2>10, <3>1
  <2>11. CASE At(c, "remove") /\ ecdh_store' # ecdh_store
    BY <1>2, <2>7, <2>11 DEF CallMoves, Turns, At
  <2>. QED  BY <2>3, <2>8, <2>9, <2>10, <2>11 DEF At
<1>. QED  BY <1>0, <1>1, <1>2 DEF RpcMoves

\* At first nobody has said hello,
LEMMA SessionInvInit == RpcAloneInit => SessionInv
<1>. SUFFICES ASSUME RpcAloneInit PROVE SessionInv
  OBVIOUS
<1>1. RpcTypes /\ ecdh_store = <<>>
  BY RpcTypesInit DEF RpcAloneInit, RpcInit, StoreInit
<1>2. StoreOnce /\ StoredInserted
  BY <1>1 DEF StoreOnce, OnceIn, StoredInserted, Stored
<1>3. \A c \in Calls : ReplyFits(c)
  BY DEF RpcAloneInit, RpcInit, IdleCall, ReplyFits, Welcomes
<1>. QED  BY <1>1, <1>2, <1>3 DEF SessionInv

\* and every step keeps the agreements under their uuids.
LEMMA SessionInvStep ==
    ASSUME SessionInv, [RpcNext]_rpcVars
    PROVE  SessionInv'
<1>0. /\ RpcTypes' /\ RpcMoves /\ AgreementMoves /\ StoreType /\ CallsType /\ StoreOnce
      /\ StoredInserted /\ \A c \in Calls : ReplyFits(c)
  BY RpcStep, AgreementsMove DEF SessionInv, RpcTypes
<1>1. ASSUME NEW c \in Calls PROVE ReplyFits(c)'
  <2>1. CASE CallMoves(c)
    BY <1>0, <2>1
    DEF CallMoves, Turns, Refusals, At, ReplyFits, Welcomes, Verdict, After, Awaits, HelloAwaits,
        SubmitAwaits
  <2>2. CASE calls'[c] = calls[c]
    BY <1>0, <2>2 DEF ReplyFits
  <2>. QED  BY <1>0, <2>1, <2>2 DEF RpcMoves, CallMoves
<1>2. StoreOnce'
  <2>1. ASSUME NEW c \in Calls, CallMoves(c) PROVE StoreOnce'
    <3>. DEFINE u == calls[c].uuid
    <3>1. calls[c].pc \in Awaits => u \in Uuids
      BY <1>0 DEF CallsType
    <3>2. \/ UNCHANGED ecdh_store
          \/ u \in Uuids /\ \E ok \in BOOLEAN : insert_new_agreement(u, c, ok)
          \/ u \in Uuids /\ get_shared_secret(u)
          \/ u \in Uuids /\ remove_agreement(u)
      BY <2>1, <3>1 DEF CallMoves, Turns, At, Awaits, HelloAwaits, SubmitAwaits
    <3>. HIDE DEF u
    <3>. QED  BY <1>0, <3>2, InsertOnce, GetOnce, RemoveAgreementOnce DEF StoreOnce
  <2>. QED  BY <1>0, <2>1 DEF RpcMoves, StoreOnce
<1>3. ASSUME NEW h \in Calls, Inserted(h) PROVE calls'[h] = calls[h]
  BY <1>0, <1>3
  DEF RpcMoves, CallMoves, Turns, Inserted, Answered, At, Awaits, HelloAwaits, SubmitAwaits
<1>4. ASSUME NEW w \in Uuids, NEW h \in Calls, Stored(w, h)'
      PROVE  Inserted(h)' /\ calls'[h].uuid = w
  <2>1. CASE Stored(w, h)
    <3>1. Inserted(h) /\ calls[h].uuid = w
      BY <1>0, <2>1 DEF StoredInserted
    <3>2. calls'[h] = calls[h]
      BY <1>3, <3>1
    <3>. QED  BY <3>1, <3>2 DEF Inserted, Answered, At
  <2>2. CASE ~Stored(w, h)
    <3>1. PICK c \in Calls : /\ calls[c].uuid \in Uuids /\ calls'[c].uuid = calls[c].uuid
                             /\ insert_new_agreement(calls[c].uuid, c, TRUE)
                             /\ \A g \in Calls : Inserted(g)' <=> Inserted(g) \/ g = c
      <4>1. ASSUME NEW u \in Uuids, remove_agreement(u) PROVE Stored(w, h)
        BY <1>0, <1>4, <4>1, RemoveStored
      <4>. QED  BY <1>0, <1>4, <2>2, <4>1 DEF AgreementMoves
    <3>. DEFINE u == calls[c].uuid
    <3>2. u \in Uuids /\ insert_new_agreement(u, c, TRUE)
      BY <3>1
    <3>. HIDE DEF u
    <3>3. w = u /\ h = c
      BY <1>0, <1>4, <2>2, <3>2, InsertStored DEF StoredFor
    <3>. QED  BY <3>1, <3>3 DEF u
  <2>. QED  BY <2>1, <2>2
<1>5. StoredInserted'
  BY <1>4 DEF StoredInserted
<1>. QED  BY <1>0, <1>1, <1>2, <1>5 DEF SessionInv

\* The secret a list holds for a uuid, and the one the store holds.
SecretIn(s, u) ==
    IF \E i \in DOMAIN s : s[i].uuid = u
    THEN s[CHOOSE i \in DOMAIN s : s[i].uuid = u].secret ELSE None

\* In a store with one agreement per uuid, looking a uuid up finds its agreement.
LEMMA SecretFound ==
    ASSUME NEW s \in Seq(Agreement), OnceIn(s), NEW u
    PROVE  /\ \A h \in Calls : SecretIn(s, u) = h <=>
                 \E i \in DOMAIN s : s[i].uuid = u /\ s[i].secret = h
           /\ SecretIn(s, u) \in Calls \cup {None}
<1>0. \A i \in DOMAIN s : s[i].secret \in Calls
  <2>1. \A i \in DOMAIN s : s[i] \in Agreement
    BY LenProperties, ElementOfSeq
  <2>. QED  BY <2>1 DEF Agreement
<1>1. CASE \E i \in DOMAIN s : s[i].uuid = u
  <2>. DEFINE k == CHOOSE i \in DOMAIN s : s[i].uuid = u
  <2>1. k \in DOMAIN s /\ s[k].uuid = u
    BY <1>1
  <2>2. SecretIn(s, u) = s[k].secret
    BY <1>1 DEF SecretIn
  <2>. HIDE DEF k
  <2>3. \A i \in DOMAIN s : s[i].uuid = u => i = k
    BY <2>1 DEF OnceIn
  <2>. QED  BY <1>0, <2>1, <2>2, <2>3
<1>2. CASE ~\E i \in DOMAIN s : s[i].uuid = u
  <2>1. SecretIn(s, u) = None
    BY <1>2 DEF SecretIn
  <2>. QED  BY <1>2, <2>1, CommonAssumption
<1>. QED  BY <1>1, <1>2

\* What the store holds under a uuid, before and after a step.
Secrets(u) ==
    /\ \A h \in Calls : SharedSecret(u) = h <=> Stored(u, h)
    /\ SharedSecret(u) \in Calls \cup {None}

\* SharedSecret says which agreements are stored, before and after a step.
LEMMA SecretsKnown ==
    /\ StoreType /\ StoreOnce => \A u : Secrets(u)
    /\ (StoreType /\ StoreOnce)' => \A u : Secrets(u)'
<1>1. ASSUME StoreType, StoreOnce, NEW u PROVE Secrets(u)
  <2>1. SharedSecret(u) = SecretIn(ecdh_store, u)
    BY DEF SharedSecret, Holds, Slot, SecretIn
  <2>. QED  BY <1>1, <2>1, SecretFound DEF StoreType, StoreOnce, Secrets, Stored
<1>2. ASSUME StoreType', StoreOnce', NEW u PROVE Secrets(u)'
  <2>1. SharedSecret(u)' = SecretIn(ecdh_store', u)
    BY DEF SharedSecret, Holds, Slot, SecretIn
  <2>. QED  BY <1>2, <2>1, SecretFound DEF StoreType, StoreOnce, Secrets, Stored
<1>. QED  BY <1>1, <1>2

\* There are as many sessions as entries.
LEMMA SessionCount ==
    ASSUME StoreType, StoreOnce
    PROVE  Cardinality({u \in Uuids : SharedSecret(u) # None}) = Len(ecdh_store)
<1>. DEFINE n == Len(ecdh_store)
            L == {u \in Uuids : SharedSecret(u) # None}
            f == [i \in 1..n |-> ecdh_store[i].uuid]
<1>0. /\ n \in Nat /\ DOMAIN ecdh_store = 1..n
      /\ \A i \in 1..n : ecdh_store[i].uuid \in Uuids /\ ecdh_store[i].secret \in Calls
  <2>1. n \in Nat /\ DOMAIN ecdh_store = 1..n /\ \A i \in 1..n : ecdh_store[i] \in Agreement
    BY LenProperties, ElementOfSeq DEF StoreType
  <2>. QED  BY <2>1 DEF Agreement
<1>1. \A u : SharedSecret(u) # None <=> \E i \in 1..n : ecdh_store[i].uuid = u
  <2>1. \A u : Secrets(u)
    BY SecretsKnown
  <2>. QED  BY <1>0, <2>1, CommonAssumption DEF Secrets, Stored
<1>2. f \in Bijection(1..n, L)
  <2>1. f \in [1..n -> L]
    BY <1>0, <1>1
  <2>2. \A i, j \in 1..n : f[i] = f[j] => i = j
    BY <1>0 DEF StoreOnce, OnceIn
  <2>3. \A u \in L : \E i \in 1..n : f[i] = u
    BY <1>1
  <2>. QED  BY <2>1, <2>2, <2>3 DEF Bijection, Injection, Surjection, IsInjective
<1>. HIDE DEF n, L, f
<1>3. IsFiniteSet(1..n) /\ Cardinality(1..n) = n
  BY <1>0, FS_Interval
<1>4. ExistsBijection(1..n, L)
  BY <1>2 DEF ExistsBijection
<1>5. Cardinality(L) = Cardinality(1..n)
  BY <1>3, <1>4, FS_Bijection
<1>. QED  BY <1>3, <1>5 DEF L, n

\* The agreements that are over.
Spent == {h \in Calls : Inserted(h) /\ \A i \in DOMAIN ecdh_store : ecdh_store[i].secret # h}

\* An agreement is over when no uuid's lookup finds it, before and after a step.
LEMMA SpentSecrets ==
    ASSUME SessionInv, [RpcNext]_rpcVars
    PROVE  /\ Spent = {h \in Calls : Inserted(h) /\ \A u \in Uuids : SharedSecret(u) # h}
           /\ Spent' = {h \in Calls : Inserted(h)' /\ \A u \in Uuids : SharedSecret(u)' # h}
<1>1. StoreType /\ StoreOnce /\ StoreType' /\ StoreOnce'
  BY SessionInvStep DEF SessionInv, RpcTypes
<1>2. \A u : Secrets(u) /\ Secrets(u)'
  BY <1>1, SecretsKnown
<1>3. /\ \A i \in DOMAIN ecdh_store : ecdh_store[i].uuid \in Uuids
      /\ \A i \in DOMAIN ecdh_store' : ecdh_store'[i].uuid \in Uuids
  <2>1. /\ \A i \in DOMAIN ecdh_store : ecdh_store[i] \in Agreement
        /\ \A i \in DOMAIN ecdh_store' : ecdh_store'[i] \in Agreement
    BY <1>1, LenProperties, ElementOfSeq DEF StoreType
  <2>. QED  BY <2>1 DEF Agreement
<1>4. \A h \in Calls : (\A i \in DOMAIN ecdh_store : ecdh_store[i].secret # h)
                       <=> \A u \in Uuids : SharedSecret(u) # h
  BY <1>2, <1>3 DEF Secrets, Stored
<1>5. \A h \in Calls : (\A i \in DOMAIN ecdh_store' : ecdh_store'[i].secret # h)
                       <=> \A u \in Uuids : SharedSecret(u)' # h
  BY <1>2, <1>3 DEF Secrets, Stored
<1>. QED  BY <1>4, <1>5 DEF Spent

\* Sessions counts as this module does.
LEMMA CardinalitySame == \A S : Agreements!Cardinality(S) = Cardinality(S)
BY Zenon DEF Agreements!Cardinality, Cardinality

\* A hello that makes an agreement opens a session,
LEMMA InsertOpens ==
    ASSUME SessionInv, [RpcNext]_rpcVars, NEW c \in Calls, NEW u \in Uuids, calls[c].uuid = u,
           At(c, "insert"), insert_new_agreement(u, c, TRUE),
           \A h \in Calls : Inserted(h)' <=> Inserted(h) \/ h = c
    PROVE  Agreements!Open(u, c)
<1>. DEFINE L == {w \in Uuids : SharedSecret(w) # None}
<1>0. /\ StoreType /\ StoreOnce /\ StoredInserted
      /\ (\A w : Secrets(w) /\ Secrets(w)')
      /\ Spent = {h \in Calls : Inserted(h) /\ \A w \in Uuids : SharedSecret(w) # h}
      /\ Spent' = {h \in Calls : Inserted(h)' /\ \A w \in Uuids : SharedSecret(w)' # h}
  BY SessionInvStep, SecretsKnown, SpentSecrets DEF SessionInv, RpcTypes
<1>1. ~Holds(u) /\ \E over \in SUBSET Uuids : GivenUp(over) /\ StoredFor(u, c, over)
  BY <1>0, InsertStored
<1>2. PICK over \in SUBSET Uuids : GivenUp(over) /\ StoredFor(u, c, over)
  BY <1>1
<1>3. SharedSecret(u) = None /\ ~Inserted(c)
  BY <1>1 DEF SharedSecret, Inserted, Answered, At
<1>4. \A w \in Uuids : SharedSecret(w) # c
  BY <1>0, <1>3 DEF Secrets, StoredInserted
<1>5. \A w \in Uuids : SharedSecret(w)' = IF w = u THEN c
                                          ELSE IF w \in over THEN None ELSE SharedSecret(w)
  <2>1. TAKE w \in Uuids
  <2>2. \A h \in Calls : SharedSecret(w)' = h <=>
             (w = u /\ h = c) \/ (Stored(w, h) /\ w \notin over)
    BY <1>0, <1>2 DEF Secrets, StoredFor
  <2>3. \A h \in Calls : SharedSecret(w) = h <=> Stored(w, h)
    BY <1>0 DEF Secrets
  <2>4. SharedSecret(w) \in Calls \cup {None} /\ SharedSecret(w)' \in Calls \cup {None}
    BY <1>0 DEF Secrets
  <2>. QED  BY <1>3, <2>2, <2>3, <2>4, CommonAssumption
<1>6. over \subseteq L
  <2>1. ASSUME NEW v \in Uuids, Holds(v) PROVE SharedSecret(v) # None
    <3>1. PICK i \in DOMAIN ecdh_store : ecdh_store[i].uuid = v
      BY <2>1 DEF Holds
    <3>2. ecdh_store[i] \in Agreement
      BY <1>0, LenProperties, ElementOfSeq DEF StoreType
    <3>3. ecdh_store[i].secret \in Calls /\ Stored(v, ecdh_store[i].secret)
      BY <3>1, <3>2 DEF Agreement, Stored
    <3>. QED  BY <1>0, <3>3, CommonAssumption DEF Secrets
  <2>. QED  BY <1>2, <2>1 DEF GivenUp
<1>7. Cardinality(over) = IF Cardinality(L) = StoreSize THEN 1 ELSE 0
  <2>1. Cardinality(L) = Len(ecdh_store)
    BY <1>0, SessionCount
  <2>2. Cardinality({}) = 0 /\ \A v : Cardinality({v}) = 1
    BY FS_EmptySet, FS_Singleton
  <2>. HIDE DEF L
  <2>. QED  BY <1>2, <2>1, <2>2 DEF GivenUp
<1>8. [w \in Uuids |-> SharedSecret(w)'] =
         [w \in Uuids |-> IF w = u THEN c ELSE IF w \in over THEN None ELSE SharedSecret(w)]
  BY <1>5
<1>9. Spent' = Spent \cup {SharedSecret(w) : w \in over}
  <2>1. ASSUME NEW h \in Spent' PROVE h \in Spent \cup {SharedSecret(w) : w \in over}
    <3>1. h \in Calls /\ Inserted(h)' /\ \A w \in Uuids : SharedSecret(w)' # h
      BY <1>0, <2>1
    <3>2. h # c /\ Inserted(h)
      BY <1>5, <3>1
    <3>3. \A w \in Uuids : w \in over \/ SharedSecret(w) # h
      BY <1>3, <1>5, <3>1, CommonAssumption
    <3>. QED  BY <1>0, <3>1, <3>2, <3>3
  <2>2. ASSUME NEW h \in Spent PROVE h \in Spent'
    <3>1. h \in Calls /\ Inserted(h) /\ \A w \in Uuids : SharedSecret(w) # h
      BY <1>0, <2>2
    <3>2. h # c /\ h # None
      BY <1>3, <3>1, CommonAssumption
    <3>3. \A w \in Uuids : SharedSecret(w)' # h
      BY <1>5, <3>1, <3>2
    <3>. QED  BY <1>0, <3>1, <3>3
  <2>3. ASSUME NEW w \in over PROVE SharedSecret(w) \in Spent'
    <3>. DEFINE h == SharedSecret(w)
    <3>1. w \in Uuids /\ h \in Calls /\ w # u
      BY <1>0, <1>3, <1>6, <2>3 DEF Secrets
    <3>2. Inserted(h) /\ calls[h].uuid = w
      BY <1>0, <3>1 DEF Secrets, StoredInserted
    <3>. HIDE DEF h
    <3>3. ASSUME NEW v \in Uuids, SharedSecret(v) = h PROVE v = w
      BY <1>0, <3>1, <3>2, <3>3 DEF Secrets, StoredInserted
    <3>4. h # c /\ h # None
      BY <1>3, <3>1, <3>2, CommonAssumption
    <3>5. \A v \in Uuids : SharedSecret(v)' # h
      BY <1>5, <2>3, <3>3, <3>4
    <3>6. h \in Spent'
      BY <1>0, <3>1, <3>2, <3>5
    <3>. QED  BY <3>6 DEF h
  <2>. QED  BY <2>1, <2>2, <2>3
<1>10. c \notin Spent
  BY <1>3 DEF Spent
<1>11. Agreements!Live = L
  BY DEF Agreements!Live
<1>. DEFINE session == [w \in Uuids |-> SharedSecret(w)]
<1>12. session[u] = None /\ \A m \in Uuids : session[m] # c
  BY <1>3, <1>4
<1>13. session' = [m \in Uuids |-> IF m = u THEN c ELSE IF m \in over THEN None ELSE session[m]]
  BY <1>8
<1>14. {SharedSecret(m) : m \in over} = {session[m] : m \in over}
  OBVIOUS
<1>15. over \in SUBSET Agreements!Live
  BY <1>6, <1>11
<1>16. Spent' = Spent \cup {session[m] : m \in over}
  BY <1>9, <1>14
<1>17. Agreements!Cardinality(over) =
          IF Agreements!Cardinality(Agreements!Live) = StoreSize THEN 1 ELSE 0
  BY <1>7, <1>11, CardinalitySame
<1>. HIDE DEF L
<1>. QED  BY <1>10, <1>12, <1>13, <1>15, <1>16, <1>17, Zenon DEF Agreements!Open, Spent

\* the handler of a submission closes the one of its uuid, if there is one,
LEMMA RemoveCloses ==
    ASSUME SessionInv, [RpcNext]_rpcVars, NEW u \in Uuids, remove_agreement(u),
           SharedSecret(u) # None, \A h \in Calls : Inserted(h)' <=> Inserted(h)
    PROVE  Agreements!Close(u)
<1>. DEFINE s == SharedSecret(u)
            session == [w \in Uuids |-> SharedSecret(w)]
<1>0. /\ StoreType /\ StoreOnce /\ StoredInserted
      /\ (\A w : Secrets(w) /\ Secrets(w)')
      /\ Spent = {h \in Calls : Inserted(h) /\ \A w \in Uuids : SharedSecret(w) # h}
      /\ Spent' = {h \in Calls : Inserted(h)' /\ \A w \in Uuids : SharedSecret(w)' # h}
  BY SessionInvStep, SecretsKnown, SpentSecrets DEF SessionInv, RpcTypes
<1>1. \A w \in Uuids : SharedSecret(w)' = IF w = u THEN None ELSE SharedSecret(w)
  <2>1. TAKE w \in Uuids
  <2>2. \A h : Stored(w, h)' <=> Stored(w, h) /\ w # u
    BY <1>0, RemoveStored
  <2>3. /\ \A h \in Calls : SharedSecret(w) = h <=> Stored(w, h)
        /\ \A h \in Calls : SharedSecret(w)' = h <=> Stored(w, h)'
        /\ SharedSecret(w) \in Calls \cup {None} /\ SharedSecret(w)' \in Calls \cup {None}
    BY <1>0 DEF Secrets
  <2>. QED  BY <2>2, <2>3, CommonAssumption
<1>2. s \in Calls /\ Inserted(s) /\ \A w \in Uuids : SharedSecret(w) = s => w = u
  BY <1>0 DEF Secrets, StoredInserted
<1>3. Spent' = Spent \cup {s}
  <2>1. \A w \in Uuids : SharedSecret(w)' # s
    BY <1>1, <1>2, CommonAssumption
  <2>2. \A h \in Calls : (\A w \in Uuids : SharedSecret(w)' # h) =>
                         h = s \/ \A w \in Uuids : SharedSecret(w) # h
    BY <1>1
  <2>3. \A h \in Calls : (\A w \in Uuids : SharedSecret(w) # h) =>
                         \A w \in Uuids : SharedSecret(w)' # h
    BY <1>1, CommonAssumption
  <2>. HIDE DEF s
  <2>. QED  BY <1>0, <1>2, <2>1, <2>2, <2>3
<1>4. session' = [session EXCEPT ![u] = None]
  BY <1>1
<1>5. u \in Agreements!Live /\ s = session[u]
  BY DEF Agreements!Live
<1>. QED  BY <1>3, <1>4, <1>5, Zenon DEF Agreements!Close, Spent

\* and nothing else is seen of a step.
LEMMA SessionsStutter ==
    ASSUME SessionInv, [RpcNext]_rpcVars, \A w \in Uuids : SharedSecret(w)' = SharedSecret(w),
           \A h \in Calls : Inserted(h)' <=> Inserted(h)
    PROVE  UNCHANGED Agreements!sessionVars
<1>1. Spent' = Spent
  BY SpentSecrets
<1>2. [w \in Uuids |-> SharedSecret(w)]' = [w \in Uuids |-> SharedSecret(w)]
  OBVIOUS
<1>. QED  BY <1>1, <1>2, Zenon DEF Agreements!sessionVars, Spent

\* As long as the process lives, the agreements of the store, for any number of
\* clients and any size of the store, are sessions as Sessions promises them:
\* none takes the place of another, none is given up early but for want of
\* room, and none comes back.
THEOREM AgreementsAreSessionsCorrect == RpcSpec => AgreementsAreSessions
<1>1. RpcAloneInit => Agreements!SessionsInit
  <2>. SUFFICES ASSUME RpcAloneInit PROVE Agreements!SessionsInit
    OBVIOUS
  <2>1. ecdh_store = <<>> /\ \A h \in Calls : ~Inserted(h)
    BY DEF RpcAloneInit, RpcInit, StoreInit, IdleCall, Inserted, Answered, At
  <2>2. \A u \in Uuids : SharedSecret(u) = None
    BY <2>1 DEF SharedSecret, Holds
  <2>. QED  BY <2>1, <2>2 DEF Agreements!SessionsInit
<1>2. ASSUME SessionInv, [RpcNext]_rpcVars
      PROVE  [Agreements!SessionsNext]_(Agreements!sessionVars)
  <2>0. /\ AgreementMoves /\ StoreType /\ StoreOnce
        /\ \A w : Secrets(w) /\ Secrets(w)'
    BY <1>2, AgreementsMove, SessionInvStep, SecretsKnown DEF SessionInv, RpcTypes
  <2>1. ASSUME \A w \in Uuids, h \in Calls : Stored(w, h)' <=> Stored(w, h),
               \A h \in Calls : Inserted(h)' <=> Inserted(h)
        PROVE  UNCHANGED Agreements!sessionVars
    <3>1. \A w \in Uuids : SharedSecret(w)' = SharedSecret(w)
      BY <2>0, <2>1, CommonAssumption DEF Secrets
    <3>. QED  BY <1>2, <2>1, <3>1, SessionsStutter
  <2>2. ASSUME NEW c \in Calls, NEW u \in Uuids, calls[c].uuid = u, At(c, "insert"),
               insert_new_agreement(u, c, TRUE),
               \A h \in Calls : Inserted(h)' <=> Inserted(h) \/ h = c
        PROVE  Agreements!SessionsNext
    <3>1. Agreements!Open(u, c)
      BY <1>2, <2>2, InsertOpens
    <3>. QED  BY <3>1 DEF Agreements!SessionsNext
  <2>3. ASSUME NEW u \in Uuids, remove_agreement(u),
               \A h \in Calls : Inserted(h)' <=> Inserted(h)
        PROVE  [Agreements!SessionsNext]_(Agreements!sessionVars)
    <3>1. CASE SharedSecret(u) # None
      <4>1. Agreements!Close(u)
        BY <1>2, <2>3, <3>1, RemoveCloses
      <4>. QED  BY <4>1 DEF Agreements!SessionsNext
    <3>2. CASE SharedSecret(u) = None
      <4>1. \A h \in Calls : ~Stored(u, h)
        BY <2>0, <3>2, CommonAssumption DEF Secrets
      <4>2. \A w, h : Stored(w, h)' <=> Stored(w, h) /\ w # u
        BY <2>0, <2>3, RemoveStored
      <4>. QED  BY <2>1, <2>3, <4>1, <4>2
    <3>. QED  BY <3>1, <3>2
  <2>. QED  BY <2>0, <2>1, <2>2, <2>3 DEF AgreementMoves
<1>3. SessionInv /\ [RpcNext]_rpcVars => SessionInv'
  BY SessionInvStep
<1>. QED  BY <1>1, <1>2, <1>3, SessionInvInit, PTL
          DEF RpcSpec, AgreementsAreSessions, Agreements!SessionsSpec

----------------------------------------------------------------------------
(* A client that keeps to its session is understood *)

\* The hellos for other uuids that made an agreement; too many of them.
Others(u) == {g \in Calls : Inserted(g) /\ calls[g].uuid # u}
Crowded(u) == Cardinality(Others(u)) >= StoreSize

\* d is a submission under u.
Submitted(d, u) == calls[d].uuid = u /\ calls[d].body # None

\* An agreement is stored, was given up when the store was full, or was removed
\* by the handler of a submission, which has returned.
Accounted(h) ==
    Inserted(h) =>
        LET u == calls[h].uuid
        IN  /\ u \in Uuids
            /\ \/ Stored(u, h)
               \/ Crowded(u)
               \/ \E d \in Calls : Submitted(d, u) /\ At(d, "replied")

NotUnderstood == {"UuidNotFound", "DecryptFailed"}

\* OwnSessionUnderstood from the moment the handler decides.
Explained(c) ==
    LET u == calls[c].uuid
        h == calls[c].key
    IN  calls[c].pc \in {"remove", "replied"} /\ calls[c].reply \in NotUnderstood =>
            /\ u \in Uuids
            /\ h # None /\ calls[h].uuid = u /\ calls[c].body.form # "binary" =>
                  Crowded(u) \/ \E d \in Calls \ {c} : Submitted(d, u)

\* A client has a key from a hello that told it so.
KeyAttested(c) ==
    calls[c].key # None => calls[c].key \in Calls /\ Answered(calls[c].key, "attested")

UnderstoodInv ==
    /\ SessionInv
    /\ IsFiniteSet({g \in Calls : Inserted(g)})
    /\ \A c \in Calls : Accounted(c) /\ Explained(c) /\ KeyAttested(c)

\* Hellos and submissions are not forgotten.
LEMMA CallsKept ==
    ASSUME SessionInv, [RpcNext]_rpcVars, NEW c \in Calls
    PROVE  /\ Inserted(c) => Inserted(c)'
           /\ At(c, "replied") => calls'[c] = calls[c]
           /\ calls[c].uuid \in Uuids =>
                 /\ calls'[c].uuid = calls[c].uuid /\ calls'[c].key = calls[c].key
                 /\ calls'[c].body = calls[c].body
<1>0. RpcMoves /\ CallsType
  BY RpcStep DEF SessionInv, RpcTypes
<1>1. CASE CallMoves(c)
  BY <1>0, <1>1, CommonAssumption
  DEF CallMoves, Turns, Same, CallsType, Inserted, Answered, At, Awaits, HelloAwaits, SubmitAwaits
<1>2. CASE calls'[c] = calls[c]
  BY <1>2 DEF Inserted, Answered, At
<1>. QED  BY <1>0, <1>1, <1>2 DEF RpcMoves, CallMoves

\* At most one hello at a time is answered, so there are finitely many.
LEMMA FiniteStep ==
    ASSUME SessionInv, [RpcNext]_rpcVars, IsFiniteSet({g \in Calls : Inserted(g)})
    PROVE  IsFiniteSet({g \in Calls : Inserted(g)'})
<1>. DEFINE G == {g \in Calls : Inserted(g)}
            H == {g \in Calls : Inserted(g)'}
<1>1. AgreementMoves
  BY AgreementsMove
<1>2. H = G \/ \E c \in Calls : H = G \cup {c}
  BY <1>1 DEF AgreementMoves
<1>. HIDE DEF G, H
<1>3. IsFiniteSet(G)
  BY DEF G
<1>4. \A c : IsFiniteSet(G \cup {c})
  BY <1>3, FS_AddElement
<1>5. IsFiniteSet(H)
  BY <1>2, <1>3, <1>4
<1>. QED  BY <1>5 DEF H

\* A crowd does not get smaller.
LEMMA CrowdedStays ==
    ASSUME SessionInv, [RpcNext]_rpcVars, IsFiniteSet({g \in Calls : Inserted(g)}),
           NEW u \in Uuids, Crowded(u)
    PROVE  Crowded(u)'
<1>. DEFINE G == Others(u)
            H == {g \in Calls : Inserted(g)' /\ calls'[g].uuid # u}
            A == {g \in Calls : Inserted(g)'}
<1>1. G \subseteq H
  BY CallsKept DEF Others, Inserted, Answered
<1>2. IsFiniteSet(A) /\ H \subseteq A
  BY FiniteStep
<1>3. Others(u)' = H
  BY DEF Others
<1>. HIDE DEF G, H, A
<1>4. IsFiniteSet(H)
  BY <1>2, FS_Subset
<1>5. IsFiniteSet(G) /\ Cardinality(G) <= Cardinality(H)
  BY <1>1, <1>4, FS_Subset
<1>6. Cardinality(G) \in Nat /\ Cardinality(H) \in Nat
  BY <1>4, <1>5, FS_CardinalityType
<1>. QED  BY <1>3, <1>5, <1>6, StoreSizeAssumption DEF Crowded, G

\* When a full store gives up an agreement, there is a crowd.
LEMMA EvictionCrowds ==
    ASSUME SessionInv, [RpcNext]_rpcVars, IsFiniteSet({g \in Calls : Inserted(g)}),
           NEW c \in Calls, ~Inserted(c), Inserted(c)', Len(ecdh_store) = StoreSize,
           NEW w \in Uuids, NEW h \in Calls, Stored(w, h), calls'[c].uuid # w
    PROVE  Crowded(w)'
<1>. DEFINE n == Len(ecdh_store)
            f == [i \in 1..n |-> ecdh_store[i].secret]
            A == {f[i] : i \in 1..n}
            H == {g \in Calls : Inserted(g)' /\ calls'[g].uuid # w}
<1>0. /\ n \in Nat \ {0} /\ DOMAIN ecdh_store = 1..n
      /\ \A i \in 1..n : ecdh_store[i].uuid \in Uuids /\ ecdh_store[i].secret \in Calls
      /\ OnceIn(ecdh_store) /\ StoredInserted
  <2>1. DOMAIN ecdh_store = 1..n /\ \A i \in 1..n : ecdh_store[i] \in Agreement
    BY LenProperties, ElementOfSeq DEF SessionInv, RpcTypes, StoreType
  <2>. QED  BY <2>1, StoreSizeAssumption DEF Agreement, SessionInv, StoreOnce
<1>1. \A i \in 1..n : /\ Inserted(ecdh_store[i].secret)
                      /\ calls[ecdh_store[i].secret].uuid = ecdh_store[i].uuid
  BY <1>0 DEF StoredInserted, Stored
<1>2. f \in Bijection(1..n, A)
  <2>1. \A i, j \in 1..n : f[i] = f[j] => i = j
    BY <1>0, <1>1 DEF OnceIn
  <2>. QED  BY <2>1 DEF Bijection, Injection, Surjection, IsInjective
<1>3. /\ \A g \in A : /\ g \in Calls /\ Inserted(g)
                      /\ \E i \in 1..n :
                            g = ecdh_store[i].secret /\ calls[g].uuid = ecdh_store[i].uuid
      /\ h \in A
  BY <1>0, <1>1 DEF Stored
<1>4. \A g \in A : calls[g].uuid = w => g = h
  BY <1>0, <1>1, <1>3 DEF OnceIn, Stored
<1>5. (A \ {h}) \cup {c} \subseteq H
  <2>1. ASSUME NEW g \in A, g # h PROVE g \in H
    <3>1. g \in Calls /\ Inserted(g) /\ calls[g].uuid # w
      BY <1>3, <1>4, <2>1
    <3>2. Inserted(g)' /\ calls'[g] = calls[g]
      BY <3>1, CallsKept DEF Inserted, Answered
    <3>. QED  BY <3>1, <3>2
  <2>. QED  BY <2>1
<1>6. c \notin A
  BY <1>3
<1>7. IsFiniteSet(H)
  <2>. DEFINE B == {g \in Calls : Inserted(g)'}
  <2>1. IsFiniteSet(B) /\ H \subseteq B
    BY FiniteStep
  <2>. HIDE DEF B, H
  <2>. QED  BY <2>1, FS_Subset
<1>8. Others(w)' = H
  BY DEF Others
<1>. HIDE DEF A, H, f
<1>9. IsFiniteSet(A) /\ Cardinality(A) = n
  <2>1. IsFiniteSet(1..n) /\ Cardinality(1..n) = n
    BY <1>0, FS_Interval
  <2>2. ExistsBijection(1..n, A)
    BY <1>2 DEF ExistsBijection
  <2>. HIDE DEF n
  <2>. QED  BY <2>1, <2>2, FS_Bijection
<1>10. IsFiniteSet(A \ {h}) /\ Cardinality(A \ {h}) = n - 1
  BY <1>3, <1>9, FS_RemoveElement
<1>11. Cardinality((A \ {h}) \cup {c}) = n
  <2>. DEFINE B == A \ {h}
  <2>1. IsFiniteSet(B) /\ c \notin B /\ Cardinality(B) = n - 1
    BY <1>6, <1>10
  <2>. HIDE DEF B
  <2>2. Cardinality(B \cup {c}) = Cardinality(B) + 1
    BY <2>1, FS_AddElement
  <2>3. Cardinality(B \cup {c}) = n
    BY <1>0, <2>1, <2>2
  <2>. QED  BY <2>3 DEF B
<1>12. Cardinality((A \ {h}) \cup {c}) <= Cardinality(H)
  BY <1>5, <1>7, FS_Subset
<1>13. Cardinality(H) \in Nat
  BY <1>7, FS_CardinalityType
<1>. QED  BY <1>0, <1>8, <1>11, <1>12, <1>13 DEF Crowded

\* Every agreement stays accounted for.
LEMMA AccountedStep ==
    ASSUME UnderstoodInv, [RpcNext]_rpcVars, NEW h \in Calls
    PROVE  Accounted(h)'
<1>0. /\ SessionInv /\ IsFiniteSet({g \in Calls : Inserted(g)}) /\ Accounted(h)
      /\ AgreementMoves /\ StoreType /\ StoreOnce /\ CallsType
  BY AgreementsMove DEF UnderstoodInv, SessionInv, RpcTypes
<1>. SUFFICES ASSUME Inserted(h)' PROVE Accounted(h)'
  BY DEF Accounted
<1>1. CASE ~Inserted(h)
  <2>1. PICK c \in Calls : /\ calls[c].uuid \in Uuids /\ calls'[c].uuid = calls[c].uuid
                           /\ insert_new_agreement(calls[c].uuid, c, TRUE)
                           /\ Inserted(h)' <=> Inserted(h) \/ h = c
    BY <1>0, <1>1 DEF AgreementMoves
  <2>2. PICK u \in Uuids : u = calls[c].uuid
    BY <2>1
  <2>3. h = c /\ calls'[h].uuid = u /\ insert_new_agreement(u, c, TRUE)
    BY <1>1, <2>1, <2>2
  <2>4. Stored(u, h)'
    BY <1>0, <2>3, InsertStored DEF StoredFor
  <2>. QED  BY <2>3, <2>4 DEF Accounted
<1>2. CASE Inserted(h)
  <2>1. PICK u \in Uuids : u = calls[h].uuid
    BY <1>0, <1>2 DEF Accounted
  <2>2. calls'[h].uuid = u
    BY <1>0, <2>1, CallsKept
  <2>3. SUFFICES \/ Stored(u, h)'
                 \/ Crowded(u)'
                 \/ \E d \in Calls : Submitted(d, u)' /\ At(d, "replied")'
    BY <2>2 DEF Accounted, Crowded, Others, Submitted, Stored
  <2>4. CASE Crowded(u)
    BY <1>0, <2>4, CrowdedStays
  <2>5. ASSUME NEW d \in Calls, Submitted(d, u), At(d, "replied")
        PROVE  Submitted(d, u)' /\ At(d, "replied")'
    BY <1>0, <2>5, CallsKept DEF Submitted, At
  <2>6. CASE Stored(u, h)
    <3>1. ASSUME NEW c \in Calls, NEW w \in Uuids, w = calls[c].uuid, At(c, "insert"),
                 calls'[c].uuid = w, insert_new_agreement(w, c, TRUE), Inserted(c)'
          PROVE  Stored(u, h)' \/ Crowded(u)'
      <4>1. ~Holds(w) /\ \E over \in SUBSET Uuids : GivenUp(over) /\ StoredFor(w, c, over)
        BY <1>0, <3>1, InsertStored
      <4>2. PICK over \in SUBSET Uuids : GivenUp(over) /\ StoredFor(w, c, over)
        BY <4>1
      <4>3. u # w /\ ~Inserted(c)
        BY <2>6, <3>1, <4>1 DEF Holds, Stored, Inserted, Answered, At
      <4>4. CASE u \notin over
        BY <2>6, <4>2, <4>4 DEF StoredFor
      <4>5. CASE u \in over
        <5>1. Len(ecdh_store) = StoreSize
          BY <4>2, <4>5 DEF GivenUp
        <5>. QED  BY <1>0, <2>6, <3>1, <4>3, <5>1, EvictionCrowds
      <4>. QED  BY <4>4, <4>5
    <3>2. ASSUME NEW c \in Calls, NEW w \in Uuids, w = calls[c].uuid, At(c, "remove"),
                 calls'[c].pc = "replied", remove_agreement(w)
          PROVE  Stored(u, h)' \/ \E d \in Calls : Submitted(d, u)' /\ At(d, "replied")'
      <4>1. CASE w # u
        BY <1>0, <2>6, <3>2, <4>1, RemoveStored
      <4>2. CASE w = u
        <5>1. calls[c].body # None
          BY <1>0, <3>2, BodiesAssumption DEF CallsType, At, SubmitAwaits
        <5>2. calls'[c].uuid = u /\ calls'[c].body = calls[c].body
          BY <1>0, <3>2, <4>2, CallsKept
        <5>. QED  BY <3>2, <5>1, <5>2 DEF Submitted, At
      <4>. QED  BY <4>1, <4>2
    <3>. QED  BY <1>0, <2>6, <3>1, <3>2 DEF AgreementMoves
  <2>. QED  BY <1>0, <1>2, <2>1, <2>4, <2>5, <2>6 DEF Accounted
<1>. QED  BY <1>1, <1>2

\* Keys stay those of hellos that were answered.
LEMMA KeyStep ==
    ASSUME UnderstoodInv, [RpcNext]_rpcVars, NEW c \in Calls
    PROVE  KeyAttested(c)'
<1>0. SessionInv /\ KeyAttested(c) /\ RpcMoves /\ CallsType
  BY RpcStep DEF UnderstoodInv, SessionInv, RpcTypes
<1>1. ASSUME NEW h \in Calls, Answered(h, "attested") PROVE Answered(h, "attested")'
  BY <1>0, <1>1, CallsKept DEF Answered, At
<1>2. calls'[c].key = calls[c].key \/ calls'[c].key \in KeysKnown
  BY <1>0 DEF RpcMoves, CallMoves, Turns, Same
<1>3. CASE calls'[c].key = calls[c].key
  BY <1>0, <1>1, <1>3 DEF KeyAttested, Answered, At
<1>4. CASE calls'[c].key \in KeysKnown
  BY <1>1, <1>4 DEF KeyAttested, KeysKnown, Answered, At
<1>. QED  BY <1>2, <1>3, <1>4

\* A handler that does not understand its client has not found the agreement the
\* client used.
LEMMA ExplainedStep ==
    ASSUME UnderstoodInv, [RpcNext]_rpcVars, NEW c \in Calls
    PROVE  Explained(c)'
<1>. DEFINE u == calls[c].uuid
            h == calls[c].key
<1>0. /\ SessionInv /\ IsFiniteSet({g \in Calls : Inserted(g)}) /\ RpcMoves
      /\ StoreType /\ StoreOnce /\ CallsType /\ ReplyFits(c) /\ KeyAttested(c) /\ Explained(c)
      /\ \A g \in Calls : Accounted(g)
  BY RpcStep DEF UnderstoodInv, SessionInv, RpcTypes
<1>. SUFFICES ASSUME calls'[c].pc \in {"remove", "replied"}, calls'[c].reply \in NotUnderstood
              PROVE  Explained(c)'
  BY DEF Explained
<1>1. \/ /\ calls[c].pc \in {"remove", "replied"} /\ calls'[c].reply = calls[c].reply
      \/ /\ calls[c].pc = "lookup"
         /\ calls'[c].reply = Verdict(SharedSecret(u), h, calls[c].body)
  <2>1. CASE calls'[c] = calls[c]
    BY <2>1
  <2>2. CASE CallMoves(c)
    BY <1>0, <2>2
    DEF CallMoves, Turns, Refusals, At, ReplyFits, Welcomes, After, NotUnderstood
  <2>. QED  BY <1>0, <2>1, <2>2 DEF RpcMoves, CallMoves
<1>2. u \in Uuids
  BY <1>0, <1>1 DEF Explained, CallsType, Awaits, SubmitAwaits
<1>3. calls'[c].uuid = u /\ calls'[c].key = h /\ calls'[c].body = calls[c].body
  BY <1>0, <1>2, CallsKept
<1>4. PICK w \in Uuids : w = calls[c].uuid
  BY <1>2
<1>5. ASSUME h # None, calls'[h].uuid = w, calls[c].body.form # "binary"
      PROVE  Crowded(w)' \/ \E d \in Calls \ {c} : Submitted(d, w)'
  <2>1. h \in Calls /\ Answered(h, "attested") /\ calls[h].uuid = w
    BY <1>0, <1>4, <1>5, CallsKept DEF KeyAttested, Answered
  <2>2. Crowded(w) \/ \E d \in Calls \ {c} : Submitted(d, w)
    <3>1. CASE calls[c].pc \in {"remove", "replied"} /\ calls'[c].reply = calls[c].reply
      BY <1>0, <1>4, <1>5, <2>1, <3>1 DEF Explained
    <3>2. CASE /\ calls[c].pc = "lookup"
               /\ calls'[c].reply = Verdict(SharedSecret(u), h, calls[c].body)
      <4>1. SharedSecret(w) # h
        BY <1>4, <1>5, <3>2, CommonAssumption DEF Verdict, decrypt, NotUnderstood
      <4>2. ~Stored(w, h)
        BY <1>0, <2>1, <4>1, SecretsKnown DEF Secrets
      <4>3. Crowded(w) \/ \E d \in Calls : Submitted(d, w) /\ At(d, "replied")
        BY <1>0, <2>1, <4>2 DEF Accounted, Inserted
      <4>. QED  BY <3>2, <4>3 DEF At
    <3>. QED  BY <1>1, <3>1, <3>2
  <2>3. Crowded(w) => Crowded(w)'
    BY <1>0, CrowdedStays
  <2>4. ASSUME NEW d \in Calls, Submitted(d, w) PROVE Submitted(d, w)'
    BY <1>0, <2>4, CallsKept DEF Submitted
  <2>. QED  BY <2>2, <2>3, <2>4
<1>. QED  BY <1>2, <1>3, <1>4, <1>5 DEF Explained

\* As long as the process lives, a client that encrypts under its own agreement
\* is turned away only if somebody else submitted under its uuid, or if so many
\* others said hello that the store had to give its agreement up: no order of
\* hellos, lookups and removals of other clients loses a session.
THEOREM OwnSessionUnderstoodCorrect == RpcSpec => []OwnSessionUnderstood
<1>1. RpcAloneInit => UnderstoodInv
  <2>. SUFFICES ASSUME RpcAloneInit PROVE UnderstoodInv
    OBVIOUS
  <2>1. \A c \in Calls : calls[c] = IdleCall
    BY DEF RpcAloneInit, RpcInit
  <2>2. \A c \in Calls : ~Inserted(c)
    BY <2>1 DEF IdleCall, Inserted, Answered, At
  <2>3. {g \in Calls : Inserted(g)} = {}
    BY <2>2
  <2>4. IsFiniteSet({g \in Calls : Inserted(g)})
    BY <2>3, FS_EmptySet
  <2>5. \A c \in Calls : Accounted(c) /\ Explained(c) /\ KeyAttested(c)
    BY <2>1, <2>2 DEF IdleCall, Accounted, Explained, KeyAttested
  <2>. QED  BY <2>4, <2>5, SessionInvInit DEF UnderstoodInv
<1>2. ASSUME UnderstoodInv, [RpcNext]_rpcVars PROVE UnderstoodInv'
  <2>1. SessionInv' /\ IsFiniteSet({g \in Calls : Inserted(g)'})
    BY <1>2, SessionInvStep, FiniteStep DEF UnderstoodInv
  <2>2. \A c \in Calls : Accounted(c)' /\ Explained(c)' /\ KeyAttested(c)'
    BY <1>2, AccountedStep, ExplainedStep, KeyStep
  <2>. QED  BY <2>1, <2>2 DEF UnderstoodInv
<1>3. UnderstoodInv => OwnSessionUnderstood
  BY DEF UnderstoodInv, Explained, NotUnderstood, OwnSessionUnderstood, Answered, At, Crowded,
     Others, Submitted
<1>. QED  BY <1>1, <1>2, <1>3, PTL DEF RpcSpec
=============================================================================
