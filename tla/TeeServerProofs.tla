-------------------------- MODULE TeeServerProofs --------------------------
(***************************************************************************)
(* Proofs about the whole server, for any number of calls, uuids, circuits *)
(* and faults: its type invariant, and that jobs of one uuid never meet.   *)
(***************************************************************************)
EXTENDS TeeServer, SequenceTheorems, TLAPS

USE CommonAssumption, StoreSizeAssumption, ChannelAssumption

----------------------------------------------------------------------------
(* The store *)

\* Removing an entry of the cache, and giving up the last one, leave a
\* sequence of entries that is one shorter.
LEMMA RemoveAtType ==
    ASSUME NEW S, NEW s \in Seq(S), NEW i \in 1..Len(s)
    PROVE  RemoveAt(s, i) \in Seq(S) /\ Len(RemoveAt(s, i)) = Len(s) - 1
<1>. DEFINE a == SubSeq(s, 1, i - 1)
            b == SubSeq(s, i + 1, Len(s))
<1>0. Len(s) \in Nat /\ i \in Int /\ \A j \in 1..Len(s) : s[j] \in S
  BY LenProperties, ElementOfSeq
<1>1. a \in Seq(S) /\ Len(a) = i - 1
  BY <1>0, SubSeqProperties
<1>2. b \in Seq(S) /\ Len(b) = Len(s) - i
  BY <1>0, SubSeqProperties
<1>3. RemoveAt(s, i) = a \o b
  BY DEF RemoveAt
<1>. HIDE DEF a, b
<1>4. a \o b \in Seq(S) /\ Len(a \o b) = Len(a) + Len(b)
  BY <1>1, <1>2, ConcatProperties
<1>. QED  BY <1>0, <1>1, <1>2, <1>3, <1>4

\* The front of a list, which the LRU store keeps when it evicts.
LEMMA FrontType ==
    ASSUME NEW S, NEW s \in Seq(S), s # <<>>
    PROVE  Front(s) \in Seq(S) /\ Len(Front(s)) = Len(s) - 1
<1>1. Len(s) \in Nat \ {0} /\ \A j \in 1..Len(s) : s[j] \in S
  BY EmptySeq, ElementOfSeq
<1>2. \A n \in 0..Len(s) : SubSeq(s, 1, n) \in Seq(S) /\ Len(SubSeq(s, 1, n)) = n
  BY <1>1, SubSeqProperties
<1>3. Len(s) - 1 \in 0..Len(s)
  BY <1>1
<1>. QED  BY <1>2, <1>3, Zenon DEF Front

\* The entry Slot chooses is one of the cache.
LEMMA SlotInDomain ==
    ASSUME NEW u, Holds(u)
    PROVE  Slot(u) \in DOMAIN ecdh_store /\ ecdh_store[Slot(u)].uuid = u
BY DEF Holds, Slot

\* The part of the type invariant that is about the store ...
StoreType == ecdh_store \in Seq(Agreement) /\ Len(ecdh_store) <= StoreSize

\* ... is preserved by its three operations.
LEMMA InsertType ==
    ASSUME StoreType, NEW u \in Uuids, NEW s \in Calls, NEW ok, insert_new_agreement(u, s, ok)
    PROVE  StoreType'
<1>. DEFINE new == <<[uuid |-> u, secret |-> s]>>
<1>1. new \in Seq(Agreement) /\ Len(new) = 1
  BY DEF Agreement
<1>2. Room \in Seq(Agreement) /\ Len(Room) + 1 <= StoreSize
  <2>1. CASE Len(ecdh_store) >= StoreSize
    <3>1. ecdh_store # <<>> /\ Len(ecdh_store) \in Nat
      BY <2>1, LenProperties, EmptySeq DEF StoreType, StoreSizeAssumption
    <3>2. Front(ecdh_store) \in Seq(Agreement) /\ Len(Front(ecdh_store)) = Len(ecdh_store) - 1
      BY <3>1, FrontType DEF StoreType
    <3>. QED  BY <2>1, <3>1, <3>2 DEF Room, StoreType, StoreSizeAssumption
  <2>2. CASE ~(Len(ecdh_store) >= StoreSize)
    BY <2>2, LenProperties DEF Room, StoreType, StoreSizeAssumption
  <2>. QED  BY <2>1, <2>2
<1>. HIDE DEF new
<1>3. new \o Room \in Seq(Agreement) /\ Len(new \o Room) = Len(new) + Len(Room)
  BY <1>1, <1>2, ConcatProperties
<1>4. CASE ecdh_store' = new \o Room
  BY <1>1, <1>2, <1>3, <1>4, LenProperties DEF StoreType, StoreSizeAssumption
<1>5. CASE ecdh_store' = ecdh_store
  BY <1>5 DEF StoreType
<1>. QED  BY <1>4, <1>5 DEF insert_new_agreement, new

\* Removing and looking up keep the store within its size,
LEMMA RemoveType ==
    ASSUME StoreType, NEW u \in Uuids, remove_agreement(u)
    PROVE  StoreType'
<1>1. CASE Holds(u)
  <2>1. Slot(u) \in 1..Len(ecdh_store)
    BY <1>1, SlotInDomain, LenProperties DEF StoreType
  <2>2. /\ RemoveAt(ecdh_store, Slot(u)) \in Seq(Agreement)
        /\ Len(RemoveAt(ecdh_store, Slot(u))) = Len(ecdh_store) - 1
    BY <2>1, RemoveAtType DEF StoreType
  <2>. QED  BY <1>1, <2>1, <2>2, LenProperties DEF remove_agreement, StoreType, StoreSizeAssumption
<1>2. CASE ~Holds(u)
  BY <1>2 DEF remove_agreement, StoreType
<1>. QED  BY <1>1, <1>2

\* and a secret that is found is one that was agreed on.
LEMMA GetType ==
    ASSUME StoreType, NEW u \in Uuids, get_shared_secret(u)
    PROVE  StoreType' /\ SharedSecret(u) \in Calls \cup {None}
<1>1. CASE Holds(u)
  <2>. DEFINE entry == <<ecdh_store[Slot(u)]>>
              rest == RemoveAt(ecdh_store, Slot(u))
  <2>1. Slot(u) \in 1..Len(ecdh_store) /\ Len(ecdh_store) \in Nat
    BY <1>1, SlotInDomain, LenProperties DEF StoreType
  <2>2. ecdh_store[Slot(u)] \in Agreement
    BY <2>1, ElementOfSeq DEF StoreType
  <2>3. entry \in Seq(Agreement) /\ Len(entry) = 1
    BY <2>2
  <2>4. rest \in Seq(Agreement) /\ Len(rest) = Len(ecdh_store) - 1
    BY <2>1, RemoveAtType DEF StoreType
  <2>5. ecdh_store' = entry \o rest
    BY <1>1 DEF get_shared_secret
  <2>6. SharedSecret(u) \in Calls
    BY <1>1, <2>2 DEF SharedSecret, Agreement
  <2>. HIDE DEF entry, rest
  <2>7. entry \o rest \in Seq(Agreement) /\ Len(entry \o rest) = Len(entry) + Len(rest)
    BY <2>3, <2>4, ConcatProperties
  <2>. QED  BY <2>1, <2>3, <2>4, <2>5, <2>6, <2>7 DEF StoreType, StoreSizeAssumption
<1>2. CASE ~Holds(u)
  BY <1>2 DEF get_shared_secret, SharedSecret, StoreType
<1>. QED  BY <1>1, <1>2

----------------------------------------------------------------------------
(* Requests *)

\* The integer code of a proof type is a digit.
LEMMA CodeType ==
    ASSUME NEW t \in ProofTypes
    PROVE  into_i32[t] \in 0..9
<1>1. t \in Variants["register"] \cup Variants["dsc"] \cup Variants["disclose"]
  BY DEF ProofTypes, Variants
<1>2. t \in {"register", "dsc", "disclose", "register_id", "dsc_id", "disclose_id",
            "register_aadhaar", "disclose_aadhaar", "register_kyc", "disclose_kyc"}
  BY <1>1 DEF Variants
<1>. QED  BY <1>2 DEF into_i32

\* What submit_request copies from a request fits the types of the columns.
LEMMA MetadataType ==
    ASSUME NEW b \in Bodies
    PROVE  metadata(b) \in Metadata
<1>1. b.type \in ProofTypes /\ b.version \in U32 \cup {None} /\ b.endpoint \in BOOLEAN
  BY BodiesAssumption DEF Body
<1>2. Version(b) \in U32
  BY <1>1, RequestAssumption DEF Version, default_version, U32
<1>3. as_i32(Version(b)) \in I32 /\ 1 \in I32
  BY <1>2, RequestAssumption DEF as_i32, U32, I32
<1>4. into_i32[b.type] \in 0..9
  BY <1>1, CodeType
<1>. DEFINE v == IF Discloses(b.type) THEN as_i32(Version(b)) ELSE 1
<1>5. v \in I32
  BY <1>3
<1>6. metadata(b) = [proof_type |-> into_i32[b.type], version |-> v, endpoint |-> b.endpoint]
  BY DEF metadata
<1>. HIDE DEF v
<1>. QED  BY <1>1, <1>4, <1>5, <1>6 DEF Metadata

----------------------------------------------------------------------------
(* The table *)

TableType ==
    /\ proofs \in [Uuids -> Row]
    /\ notified \in [Uuids -> Seq(Pending..Failed)]

\* A row once created stays, and so does its owner.
RowsKept ==
    \A u \in Uuids : Exists(u) => Exists(u)' /\ proofs'[u].owner = proofs[u].owner

\* A statement that writes a well-typed row keeps the table well-typed, and
\* keeps the rows when it writes over an existing row with the same owner.
LEMMA ExecuteType ==
    ASSUME TableType, NEW u \in Uuids, NEW row \in Row, NEW valid, NEW ok,
           row.status = proofs[u].status \/ row.status # Absent,
           Execute(valid, u, row, ok)
    PROVE  /\ TableType'
           /\ (Exists(u) => row.status # Absent /\ row.owner = proofs[u].owner) \/ ~valid
                 => RowsKept
<1>1. CASE UNCHANGED <<proofs, notified>> /\ ~ok
  BY <1>1 DEF TableType, RowsKept, Exists
<1>2. CASE Write(u, row) /\ valid
  <2>1. proofs' = [proofs EXCEPT ![u] = row]
    BY <1>2 DEF Write
  <2>2. notified' \in [Uuids -> Seq(Pending..Failed)]
    <3>1. CASE row.status # proofs[u].status
      <4>1. row.status \in Pending..Failed
        BY <3>1 DEF Row, Absent, Pending, WitnessGenerated, ProofGenererated, Failed
      <4>2. Append(notified[u], row.status) \in Seq(Pending..Failed)
        BY <4>1, AppendProperties DEF TableType
      <4>3. notified' = [notified EXCEPT ![u] = Append(notified[u], row.status)]
        BY <1>2, <3>1 DEF Write, TableType
      <4>. QED  BY <4>2, <4>3 DEF TableType
    <3>2. CASE row.status = proofs[u].status
      BY <1>2, <3>2 DEF Write, TableType
    <3>. QED  BY <3>1, <3>2
  <2>. QED  BY <1>2, <2>1, <2>2 DEF TableType, RowsKept, Exists
<1>. QED  BY <1>1, <1>2 DEF Execute

\* The four statements.
LEMMA CreateType ==
    ASSUME TableType, NEW u \in Uuids, NEW c \in Calls, NEW request \in Metadata, NEW fits, NEW ok,
           create_proof_status(u, c, request, fits, ok)
    PROVE  TableType' /\ RowsKept
<1>. DEFINE row == [NoRow EXCEPT !.status = Pending, !.owner = c, !.request = request]
            valid == ~Exists(u) /\ fits /\ InsertColumns \subseteq Columns
<1>1. row \in Row
  BY Zenon DEF Row, NoRow, Absent, Pending, WitnessGenerated, ProofGenererated, Failed
<1>r. row.status # Absent /\ row.owner = c
  BY DEF NoRow, Absent, Pending
<1>2. Execute(valid, u, row, ok)
  BY DEF create_proof_status
<1>. HIDE DEF row
<1>3. ~Exists(u) \/ ~valid
  OBVIOUS
<1>. HIDE DEF valid
<1>. QED  BY <1>1, <1>r, <1>2, <1>3, ExecuteType DEF Exists

\* The row that an insert reports as made belongs to its call.
LEMMA CreateOwns ==
    ASSUME TableType, NEW u \in Uuids, NEW c \in Calls, NEW request, NEW fits,
           create_proof_status(u, c, request, fits, TRUE)
    PROVE  Exists(u)' /\ proofs'[u].owner = c
<1>1. proofs' = [proofs EXCEPT ![u] = [NoRow EXCEPT !.status = Pending, !.owner = c,
                                                        !.request = request]]
  BY DEF create_proof_status, Execute, Write
<1>. QED  BY <1>1 DEF TableType, Exists, NoRow, Pending, Absent

\* An UPDATE whose new row has the status given and the owner of the old one.
LEMMA UpdateType ==
    ASSUME TableType, NEW u \in Uuids, NEW row \in Row, NEW valid, NEW ok,
           row.status # Absent, row.owner = proofs[u].owner,
           Execute(valid, u, Update(u, row), ok)
    PROVE  TableType' /\ RowsKept
<1>. DEFINE new == Update(u, row)
<1>1. NoRow \in Row /\ NoRow.status = Absent
  BY DEF Row, NoRow, Absent, Pending, WitnessGenerated, ProofGenererated, Failed
<1>2. /\ new \in Row
      /\ new.status = proofs[u].status \/ new.status # Absent
      /\ Exists(u) => new.status # Absent /\ new.owner = proofs[u].owner
  BY <1>1 DEF Update, Exists
<1>. HIDE DEF new
<1>. QED  BY <1>2, ExecuteType DEF new

\* The statements of the pipeline keep the types and forget no row.
LEMMA StatementType ==
    ASSUME TableType, NEW u \in Uuids, NEW p \in Calls \cup {None}, NEW storable, NEW ok,
           \/ set_witness_generated(u, ok)
           \/ update_proof(u, p, ok)
           \/ fail_proof(u, storable, ok)
    PROVE  TableType' /\ RowsKept
<1>0. proofs[u] \in Row
  BY DEF TableType
<1>. USE <1>0 DEF Row, Absent, Pending, WitnessGenerated, ProofGenererated, Failed
<1>1. CASE set_witness_generated(u, ok)
  <2>. DEFINE row == [proofs[u] EXCEPT !.status = WitnessGenerated, !.witness_generated_at = TRUE]
  <2>1. row \in Row
    BY Zenon
  <2>r. row.status # Absent /\ row.owner = proofs[u].owner
    OBVIOUS
  <2>2. Execute(TRUE, u, Update(u, row), ok)
    BY <1>1 DEF set_witness_generated
  <2>. HIDE DEF row
  <2>. QED  BY <2>1, <2>r, <2>2, UpdateType
<1>2. CASE update_proof(u, p, ok)
  <2>. DEFINE row == [proofs[u] EXCEPT !.status = ProofGenererated, !.proof = p]
  <2>1. row \in Row
    BY Zenon
  <2>r. row.status # Absent /\ row.owner = proofs[u].owner
    OBVIOUS
  <2>2. Execute(p # None, u, Update(u, row), ok)
    BY <1>2 DEF update_proof
  <2>. HIDE DEF row
  <2>. QED  BY <2>1, <2>r, <2>2, UpdateType
<1>3. CASE fail_proof(u, storable, ok)
  <2>. DEFINE row == [proofs[u] EXCEPT !.status = Failed, !.reason = TRUE]
  <2>1. row \in Row
    BY Zenon
  <2>r. row.status # Absent /\ row.owner = proofs[u].owner
    OBVIOUS
  <2>2. Execute(storable, u, Update(u, row), ok)
    BY <1>3 DEF fail_proof
  <2>. HIDE DEF row
  <2>. QED  BY <2>1, <2>r, <2>2, UpdateType
<1>. QED  BY <1>1, <1>2, <1>3

----------------------------------------------------------------------------
(* The channels *)

\* A message sent with a permit, and a message taken off, leave a channel that
\* respects its capacity and holds no message but the old ones and the new one.
LEMMA SendType ==
    ASSUME NEW S, NEW ch \in Seq(S), NEW m \in S, HasPermit(ch)
    PROVE  /\ Append(ch, m) \in Seq(S) /\ Len(Append(ch, m)) <= ChannelCapacity
           /\ \A i \in DOMAIN Append(ch, m) :
                 Append(ch, m)[i] = m \/ \E j \in DOMAIN ch : Append(ch, m)[i] = ch[j]
BY AppendProperties, LenProperties DEF HasPermit, ChannelAssumption

\* A receive keeps the type of the channel and what it does not take.
LEMMA ReceiveType ==
    ASSUME NEW S, NEW ch \in Seq(S), ch # <<>>, Len(ch) <= ChannelCapacity
    PROVE  /\ Tail(ch) \in Seq(S) /\ Len(Tail(ch)) <= ChannelCapacity
           /\ Head(ch) \in S /\ 1 \in DOMAIN ch /\ Head(ch) = ch[1]
           /\ \A i \in DOMAIN Tail(ch) : \E j \in DOMAIN ch : Tail(ch)[i] = ch[j]
<1>1. Len(ch) \in Nat \ {0} /\ DOMAIN ch = 1..Len(ch)
  BY EmptySeq, LenProperties
<1>2. /\ Head(ch) \in S /\ Tail(ch) \in Seq(S) /\ Len(Tail(ch)) = Len(ch) - 1
      /\ \A i \in 1..Len(Tail(ch)) : Tail(ch)[i] = ch[i + 1]
  BY HeadTailProperties
<1>3. DOMAIN Tail(ch) = 1..Len(Tail(ch))
  BY <1>2, LenProperties
<1>4. \A i \in DOMAIN Tail(ch) : i + 1 \in DOMAIN ch /\ Tail(ch)[i] = ch[i + 1]
  BY <1>1, <1>2, <1>3
<1>5. Head(ch) = ch[1]
  BY <1>1
<1>. QED  BY <1>1, <1>2, <1>4, <1>5 DEF ChannelAssumption

FileType == fileCh \in Seq(FileGenerator) /\ Len(fileCh) <= ChannelCapacity
WitnessType == witnessCh \in Seq(WitnessGenerator) /\ Len(witnessCh) <= ChannelCapacity
ProofType == proofCh \in Seq(ProofGenerator) /\ Len(proofCh) <= ChannelCapacity

----------------------------------------------------------------------------
(* The handlers *)

CallsType ==
    /\ calls \in [Calls -> Call]
    /\ \A c \in Calls : /\ calls[c].pc = "idle" => calls[c].uuid = None
                        /\ calls[c].pc \in Awaits => calls[c].uuid \in Uuids
                        /\ calls[c].pc \in SubmitAwaits => calls[c].body \in Bodies

\* A call that was made keeps its uuid.
UuidsKept ==
    \A c \in Calls : calls[c].uuid \in Uuids => calls'[c].uuid = calls[c].uuid

\* A handler that goes from one await point to another, or returns.
LEMMA GotoType ==
    ASSUME CallsType, NEW c \in Calls, NEW pc, NEW reply, Goto(c, pc, reply),
           pc \in Awaits \cup {"replied", "dropped"}, reply \in Replies,
           pc \in Awaits => calls[c].uuid \in Uuids,
           pc \in SubmitAwaits => calls[c].body \in Bodies
    PROVE  CallsType' /\ UuidsKept
<1>1. calls[c] \in Call
  BY DEF CallsType
<1>2. calls' = [calls EXCEPT ![c] = [calls[c] EXCEPT !.pc = pc, !.reply = reply]]
  BY DEF Goto, CallsType
<1>3. [calls[c] EXCEPT !.pc = pc, !.reply = reply] \in Call
  BY <1>1 DEF Call
<1>. QED  BY <1>1, <1>2, <1>3 DEF CallsType, UuidsKept, Awaits, HelloAwaits, SubmitAwaits, Call

\* What every step of a client or a handler keeps.
RpcKept == StoreType' /\ TableType' /\ FileType' /\ CallsType' /\ RowsKept /\ UuidsKept

\* What clients and handlers do keeps the types;
LEMMA ClientType ==
    ASSUME StoreType, TableType, FileType, CallsType, NEW c \in Calls, ClientStep(c)
    PROVE  RpcKept
<1>. USE DEF Replies
<1>1. ASSUME UNCHANGED <<ecdh_store, proofs, notified, fileCh>>, CallsType' /\ UuidsKept
      PROVE  RpcKept
  BY <1>1 DEF RpcKept, StoreType, TableType, FileType, RowsKept, Exists
<1>2. ASSUME NEW r \in {"BadPubkeyLength", "InvalidPubkey"}, HelloRefused(c, r)
      PROVE  RpcKept
  BY <1>1, <1>2, GotoType DEF HelloRefused, Awaits, HelloAwaits, SubmitAwaits
<1>3. ASSUME NEW u \in Uuids, Hello(c, u)
      PROVE  RpcKept
  <2>1. calls' = [calls EXCEPT ![c] = [calls[c] EXCEPT !.pc = "attest", !.uuid = u]]
    BY <1>3 DEF Hello, CallsType
  <2>2. calls[c] \in Call /\ calls[c].uuid = None
    BY <1>3 DEF Hello, At, CallsType
  <2>3. [calls[c] EXCEPT !.pc = "attest", !.uuid = u] \in Call
    BY <2>2 DEF Call, Awaits, HelloAwaits
  <2>4. CallsType' /\ UuidsKept
    BY <2>1, <2>2, <2>3 DEF CallsType, UuidsKept, Awaits, HelloAwaits, SubmitAwaits, Call,
       CommonAssumption
  <2>. QED  BY <1>1, <1>3, <2>4 DEF Hello
<1>4. ASSUME NEW r \in {"BadNonceLength", "BadTagLength"}, SubmitRefused(c, r)
      PROVE  RpcKept
  BY <1>1, <1>4, GotoType DEF SubmitRefused, Awaits, HelloAwaits, SubmitAwaits
<1>5. ASSUME NEW u \in Uuids, NEW k \in KeysKnown, NEW b \in Bodies, Submit(c, u, k, b)
      PROVE  RpcKept
  <2>. DEFINE new == [calls[c] EXCEPT !.pc = "lookup", !.uuid = u, !.key = k, !.body = b]
  <2>1. calls' = [calls EXCEPT ![c] = new]
    BY <1>5 DEF Submit, CallsType
  <2>2. calls[c] \in Call /\ calls[c].uuid = None /\ k \in Calls \cup {None}
    BY <1>5 DEF Submit, At, CallsType, KeysKnown
  <2>3. new \in Call /\ new.pc = "lookup" /\ new.uuid = u /\ new.body = b
    BY <2>2 DEF Call, Awaits, SubmitAwaits
  <2>. HIDE DEF new
  <2>4. CallsType' /\ UuidsKept
    BY <2>1, <2>2, <2>3 DEF CallsType, UuidsKept, CommonAssumption
  <2>. QED  BY <1>1, <1>5, <2>4 DEF Submit
<1>6. CASE Disconnect(c)
  <2>1. calls[c].reply \in Replies
    BY DEF CallsType, Call
  <2>. QED  BY <1>1, <1>6, <2>1, GotoType DEF Disconnect, Awaits, HelloAwaits, SubmitAwaits
<1>. QED  BY <1>2, <1>3, <1>4, <1>5, <1>6 DEF ClientStep

\* the handlers, one await point after the other.
LEMMA HandlerType ==
    ASSUME StoreType, TableType, FileType, CallsType, NEW c \in Calls, HandlerStep(c)
    PROVE  RpcKept
<1>. DEFINE u == calls[c].uuid
<1>0. /\ calls[c] \in Call /\ calls[c].reply \in Replies
      /\ calls[c].pc \in Awaits => u \in Uuids
      /\ calls[c].pc \in SubmitAwaits => calls[c].body \in Bodies
  BY DEF CallsType, Call
<1>. USE DEF Awaits, HelloAwaits, SubmitAwaits, At
<1>1. CASE Attest(c)
  BY <1>0, <1>1, GotoType
  DEF Attest, get_custom_token_bytes, Replies, RpcKept, StoreType, TableType, FileType, RowsKept, Exists
<1>2. CASE InsertAgreement(c)
  <2>1. PICK ok \in BOOLEAN : /\ insert_new_agreement(u, c, ok)
                              /\ Goto(c, "replied", IF ok THEN calls[c].reply ELSE "UuidExists")
    BY <1>2 DEF InsertAgreement
  <2>2. StoreType'
    BY <1>0, <1>2, <2>1, InsertType DEF InsertAgreement
  <2>3. CallsType' /\ UuidsKept
    BY <1>0, <2>1, GotoType DEF Replies
  <2>. QED  BY <1>2, <2>2, <2>3
            DEF InsertAgreement, RpcKept, TableType, FileType, RowsKept, Exists
<1>3. CASE Lookup(c)
  <2>. DEFINE secret == SharedSecret(u)
              verdict == Verdict(secret, calls[c].key, calls[c].body)
              new == [calls[c] EXCEPT !.pc = After(verdict, "create"), !.reply = verdict,
                                      !.used = secret]
  <2>1. StoreType' /\ secret \in Calls \cup {None}
    BY <1>0, <1>3, GetType DEF Lookup
  <2>2. verdict \in Replies /\ After(verdict, "create") \in {"create", "remove"}
    BY DEF Verdict, After, Replies
  <2>3. calls' = [calls EXCEPT ![c] = new]
    BY <1>3 DEF Lookup, CallsType
  <2>. HIDE DEF secret, verdict
  <2>4. new \in Call /\ new.pc \in {"create", "remove"} /\ new.uuid = u /\ new.body = calls[c].body
    BY <1>0, <2>1, <2>2 DEF Call
  <2>5. u \in Uuids /\ calls[c].body \in Bodies
    BY <1>0, <1>3 DEF Lookup
  <2>. HIDE DEF new, u
  <2>6. CallsType' /\ UuidsKept
    BY <2>3, <2>4, <2>5 DEF CallsType, UuidsKept, u
  <2>. QED  BY <1>3, <2>1, <2>6 DEF Lookup, RpcKept, TableType, FileType, RowsKept, Exists
<1>4. CASE CreateRow(c)
  <2>1. PICK ok \in BOOLEAN :
           /\ create_proof_status(u, c, metadata(calls[c].body), calls[c].body.fits, ok)
           /\ Goto(c, After(IF ok THEN "accepted" ELSE "CouldNotCreate", "send"),
                   IF ok THEN "accepted" ELSE "CouldNotCreate")
    BY <1>4 DEF CreateRow
  <2>2. TableType' /\ RowsKept
    BY <1>0, <1>4, <2>1, CreateType, MetadataType DEF CreateRow
  <2>3. CallsType' /\ UuidsKept
    BY <1>0, <1>4, <2>1, GotoType DEF CreateRow, After, Replies
  <2>. QED  BY <1>4, <2>2, <2>3 DEF CreateRow, RpcKept, StoreType, FileType
<1>5. CASE SendJob(c)
  <2>. DEFINE m == [id |-> c, uuid |-> u, circuit |-> calls[c].body.circuit,
                    inputs |-> calls[c].body.inputs]
  <2>1. m \in FileGenerator
    BY <1>0, <1>5, BodiesAssumption DEF SendJob, Body, FileGenerator
  <2>2. fileCh' = Append(fileCh, m) /\ HasPermit(fileCh)
    BY <1>5 DEF SendJob
  <2>. HIDE DEF m
  <2>3. FileType'
    BY <2>1, <2>2, SendType DEF FileType
  <2>4. CallsType' /\ UuidsKept
    BY <1>0, <1>5, GotoType DEF SendJob
  <2>. QED  BY <1>5, <2>3, <2>4 DEF SendJob, RpcKept, StoreType, TableType, RowsKept, Exists
<1>6. CASE RemoveAgreement(c)
  <2>1. StoreType'
    BY <1>0, <1>6, RemoveType DEF RemoveAgreement
  <2>2. CallsType' /\ UuidsKept
    BY <1>0, <1>6, GotoType DEF RemoveAgreement
  <2>. QED  BY <1>6, <2>1, <2>2 DEF RemoveAgreement, RpcKept, TableType, FileType, RowsKept, Exists
<1>. QED  BY <1>1, <1>2, <1>3, <1>4, <1>5, <1>6 DEF HandlerStep

----------------------------------------------------------------------------
(* Paths *)

\* Joined paths are paths,
LEMMA JoinType ==
    ASSUME NEW p \in Path, NEW q \in Path
    PROVE  Join(p, q) \in Path
<1>1. p.absolute \in BOOLEAN /\ p.parts \in Seq(STRING) /\ q.parts \in Seq(STRING)
  BY DEF Path
<1>2. p.parts \o q.parts \in Seq(STRING)
  BY <1>1, ConcatProperties
<1>. QED  BY <1>1, <1>2, Zenon DEF Join, Path

\* lists of one element are lists,
LEMMA SingletonType ==
    ASSUME NEW S, NEW x \in S
    PROVE  <<x>> \in Seq(S)
OBVIOUS

\* so the place where main looks for a zkey is a path.
LEMMA ZkeyPathType ==
    ASSUME NEW name \in STRING
    PROVE  ZkeyPath(name) \in Path
<1>. DEFINE file == [absolute |-> FALSE, parts |-> <<name>>]
<1>1. <<name>> \in Seq(STRING)
  BY SingletonType
<1>2. file \in Path
  BY <1>1, Zenon DEF Path
<1>. HIDE DEF file
<1>3. Join(ZkeyFolder, file) \in Path
  BY <1>2, FolderAssumption, JoinType
<1>. QED  BY <1>3 DEF ZkeyPath, file

----------------------------------------------------------------------------
(* The pipeline *)

TasksType ==
    /\ task \in [Calls -> Task]
    /\ \A c \in Calls : task[c].pc # "none" => task[c].uuid \in Uuids

FoldersType ==
    /\ tmp \in [Uuids -> Folder]
    /\ writes \subseteq Calls
    /\ prover \in Calls \cup {None}

WritesType == \A c \in writes : task[c].pc # "none"

\* No job is taken up, and every job keeps its uuid.
TasksKept ==
    \A c \in Calls : /\ task'[c].pc = "none" <=> task[c].pc = "none"
                     /\ task'[c].uuid = task[c].uuid

\* What every step of a task keeps.
TaskKept ==
    /\ TableType' /\ FileType' /\ WitnessType' /\ ProofType'
    /\ TasksType' /\ FoldersType' /\ WritesType'
    /\ RowsKept /\ TasksKept

\* A job that goes on, and one that fails.
LEMMA ContinueType ==
    ASSUME TasksType, NEW c \in Calls, task[c].pc # "none",
           NEW pc \in (Working \cup Stopped) \ {"none"},
           NEW reason \in {"storable", "unstorable"},
           Continue(c, pc) \/ Fail(c, reason)
    PROVE  TasksType' /\ TasksKept
<1>1. CASE Continue(c, pc)
  <2>1. task' = [task EXCEPT ![c] = [task[c] EXCEPT !.pc = pc]] /\ task[c] \in Task
    BY <1>1 DEF Continue, TasksType
  <2>2. [task[c] EXCEPT !.pc = pc] \in Task
    BY <2>1 DEF Task
  <2>. QED  BY <2>1, <2>2 DEF TasksType, TasksKept, Task
<1>2. CASE Fail(c, reason)
  <2>1. /\ task' = [task EXCEPT ![c] = [task[c] EXCEPT !.pc = "fail", !.reason = reason]]
        /\ task[c] \in Task
    BY <1>2 DEF Fail, TasksType
  <2>2. [task[c] EXCEPT !.pc = "fail", !.reason = reason] \in Task
    BY <2>1 DEF Task, Working
  <2>. QED  BY <2>1, <2>2 DEF TasksType, TasksKept, Task
<1>. QED  BY <1>1, <1>2

\* A folder that was written to is still a folder.
LEMMA FolderType ==
    ASSUME FoldersType, NEW u \in Uuids, NEW c \in Calls, NEW out \in Calls \cup {None},
           NEW b \in BOOLEAN,
           \/ tmp' = [tmp EXCEPT ![u].dir = TRUE, ![u].input = c, ![u].whole = FALSE]
           \/ tmp' = [tmp EXCEPT ![u].dir = @ \/ b]
           \/ tmp' = [tmp EXCEPT ![u].whole = @ \/ b]
           \/ tmp' = [tmp EXCEPT ![u].wtns = out]
           \/ tmp' = [tmp EXCEPT ![u].proof = out]
           \/ tmp' = [tmp EXCEPT ![u] = NoFolder]
    PROVE  tmp' \in [Uuids -> Folder]
<1>1. tmp[u] \in Folder /\ tmp \in [Uuids -> Folder]
  BY DEF FoldersType
<1>2. \A d, w \in BOOLEAN : \A i, o, p \in Calls \cup {None} :
         /\ [tmp[u] EXCEPT !.dir = d, !.input = i, !.whole = w] \in Folder
         /\ [tmp[u] EXCEPT !.dir = d] \in Folder
         /\ [tmp[u] EXCEPT !.whole = w] \in Folder
         /\ [tmp[u] EXCEPT !.wtns = o] \in Folder
         /\ [tmp[u] EXCEPT !.proof = p] \in Folder
  BY <1>1, Zenon DEF Folder
<1>3. (tmp[u].dir \/ b) \in BOOLEAN /\ (tmp[u].whole \/ b) \in BOOLEAN
  OBVIOUS
<1>4. NoFolder \in Folder
  BY Zenon DEF NoFolder, Folder
<1>5. \A f \in Folder : [tmp EXCEPT ![u] = f] \in [Uuids -> Folder]
  BY <1>1, Zenon
<1>6. CASE tmp' = [tmp EXCEPT ![u].dir = TRUE, ![u].input = c, ![u].whole = FALSE]
  <2>1. tmp' = [tmp EXCEPT ![u] = [tmp[u] EXCEPT !.dir = TRUE, !.input = c, !.whole = FALSE]]
    BY <1>1, <1>6
  <2>. QED  BY <1>2, <1>5, <2>1, Zenon
<1>7. CASE tmp' = [tmp EXCEPT ![u].dir = @ \/ b]
  BY <1>2, <1>3, <1>5, <1>7, Zenon
<1>8. CASE tmp' = [tmp EXCEPT ![u].whole = @ \/ b]
  BY <1>2, <1>3, <1>5, <1>8, Zenon
<1>9. CASE tmp' = [tmp EXCEPT ![u].wtns = out]
  BY <1>2, <1>5, <1>9
<1>10. CASE tmp' = [tmp EXCEPT ![u].proof = out]
  BY <1>2, <1>5, <1>10
<1>11. CASE tmp' = [tmp EXCEPT ![u] = NoFolder]
  BY <1>4, <1>5, <1>11, Zenon
<1>. QED  BY <1>6, <1>7, <1>8, <1>9, <1>10, <1>11

\* A job whose witness was generated is given its zkey, or panics.
LEMMA TakeZkeyType ==
    ASSUME TasksType, FolderTypeOK, NEW c \in Calls, task[c].pc # "none", TakeZkey(c)
    PROVE  TasksType' /\ TasksKept
<1>. DEFINE path == zkey_file_path(task[c].circuit)
<1>1. CASE task[c].circuit \in DOMAIN circuit_zkey_map
  <2>1. circuit_zkey_map[task[c].circuit] \in Path
    BY <1>1 DEF FolderTypeOK
  <2>2. path \in Path
    BY <2>1, FolderAssumption, JoinType DEF zkey_file_path
  <2>3. task' = [task EXCEPT ![c] = [task[c] EXCEPT !.pc = "record", !.zkey = path]] /\ task[c] \in Task
    BY <1>1 DEF TakeZkey, TasksType
  <2>. HIDE DEF path
  <2>4. [task[c] EXCEPT !.pc = "record", !.zkey = path] \in Task
    BY <2>2, <2>3 DEF Task, Working
  <2>. QED  BY <2>3, <2>4 DEF TasksType, TasksKept, Task
<1>2. CASE Continue(c, "panicked")
  BY <1>2, ContinueType DEF Stopped
<1>. QED  BY <1>1, <1>2 DEF TakeZkey

\* What the tasks, the writers and the prover do keeps the types;
LEMMA TaskStepType ==
    ASSUME TableType, FileType, WitnessType, ProofType, TasksType, FoldersType, FolderTypeOK,
           WritesType, NEW c \in Calls, TaskStep(c) \/ FlushInputs(c) \/ RunProver(c)
    PROVE  TaskKept
<1>. DEFINE u == task[c].uuid
<1>0. /\ task[c] \in Task
      /\ task[c].pc # "none" => u \in Uuids /\ tmp[u] \in Folder
  BY DEF TasksType, FoldersType
<1>a. ASSUME UNCHANGED <<proofs, notified>>  PROVE TableType' /\ RowsKept
  BY <1>a DEF TableType, RowsKept, Exists
<1>b. ASSUME UNCHANGED fileCh  PROVE FileType'
  BY <1>b DEF FileType
<1>c. ASSUME UNCHANGED witnessCh  PROVE WitnessType'
  BY <1>c DEF WitnessType
<1>d. ASSUME UNCHANGED proofCh  PROVE ProofType'
  BY <1>d DEF ProofType
<1>e. ASSUME tmp' \in [Uuids -> Folder], writes' \subseteq Calls, prover' \in {prover, None}
      PROVE  FoldersType'
  BY <1>e DEF FoldersType
<1>w. ASSUME writes' \subseteq writes \cup {c}, task[c].pc # "none", TasksKept
      PROVE  WritesType'
  BY <1>w DEF WritesType, TasksKept, FoldersType
<1>f. tmp \in [Uuids -> Folder] /\ writes \subseteq Calls
  BY DEF FoldersType
<1>g. FailureReasons \subseteq {"storable", "unstorable"}
  BY DEF FailureReasons
<1>h. ASSUME NEW pc \in (Working \cup Stopped) \ {"none"}, NEW ok,
             task[c].pc # "none", Proceed(c, ok, pc)
      PROVE  TasksType' /\ TasksKept
  BY <1>h, ContinueType DEF Proceed
<1>. USE DEF Doing, Working, Stopped
<1>1. CASE WriteInputs(c)
  <2>1. tmp' \in [Uuids -> Folder]
    BY <1>0, <1>1, FolderType DEF WriteInputs
  <2>2. TasksType' /\ TasksKept
    BY <1>1, ContinueType DEF WriteInputs
  <2>. QED  BY <1>1, <1>a, <1>b, <1>c, <1>d, <1>e, <1>f, <1>w, <2>1, <2>2 DEF WriteInputs, TaskKept
<1>2. CASE FlushInputs(c)
  <2>1. PICK done \in BOOLEAN : tmp' = [tmp EXCEPT ![u].whole = @ \/
                (done /\ FitsBuffer(task[c].inputs) /\ tmp[u].input = c)]
    BY <1>2 DEF FlushInputs
  <2>2. (done /\ FitsBuffer(task[c].inputs) /\ tmp[u].input = c) \in BOOLEAN
    BY DEF FitsBuffer
  <2>3. tmp' \in [Uuids -> Folder]
    BY <1>0, <1>2, <2>1, <2>2, FolderType DEF FlushInputs, WritesType
  <2>4. TasksType' /\ TasksKept
    BY <1>2 DEF FlushInputs, TasksType, TasksKept
  <2>. QED  BY <1>2, <1>a, <1>b, <1>c, <1>d, <1>e, <1>f, <1>w, <2>3, <2>4 DEF FlushInputs, WritesType, TaskKept
<1>3. CASE SendWitness(c)
  <2>. DEFINE m == [id |-> c, uuid |-> u, circuit |-> task[c].circuit]
  <2>1. m \in WitnessGenerator
    BY <1>0, <1>3 DEF SendWitness, WitnessGenerator, Task
  <2>2. witnessCh' = Append(witnessCh, m) /\ HasPermit(witnessCh)
    BY <1>3 DEF SendWitness
  <2>. HIDE DEF m
  <2>3. WitnessType'
    BY <2>1, <2>2, SendType DEF WitnessType
  <2>4. TasksType' /\ TasksKept
    BY <1>3, ContinueType DEF SendWitness
  <2>. QED  BY <1>3, <1>a, <1>b, <1>d, <1>e, <1>f, <1>w, <2>3, <2>4 DEF SendWitness, TaskKept
<1>4. CASE RunWitness(c)
  <2>1. tmp' \in [Uuids -> Folder]
    <3>1. CASE UNCHANGED tmp
      BY <1>f, <3>1
    <3>2. ASSUME NEW out \in {tmp[u].input, None}, tmp' = [tmp EXCEPT ![u].wtns = out]
          PROVE  tmp' \in [Uuids -> Folder]
      BY <1>0, <1>4, <3>2, FolderType DEF RunWitness, Folder
    <3>. QED  BY <1>4, <3>1, <3>2 DEF RunWitness
  <2>2. TasksType' /\ TasksKept
    BY <1>4, <1>g, ContinueType, TakeZkeyType DEF RunWitness
  <2>. QED  BY <1>4, <1>a, <1>b, <1>c, <1>d, <1>e, <1>f, <1>w, <2>1, <2>2 DEF RunWitness, TaskKept
<1>5. CASE RecordWitness(c)
  <2>1. TableType' /\ RowsKept
    BY <1>0, <1>5, StatementType DEF RecordWitness
  <2>2. TasksType' /\ TasksKept
    BY <1>5, <1>h DEF RecordWitness
  <2>. QED  BY <1>5, <1>b, <1>c, <1>d, <1>e, <1>f, <1>w, <2>1, <2>2 DEF RecordWitness, TaskKept
<1>6. CASE SendProof(c)
  <2>. DEFINE m == [id |-> c, uuid |-> u, zkey |-> task[c].zkey]
  <2>1. m \in ProofGenerator
    BY <1>0, <1>6 DEF SendProof, ProofGenerator, Task
  <2>2. proofCh' = Append(proofCh, m) /\ HasPermit(proofCh)
    BY <1>6 DEF SendProof
  <2>. HIDE DEF m
  <2>3. ProofType'
    BY <2>1, <2>2, SendType DEF ProofType
  <2>4. TasksType' /\ TasksKept
    BY <1>6, ContinueType DEF SendProof
  <2>. QED  BY <1>6, <1>a, <1>b, <1>c, <1>e, <1>f, <1>w, <2>3, <2>4 DEF SendProof, TaskKept
<1>7. CASE RunProver(c)
  <2>1. tmp' \in [Uuids -> Folder]
    <3>1. CASE UNCHANGED tmp
      BY <1>f, <3>1
    <3>2. ASSUME NEW out \in {tmp[u].wtns, None}, tmp' = [tmp EXCEPT ![u].proof = out]
          PROVE  tmp' \in [Uuids -> Folder]
      BY <1>0, <1>7, <3>2, FolderType DEF RunProver, Folder
    <3>. QED  BY <1>7, <3>1, <3>2 DEF RunProver
  <2>2. TasksType' /\ TasksKept
    BY <1>7, <1>g, ContinueType DEF RunProver
  <2>. QED  BY <1>7, <1>a, <1>b, <1>c, <1>d, <1>e, <1>f, <1>w, <2>1, <2>2 DEF RunProver, TaskKept
<1>8. CASE StoreProof(c)
  <2>1. tmp[u].proof \in Calls \cup {None}
    BY <1>0, <1>8 DEF StoreProof, Folder
  <2>2. TableType' /\ RowsKept
    BY <1>0, <1>8, <2>1, StatementType DEF StoreProof
  <2>3. TasksType' /\ TasksKept
    BY <1>8, <1>h DEF StoreProof
  <2>. QED  BY <1>8, <1>b, <1>c, <1>d, <1>e, <1>f, <1>w, <2>2, <2>3 DEF StoreProof, TaskKept
<1>9. CASE FailProof(c)
  <2>1. TableType' /\ RowsKept
    BY <1>0, <1>9, StatementType DEF FailProof
  <2>2. TasksType' /\ TasksKept
    BY <1>9, ContinueType DEF FailProof
  <2>. QED  BY <1>9, <1>b, <1>c, <1>d, <1>e, <1>f, <1>w, <2>1, <2>2 DEF FailProof, TaskKept
<1>10. CASE RemoveTmpFolder(c)
  <2>1. tmp' \in [Uuids -> Folder]
    BY <1>0, <1>10, <1>f, FolderType DEF RemoveTmpFolder
  <2>2. TasksType' /\ TasksKept
    BY <1>10, ContinueType DEF RemoveTmpFolder
  <2>. QED  BY <1>10, <1>a, <1>b, <1>c, <1>d, <1>e, <1>f, <1>w, <2>1, <2>2 DEF RemoveTmpFolder, TaskKept
<1>. QED  BY <1>1, <1>2, <1>3, <1>4, <1>5, <1>6, <1>7, <1>8, <1>9, <1>10 DEF TaskStep

\* A job is at work after a loop has taken a message if it was before, or if the
\* message, which was in a channel, is about it.
JobsTaken ==
    \A c \in Calls : task'[c].pc # "none" =>
        \/ task[c].pc # "none" /\ task'[c].uuid = task[c].uuid
        \/ \E i \in DOMAIN fileCh : fileCh[i].id = c /\ fileCh[i].uuid = task'[c].uuid
        \/ \E i \in DOMAIN witnessCh : witnessCh[i].id = c /\ witnessCh[i].uuid = task'[c].uuid
        \/ \E i \in DOMAIN proofCh : proofCh[i].id = c /\ proofCh[i].uuid = task'[c].uuid

LoopKept ==
    /\ TableType' /\ FileType' /\ WitnessType' /\ ProofType'
    /\ TasksType' /\ FoldersType' /\ WritesType'
    /\ RowsKept /\ JobsTaken

\* and so do the loops.
LEMMA LoopType ==
    ASSUME TableType, FileType, WitnessType, ProofType, TasksType, FoldersType, WritesType, LoopStep
    PROVE  LoopKept
<1>1. CASE FileLoop
  <2>. DEFINE m == fileCh[1]
              new == [pc |-> "file", uuid |-> m.uuid, circuit |-> m.circuit,
                      inputs |-> m.inputs, zkey |-> None, reason |-> "none"]
  <2>1. fileCh # <<>> /\ FileType' /\ m \in FileGenerator /\ 1 \in DOMAIN fileCh /\ Head(fileCh) = m
    BY <1>1, ReceiveType DEF FileLoop, FileType
  <2>2. task' = [task EXCEPT ![m.id] = new]
    BY <1>1, <2>1 DEF FileLoop
  <2>3. new \in Task /\ new.pc = "file" /\ new.uuid = m.uuid /\ m.uuid \in Uuids /\ m.id \in Calls
    BY <2>1 DEF FileGenerator, Task, Working
  <2>. HIDE DEF new, m
  <2>4. TasksType' /\ WritesType' /\ JobsTaken
    BY <1>1, <2>1, <2>2, <2>3 DEF FileLoop, TasksType, WritesType, FoldersType, JobsTaken, m
  <2>. QED  BY <1>1, <2>1, <2>4
            DEF FileLoop, LoopKept, TableType, RowsKept, Exists, WitnessType, ProofType, FoldersType
<1>2. CASE WitnessLoop
  <2>. DEFINE m == witnessCh[1]
              new == [task[m.id] EXCEPT !.pc = "witness", !.uuid = m.uuid, !.circuit = m.circuit]
  <2>1. /\ witnessCh # <<>> /\ WitnessType' /\ m \in WitnessGenerator
        /\ 1 \in DOMAIN witnessCh /\ Head(witnessCh) = m
    BY <1>2, ReceiveType DEF WitnessLoop, WitnessType
  <2>2. m.uuid \in Uuids /\ m.id \in Calls /\ m.circuit \in STRING \cup {None} /\ task[m.id] \in Task
    BY <2>1 DEF WitnessGenerator, TasksType
  <2>3. task' = [task EXCEPT ![m.id] = new]
    BY <1>2, <2>1, <2>2 DEF WitnessLoop, TasksType
  <2>4. new \in Task /\ new.pc = "witness" /\ new.uuid = m.uuid
    BY <2>2 DEF Task, Working
  <2>. HIDE DEF new, m
  <2>5. TasksType' /\ WritesType' /\ JobsTaken
    BY <1>2, <2>1, <2>2, <2>3, <2>4
    DEF WitnessLoop, TasksType, WritesType, FoldersType, JobsTaken, m
  <2>. QED  BY <1>2, <2>1, <2>5
            DEF WitnessLoop, LoopKept, TableType, RowsKept, Exists, FileType, ProofType, FoldersType
<1>3. CASE ProofLoop
  <2>. DEFINE m == proofCh[1]
              new == [task[m.id] EXCEPT !.pc = "prove", !.uuid = m.uuid, !.zkey = m.zkey]
  <2>1. /\ proofCh # <<>> /\ ProofType' /\ m \in ProofGenerator
        /\ 1 \in DOMAIN proofCh /\ Head(proofCh) = m
    BY <1>3, ReceiveType DEF ProofLoop, ProofType
  <2>2. m.uuid \in Uuids /\ m.id \in Calls /\ m.zkey \in Path \cup {None} /\ task[m.id] \in Task
    BY <2>1 DEF ProofGenerator, TasksType
  <2>3. task' = [task EXCEPT ![m.id] = new] /\ prover' = m.id
    BY <1>3, <2>1, <2>2 DEF ProofLoop, TasksType
  <2>4. new \in Task /\ new.pc = "prove" /\ new.uuid = m.uuid
    BY <2>2 DEF Task, Working
  <2>. HIDE DEF new, m
  <2>5. TasksType' /\ WritesType' /\ JobsTaken
    BY <1>3, <2>1, <2>2, <2>3, <2>4
    DEF ProofLoop, TasksType, WritesType, FoldersType, JobsTaken, m
  <2>. QED  BY <1>3, <2>1, <2>2, <2>3, <2>5
            DEF ProofLoop, LoopKept, TableType, RowsKept, Exists, FileType, WitnessType, FoldersType
<1>. QED  BY <1>1, <1>2, <1>3 DEF LoopStep

----------------------------------------------------------------------------
(* The type invariant *)

TypePart ==
    /\ StoreType /\ TableType /\ FileType /\ WitnessType /\ ProofType
    /\ CallsType /\ TasksType /\ FoldersType /\ WritesType /\ StartupTypeOK

\* The type invariant is what the lemmas above are about.
LEMMA TypeParts == (TypeOK <=> TypePart) /\ (TypeOK' <=> TypePart')
BY DEF TypePart, TypeOK, RpcTypeOK, PipelineTypeOK, ChannelsTypeOK, StoreType, TableType, FileType,
       WitnessType, ProofType, CallsType, TasksType, FoldersType, WritesType

\* The steps of main and changes of the circuit folder.
LEMMA MainType ==
    ASSUME StartupTypeOK,
           Connect \/ Serve \/ ProverFound \/ MainEnds \/ (ChangeFolder /\ UNCHANGED phase)
    PROVE  StartupTypeOK'
<1>. USE DEF StartupTypeOK, FolderTypeOK, Phases
<1>1. CASE Connect \/ ProverFound
  BY <1>1 DEF Connect, ProverFound
<1>2. CASE ChangeFolder /\ UNCHANGED phase
  BY <1>2 DEF ChangeFolder
<1>3. CASE Serve
  <2>1. circuit_zkey_map' = [n \in Names |-> ZkeyPath(n)] /\ UNCHANGED circuit_folder
    BY <1>3 DEF Serve, ScanFolder
  <2>2. Names \subseteq {e.name : e \in Entries} /\ Names \subseteq STRING
    BY FolderAssumption DEF Names, Entry
  <2>3. \A n \in Names : ZkeyPath(n) \in Path
    BY <2>2, ZkeyPathType
  <2>. QED  BY <1>3, <2>1, <2>2, <2>3 DEF Serve
<1>4. CASE MainEnds
  BY <1>4 DEF MainEnds
<1>. QED  BY <1>1, <1>2, <1>3, <1>4

\* The end of the process forgets what was under way, and nothing that is in
\* the table.
LEMMA ExitType ==
    ASSUME TypeOK, Exit
    PROVE  /\ TypeOK' /\ RowsKept /\ UuidsKept
           /\ \A c \in Calls : /\ task'[c].pc # "none" =>
                                     task[c].pc # "none" /\ task'[c].uuid = task[c].uuid
                               /\ calls'[c].pc # "send"
<1>. USE TypeParts DEF TypePart
<1>1. \A c \in Calls : calls[c] \in Call /\ task[c] \in Task
  BY DEF CallsType, TasksType
<1>2. \A c \in Calls : [calls[c] EXCEPT !.pc = "dropped"] \in Call
  BY <1>1 DEF Call
<1>3. \A c \in Calls : [task[c] EXCEPT !.pc = "lost"] \in Task
  BY <1>1 DEF Task, Stopped
<1>4. CallsType' /\ UuidsKept /\ \A c \in Calls : calls'[c].pc # "send"
  BY <1>1, <1>2 DEF Exit, CallsType, UuidsKept, Call, Awaits, HelloAwaits, SubmitAwaits
<1>5. /\ TasksType'
      /\ \A c \in Calls : task'[c].pc # "none" =>
             task[c].pc # "none" /\ task'[c].uuid = task[c].uuid
  BY <1>1, <1>3 DEF Exit, TasksType, Working, Task
<1>6. NoFolder \in Folder
  BY Zenon DEF NoFolder, Folder
<1>7. FoldersType' /\ WritesType'
  BY <1>6 DEF Exit, FoldersType, WritesType
<1>8. StoreType' /\ FileType' /\ WitnessType' /\ ProofType'
  BY EmptySeq DEF Exit, StoreType, FileType, WitnessType, ProofType, StoreSizeAssumption,
     ChannelAssumption
<1>9. TableType' /\ RowsKept
  BY DEF Exit, TableType, RowsKept, Exists
<1>s. StartupTypeOK'
  BY MainType DEF Exit
<1>10. TypeOK'
  BY <1>4, <1>5, <1>7, <1>8, <1>9, <1>s
<1>. QED  BY <1>4, <1>5, <1>9, <1>10

\* The initial state has the types,
LEMMA InitType == Init => TypeOK
<1>. SUFFICES ASSUME Init PROVE TypeOK
  OBVIOUS
<1>1. StoreType /\ FileType /\ WitnessType /\ ProofType
  BY EmptySeq DEF Init, RpcInit, StoreInit, ChannelsInit, StoreType, FileType, WitnessType,
     ProofType, StoreSizeAssumption, ChannelAssumption
<1>2. NoRow \in Row /\ NoFolder \in Folder
  <2>1. NoRow \in Row
    BY DEF NoRow, Row, Absent, Pending, WitnessGenerated, ProofGenererated, Failed
  <2>2. NoFolder \in Folder
    BY Zenon DEF NoFolder, Folder
  <2>. QED  BY <2>1, <2>2
<1>3. TableType
  BY <1>2, EmptySeq DEF Init, RpcInit, TableInit, TableType
<1>4. CallsType
  BY DEF Init, RpcInit, CallsType, IdleCall, Call, Replies, Awaits, HelloAwaits, SubmitAwaits
<1>5. NoTask \in Task /\ NoTask.pc = "none"
  BY DEF NoTask, Task, Stopped
<1>6. TasksType
  BY <1>5 DEF Init, PipelineInit, TasksType
<1>7. FoldersType /\ WritesType
  BY <1>2 DEF Init, PipelineInit, FoldersType, WritesType
<1>8. StartupTypeOK
  BY DEF Init, StartupInit, StartupTypeOK, FolderTypeOK, Phases
<1>. QED  BY <1>1, <1>3, <1>4, <1>6, <1>7, <1>8, TypeParts DEF TypePart

\* All but what main does.
serverVars == <<calls, ecdh_store, proofs, notified, fileCh, witnessCh, proofCh, task, tmp,
                writes, prover>>

\* Before its loops run, main leaves the rest of the server alone.
LEMMA MainSteps ==
    ASSUME Starting \/ Install
    PROVE  /\ UNCHANGED serverVars
           /\ Connect \/ Serve \/ ProverFound \/ (ChangeFolder /\ UNCHANGED phase)
BY DEF Starting, Install, Main, handlerVars, pipelineVars, serverVars

\* What changes and what does not in every step: rows stay, calls keep their
\* uuids, and a job at work stems from a job at work or from a message.
StepKept == TypeOK' /\ RowsKept /\ UuidsKept /\ JobsTaken

\* and every step keeps them, with the rows and the uuids of calls.
LEMMA StepType ==
    ASSUME TypeOK, [Next]_vars
    PROVE  StepKept
<1>. USE TypeParts DEF TypePart
<1>1. ASSUME NEW c \in Calls, Client(c) \/ Handler(c)
      PROVE  StepKept
  <2>1. RpcKept
    BY <1>1, ClientType, HandlerType DEF Client, Handler
  <2>2. UNCHANGED <<witnessCh, proofCh, task, tmp, writes, prover, phase, circuit_folder,
                    circuit_zkey_map>>
    BY <1>1 DEF Client, Handler, pipelineVars, startupVars
  <2>3. /\ WitnessType' /\ ProofType' /\ TasksType' /\ FoldersType' /\ WritesType' /\ JobsTaken
        /\ StartupTypeOK'
    BY <2>2 DEF WitnessType, ProofType, TasksType, FoldersType, WritesType, JobsTaken, StartupTypeOK,
       FolderTypeOK
  <2>. QED  BY <2>1, <2>3 DEF RpcKept, StepKept
<1>2. CASE Pipe
  <2>1. StoreType' /\ CallsType' /\ UuidsKept /\ StartupTypeOK'
    BY <1>2 DEF Pipe, Loops, handlerVars, startupVars, StoreType, CallsType, UuidsKept, StartupTypeOK,
       FolderTypeOK
  <2>2. LoopKept \/ TaskKept
    BY <1>2, LoopType, TaskStepType DEF Pipe, Loops, PipelineStep, StartupTypeOK
  <2>3. TasksKept => JobsTaken
    BY DEF TasksKept, JobsTaken
  <2>. QED  BY <2>1, <2>2, <2>3 DEF LoopKept, TaskKept, StepKept
<1>3. CASE Exit
  BY <1>3, ExitType DEF StepKept, JobsTaken
<1>4. ASSUME UNCHANGED serverVars, StartupTypeOK' PROVE StepKept
  BY <1>4 DEF serverVars, StepKept, StoreType, TableType, FileType, WitnessType, ProofType,
     CallsType, TasksType, FoldersType, WritesType, RowsKept, UuidsKept, JobsTaken, Exists
<1>5. CASE Starting \/ Install
  BY <1>4, <1>5, MainSteps, MainType
<1>6. CASE UNCHANGED vars
  BY <1>4, <1>6 DEF vars, handlerVars, pipelineVars, startupVars, serverVars, StartupTypeOK,
     FolderTypeOK
<1>. QED  BY <1>1, <1>2, <1>3, <1>5, <1>6 DEF Next, Quiet

\* Every variable of the server keeps its type, no channel exceeds its
\* capacity and no store its size, whatever calls, faults and crashes occur.
THEOREM TypeCorrect == Spec => []TypeOK
<1>1. TypeOK /\ [Next]_vars => TypeOK'
  BY StepType DEF StepKept
<1>. QED  BY InitType, <1>1, PTL DEF Spec

----------------------------------------------------------------------------
(* Jobs of one uuid never meet *)

\* OneJobPerUuid is not inductive: nothing in it says why a second job of a
\* uuid cannot be queued.  JobsOwnRows does: whatever carries a job belongs to
\* the one call that created the row, and a row never changes its owner.
JobInv == TypeOK /\ JobsOwnRows

\* A call that owns the row of a uuid goes on owning it.
LEMMA OwnershipKept ==
    ASSUME NEW c \in Calls, NEW u \in Uuids, OwnsRow(c, u), RowsKept, UuidsKept
    PROVE  OwnsRow(c, u)'
BY DEF OwnsRow, RowsKept, UuidsKept, Exists

\* A handler is about to queue a job only if it was before, or if it has just
\* created the row.
LEMMA SendOwnsRow ==
    ASSUME TypeOK, JobsOwnRows, StepKept, NEW c \in Calls, ClientStep(c) \/ HandlerStep(c),
           NEW d \in Calls, calls'[d].pc = "send", NEW u \in Uuids, calls'[d].uuid = u
    PROVE  OwnsRow(d, u)'
<1>. USE TypeParts DEF TypePart
<1>0. calls \in [Calls -> Call] /\ RowsKept /\ UuidsKept
  BY DEF CallsType, StepKept
<1>1. CASE calls[d].pc = "send"
  <2>1. calls[d].uuid = u
    BY <1>0, <1>1 DEF CallsType, UuidsKept, Awaits, SubmitAwaits
  <2>2. OwnsRow(d, u)
    BY <1>1, <2>1 DEF JobsOwnRows, At
  <2>. QED  BY <1>0, <2>2, OwnershipKept
<1>2. CASE calls[d].pc # "send"
  <2>1. CreateRow(c)
    <3>0. ASSUME NEW new, calls' = [calls EXCEPT ![c] = new], new.pc # "send" PROVE FALSE
      BY <1>0, <1>2, <3>0
    <3>g. ASSUME NEW pc, NEW reply, Goto(c, pc, reply), pc # "send" PROVE FALSE
      BY <1>0, <1>2, <3>g DEF Goto, Call
    <3>1. ASSUME ClientStep(c) PROVE FALSE
      <4>1. ASSUME NEW r, HelloRefused(c, r) \/ SubmitRefused(c, r) \/ Disconnect(c) PROVE FALSE
        BY <3>g, <4>1 DEF HelloRefused, SubmitRefused, Disconnect
      <4>2. ASSUME NEW w, Hello(c, w) PROVE FALSE
        BY <1>0, <1>2, <4>2 DEF Hello, Call
      <4>3. ASSUME NEW w, NEW k, NEW b, Submit(c, w, k, b) PROVE FALSE
        <5>. DEFINE new == [calls[c] EXCEPT !.pc = "lookup", !.uuid = w, !.key = k, !.body = b]
        <5>1. calls' = [calls EXCEPT ![c] = new]
          BY <1>0, <4>3 DEF Submit
        <5>2. new.pc = "lookup"
          BY <1>0 DEF Call
        <5>. QED  BY <3>0, <5>1, <5>2
      <4>. QED  BY <3>1, <4>1, <4>2, <4>3 DEF ClientStep
    <3>2. ASSUME Attest(c) \/ InsertAgreement(c) \/ SendJob(c) \/ RemoveAgreement(c) PROVE FALSE
      BY <3>g, <3>2 DEF Attest, InsertAgreement, SendJob, RemoveAgreement
    <3>3. ASSUME Lookup(c) PROVE FALSE
      BY <1>0, <1>2, <3>3 DEF Lookup, After, Call
    <3>. QED  BY <3>1, <3>2, <3>3 DEF HandlerStep
  <2>2. PICK ok \in BOOLEAN :
           /\ create_proof_status(calls[c].uuid, c, metadata(calls[c].body), calls[c].body.fits, ok)
           /\ Goto(c, After(IF ok THEN "accepted" ELSE "CouldNotCreate", "send"),
                   IF ok THEN "accepted" ELSE "CouldNotCreate")
    BY <2>1 DEF CreateRow
  <2>3. d = c /\ ok
    BY <1>0, <1>2, <2>2 DEF Goto, After, Call
  <2>4. calls[c].uuid \in Uuids /\ calls[c].uuid = u
    BY <1>0, <2>1, <2>3 DEF CreateRow, At, CallsType, Awaits, SubmitAwaits, UuidsKept
  <2>5. create_proof_status(u, c, metadata(calls[c].body), calls[c].body.fits, TRUE)
    BY <2>2, <2>3, <2>4
  <2>6. Exists(u)' /\ proofs'[u].owner = c
    <3>. DEFINE request == metadata(calls[c].body)
                fits == calls[c].body.fits
    <3>1. TableType /\ create_proof_status(u, c, request, fits, TRUE)
      BY <2>5
    <3>. HIDE DEF request, fits
    <3>. QED  BY <3>1, CreateOwns
  <2>. QED  BY <2>3, <2>6 DEF OwnsRow
<1>. QED  BY <1>1, <1>2

\* A message in a channel was there before, or was sent by a handler or a task
\* about its own job.
MessagesSent ==
    /\ \A i \in DOMAIN fileCh' :
          \/ \E j \in DOMAIN fileCh : fileCh'[i] = fileCh[j]
          \/ \E c \in Calls : /\ fileCh'[i].id = c /\ fileCh'[i].uuid = calls[c].uuid
                              /\ calls[c].pc = "send"
    /\ \A i \in DOMAIN witnessCh' :
          \/ \E j \in DOMAIN witnessCh : witnessCh'[i] = witnessCh[j]
          \/ \E c \in Calls : /\ witnessCh'[i].id = c /\ witnessCh'[i].uuid = task[c].uuid
                              /\ task[c].pc # "none"
    /\ \A i \in DOMAIN proofCh' :
          \/ \E j \in DOMAIN proofCh : proofCh'[i] = proofCh[j]
          \/ \E c \in Calls : /\ proofCh'[i].id = c /\ proofCh'[i].uuid = task[c].uuid
                              /\ task[c].pc # "none"

\* What is queued after a step was queued before or was sent by its owner.
LEMMA StepSends ==
    ASSUME TypeOK, [Next]_vars
    PROVE  MessagesSent
<1>. USE TypeParts DEF TypePart
<1>0. TasksType /\ FoldersType /\ CallsType
  OBVIOUS
<1>1. CASE UNCHANGED <<fileCh, witnessCh, proofCh>>
  BY <1>1 DEF MessagesSent
<1>2. ASSUME NEW c \in Calls, SendJob(c), UNCHANGED <<witnessCh, proofCh>>
      PROVE  MessagesSent
  <2>. DEFINE m == [id |-> c, uuid |-> calls[c].uuid, circuit |-> calls[c].body.circuit,
                    inputs |-> calls[c].body.inputs]
  <2>1. fileCh' = Append(fileCh, m) /\ HasPermit(fileCh) /\ calls[c].pc = "send"
    BY <1>2 DEF SendJob, At
  <2>2. m \in FileGenerator
    BY <1>0, <2>1, BodiesAssumption
    DEF CallsType, Awaits, SubmitAwaits, Body, FileGenerator
  <2>3. m.id = c /\ m.uuid = calls[c].uuid
    OBVIOUS
  <2>. HIDE DEF m
  <2>4. \A i \in DOMAIN fileCh' : fileCh'[i] = m \/ \E j \in DOMAIN fileCh : fileCh'[i] = fileCh[j]
    BY <2>1, <2>2, SendType DEF FileType
  <2>. QED  BY <1>2, <2>1, <2>3, <2>4 DEF MessagesSent
<1>3. ASSUME NEW c \in Calls, SendWitness(c) PROVE MessagesSent
  <2>. DEFINE m == [id |-> c, uuid |-> task[c].uuid, circuit |-> task[c].circuit]
  <2>1. witnessCh' = Append(witnessCh, m) /\ HasPermit(witnessCh) /\ task[c].pc # "none"
    BY <1>3 DEF SendWitness, Doing
  <2>2. m \in WitnessGenerator
    BY <1>0, <2>1 DEF TasksType, Task, WitnessGenerator
  <2>3. m.id = c /\ m.uuid = task[c].uuid
    OBVIOUS
  <2>. HIDE DEF m
  <2>4. \A i \in DOMAIN witnessCh' :
           witnessCh'[i] = m \/ \E j \in DOMAIN witnessCh : witnessCh'[i] = witnessCh[j]
    BY <2>1, <2>2, SendType DEF WitnessType
  <2>. QED  BY <1>3, <2>1, <2>3, <2>4 DEF MessagesSent, SendWitness
<1>4. ASSUME NEW c \in Calls, SendProof(c) PROVE MessagesSent
  <2>. DEFINE m == [id |-> c, uuid |-> task[c].uuid, zkey |-> task[c].zkey]
  <2>1. proofCh' = Append(proofCh, m) /\ HasPermit(proofCh) /\ task[c].pc # "none"
    BY <1>4 DEF SendProof, Doing
  <2>2. m \in ProofGenerator
    BY <1>0, <2>1 DEF TasksType, Task, ProofGenerator
  <2>3. m.id = c /\ m.uuid = task[c].uuid
    OBVIOUS
  <2>. HIDE DEF m
  <2>4. \A i \in DOMAIN proofCh' :
           proofCh'[i] = m \/ \E j \in DOMAIN proofCh : proofCh'[i] = proofCh[j]
    BY <2>1, <2>2, SendType DEF ProofType
  <2>. QED  BY <1>4, <2>1, <2>3, <2>4 DEF MessagesSent, SendProof
<1>5. CASE LoopStep
  <2>1. CASE FileLoop
    BY <2>1, ReceiveType DEF FileLoop, FileType, MessagesSent
  <2>2. CASE WitnessLoop
    BY <2>2, ReceiveType DEF WitnessLoop, WitnessType, MessagesSent
  <2>3. CASE ProofLoop
    BY <2>3, ReceiveType DEF ProofLoop, ProofType, MessagesSent
  <2>. QED  BY <1>5, <2>1, <2>2, <2>3 DEF LoopStep
<1>6. CASE Exit
  BY <1>6 DEF Exit, MessagesSent
<1>7. ASSUME NEW c \in Calls, Client(c) PROVE MessagesSent
  BY <1>1, <1>7 DEF Client, ClientStep, HelloRefused, Hello, SubmitRefused, Submit, Disconnect
<1>8. ASSUME NEW c \in Calls, Handler(c) PROVE MessagesSent
  BY <1>1, <1>2, <1>8
  DEF Handler, HandlerStep, Attest, InsertAgreement, Lookup, CreateRow, RemoveAgreement
<1>9. ASSUME NEW c \in Calls, TaskStep(c) \/ FlushInputs(c) \/ RunProver(c) PROVE MessagesSent
  BY <1>1, <1>3, <1>4, <1>9
  DEF TaskStep, WriteInputs, FlushInputs, RunWitness, RecordWitness, RunProver, StoreProof,
      FailProof, RemoveTmpFolder
<1>10. CASE Starting \/ Install
  BY <1>1, <1>10, MainSteps DEF serverVars
<1>. QED  BY <1>1, <1>5, <1>6, <1>7, <1>8, <1>9, <1>10
          DEF Next, Pipe, Loops, PipelineStep, Quiet, vars

\* So a job stays with the call that created its row.
LEMMA JobsOwnRowsStep ==
    ASSUME JobInv, [Next]_vars
    PROVE  JobsOwnRows'
<1>. USE TypeParts DEF TypePart
<1>0. /\ TypeOK /\ JobsOwnRows /\ StepKept /\ RowsKept /\ UuidsKept /\ JobsTaken /\ MessagesSent
      /\ TypeOK'
  BY StepType, StepSends DEF JobInv, StepKept
<1>1. ASSUME NEW c \in Calls, NEW u \in Uuids, calls'[c].pc = "send", calls'[c].uuid = u
      PROVE  OwnsRow(c, u)'
  <2>1. CASE \E d \in Calls : Client(d) \/ Handler(d)
    BY <1>0, <1>1, <2>1, SendOwnsRow DEF Client, Handler
  <2>2. CASE UNCHANGED calls
    <3>1. OwnsRow(c, u)
      BY <1>0, <1>1, <2>2 DEF JobsOwnRows, At
    <3>. QED  BY <1>0, <3>1, OwnershipKept
  <2>3. CASE Exit
    BY <1>0, <1>1, <2>3, ExitType
  <2>4. CASE Starting \/ Install
    BY <2>2, <2>4, MainSteps DEF serverVars
  <2>. QED  BY <2>1, <2>2, <2>3, <2>4 DEF Next, Pipe, Loops, Quiet, vars, handlerVars
<1>2. ASSUME NEW c \in Calls, NEW u \in Uuids, task'[c].pc # "none", task'[c].uuid = u
      PROVE  OwnsRow(c, u)'
  <2>1. OwnsRow(c, u)
    BY <1>0, <1>2 DEF JobsTaken, JobsOwnRows
  <2>. QED  BY <1>0, <2>1, OwnershipKept
<1>3. ASSUME NEW i \in DOMAIN fileCh', NEW c \in Calls, NEW u \in Uuids,
             fileCh'[i].id = c, fileCh'[i].uuid = u
      PROVE  OwnsRow(c, u)'
  <2>1. OwnsRow(c, u)
    BY <1>0, <1>3 DEF MessagesSent, JobsOwnRows, At
  <2>. QED  BY <1>0, <2>1, OwnershipKept
<1>4. ASSUME NEW i \in DOMAIN witnessCh', NEW c \in Calls, NEW u \in Uuids,
             witnessCh'[i].id = c, witnessCh'[i].uuid = u
      PROVE  OwnsRow(c, u)'
  <2>1. OwnsRow(c, u)
    BY <1>0, <1>4 DEF MessagesSent, JobsOwnRows
  <2>. QED  BY <1>0, <2>1, OwnershipKept
<1>5. ASSUME NEW i \in DOMAIN proofCh', NEW c \in Calls, NEW u \in Uuids,
             proofCh'[i].id = c, proofCh'[i].uuid = u
      PROVE  OwnsRow(c, u)'
  <2>1. OwnsRow(c, u)
    BY <1>0, <1>5 DEF MessagesSent, JobsOwnRows
  <2>. QED  BY <1>0, <2>1, OwnershipKept
<1>6. /\ \A c \in Calls : calls'[c].pc = "send" => calls'[c].uuid \in Uuids
      /\ \A c \in Calls : task'[c].pc # "none" => task'[c].uuid \in Uuids
  BY <1>0 DEF CallsType, TasksType, Awaits, SubmitAwaits
<1>7. /\ \A i \in DOMAIN fileCh' : fileCh'[i].id \in Calls /\ fileCh'[i].uuid \in Uuids
      /\ \A i \in DOMAIN witnessCh' : witnessCh'[i].id \in Calls /\ witnessCh'[i].uuid \in Uuids
      /\ \A i \in DOMAIN proofCh' : proofCh'[i].id \in Calls /\ proofCh'[i].uuid \in Uuids
  <2>1. /\ \A i \in DOMAIN fileCh' : fileCh'[i] \in FileGenerator
        /\ \A i \in DOMAIN witnessCh' : witnessCh'[i] \in WitnessGenerator
        /\ \A i \in DOMAIN proofCh' : proofCh'[i] \in ProofGenerator
    BY <1>0, ElementOfSeq, LenProperties DEF FileType, WitnessType, ProofType
  <2>. QED  BY <2>1 DEF FileGenerator, WitnessGenerator, ProofGenerator
<1>. QED  BY <1>1, <1>2, <1>3, <1>4, <1>5, <1>6, <1>7 DEF JobsOwnRows, OwnsRow, Exists, At

\* In every reachable state, whatever carries a job belongs to the call that
\* created the row of its uuid.
THEOREM JobsOwnRowsCorrect == Spec => []JobsOwnRows
<1>1. Init => JobInv
  <2>1. Init => JobsOwnRows
    BY DEF Init, RpcInit, ChannelsInit, PipelineInit, IdleCall, NoTask, JobsOwnRows, At
  <2>. QED  BY <2>1, InitType DEF JobInv
<1>2. JobInv /\ [Next]_vars => JobInv'
  BY StepType, JobsOwnRowsStep DEF JobInv, StepKept
<1>3. JobInv => JobsOwnRows
  BY DEF JobInv
<1>. QED  BY <1>1, <1>2, <1>3, PTL DEF Spec

\* Hence two jobs of one uuid, which would work in the same ./tmp_<uuid> and on
\* the same row, are never in the pipeline together, for any number of
\* concurrent calls and any sequence of faults and restarts.
THEOREM OneJobPerUuidCorrect == Spec => []OneJobPerUuid
<1>1. JobsOwnRows => OneJobPerUuid
  <2>. SUFFICES ASSUME JobsOwnRows, NEW c \in Calls, NEW d \in Calls,
                       InPipeline(c), InPipeline(d), calls[c].uuid = calls[d].uuid
                PROVE  c = d
    BY DEF OneJobPerUuid
  <2>1. \A e \in Calls : InPipeline(e) => proofs[calls[e].uuid].owner = e
    BY DEF InPipeline, InFileChannel, Doing, JobsOwnRows, OwnsRow
  <2>. QED  BY <2>1
<1>. QED  BY <1>1, JobsOwnRowsCorrect, PTL
=============================================================================
