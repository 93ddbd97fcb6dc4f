-------------------------- MODULE AgreementProofs --------------------------
(***************************************************************************)
(* What the handlers of hello and submit_request guarantee in the whole    *)
(* server: agreements are used once, and rows and answers tell the truth.  *)
(***************************************************************************)
EXTENDS StepLemmas

----------------------------------------------------------------------------
(* The entries of the store *)

\* No uuid has two entries.
OnceIn(s) == \A i, j \in DOMAIN s : s[i].uuid = s[j].uuid => i = j

\* The entries of t are entries of s.
From(t, s) == \A k \in DOMAIN t : \E j \in DOMAIN s : t[k] = s[j]

\* The entries of t are e and entries of s.
Adds(t, e, s) == \A k \in DOMAIN t : t[k] = e \/ \E j \in DOMAIN s : t[k] = s[j]

\* No entry of s is for uuid u.
Lacks(s, u) == \A k \in DOMAIN s : s[k].uuid # u

\* Removing one entry of a list without duplicates removes all of its uuid;
LEMMA RemoveOnce ==
    ASSUME NEW S, NEW s \in Seq(S), NEW i \in DOMAIN s, OnceIn(s), NEW t, t = RemoveAt(s, i)
    PROVE  t \in Seq(S) /\ OnceIn(t) /\ From(t, s) /\ Lacks(t, s[i].uuid)
<1>. DEFINE a == SubSeq(s, 1, i - 1)
            b == SubSeq(s, i + 1, Len(s))
            at(k) == IF k < i THEN k ELSE k + 1
<1>0. /\ Len(s) \in Nat /\ DOMAIN s = 1..Len(s) /\ i \in 1..Len(s) /\ i \in Int
      /\ \A j \in 1..Len(s) : s[j] \in S
  BY LenProperties, ElementOfSeq
<1>1. a \in Seq(S) /\ Len(a) = i - 1 /\ \A k \in 1..(i - 1) : a[k] = s[k]
  BY <1>0, SubSeqProperties
<1>2. b \in Seq(S) /\ Len(b) = Len(s) - i /\ \A k \in 1..(Len(s) - i) : b[k] = s[i + k]
  BY <1>0, SubSeqProperties
<1>3. t = a \o b
  BY DEF RemoveAt
<1>. HIDE DEF a, b
<1>4. /\ t \in Seq(S) /\ Len(t) = Len(a) + Len(b)
      /\ \A k \in 1..(Len(a) + Len(b)) : t[k] = IF k <= Len(a) THEN a[k] ELSE b[k - Len(a)]
  <2>1. a \in Seq(S) /\ b \in Seq(S)
    BY <1>1, <1>2
  <2>2. /\ a \o b \in Seq(S) /\ Len(a \o b) = Len(a) + Len(b)
        /\ \A k \in 1..(Len(a) + Len(b)) : (a \o b)[k] = IF k <= Len(a) THEN a[k] ELSE b[k - Len(a)]
    BY <2>1, ConcatProperties
  <2>. QED  BY <1>3, <2>2
<1>5. DOMAIN t = 1..(Len(s) - 1)
  <2>1. DOMAIN t = 1..Len(t)
    BY <1>4, LenProperties
  <2>. QED  BY <1>0, <1>1, <1>2, <1>4, <2>1
<1>6. \A k \in DOMAIN t : at(k) \in DOMAIN s \ {i} /\ t[k] = s[at(k)]
  <2>1. TAKE k \in DOMAIN t
  <2>2. k \in Int /\ 1 <= k /\ k <= Len(s) - 1 /\ k \in 1..(Len(a) + Len(b))
    BY <1>0, <1>1, <1>2, <1>5
  <2>3. t[k] = IF k <= Len(a) THEN a[k] ELSE b[k - Len(a)]
    BY <1>4, <2>2
  <2>4. CASE k < i
    <3>1. k <= Len(a) /\ k \in 1..(i - 1) /\ k \in 1..Len(s) /\ at(k) = k /\ k # i
      BY <1>0, <1>1, <2>2, <2>4
    <3>. QED  BY <1>0, <1>1, <2>3, <3>1
  <2>5. CASE ~(k < i)
    <3>1. /\ ~(k <= Len(a)) /\ k - Len(a) \in 1..(Len(s) - i) /\ i + (k - Len(a)) = k + 1
          /\ at(k) = k + 1 /\ k + 1 \in 1..Len(s) /\ k + 1 # i
      BY <1>0, <1>1, <2>2, <2>5
    <3>2. t[k] = s[k + 1]
      BY <1>2, <2>3, <3>1
    <3>. QED  BY <1>0, <3>1, <3>2
  <2>. QED  BY <2>4, <2>5
<1>7. \A k, l \in DOMAIN t : at(k) = at(l) => k = l
  BY <1>0, <1>5
<1>. HIDE DEF at
<1>. QED  BY <1>4, <1>6, <1>7 DEF OnceIn, From, Lacks

\* evicting the last one leaves no duplicates;
LEMMA FrontOnce ==
    ASSUME NEW S, NEW s \in Seq(S), s # <<>>, OnceIn(s), NEW t, t = Front(s)
    PROVE  t \in Seq(S) /\ OnceIn(t) /\ From(t, s)
<1>1. Len(s) \in Nat \ {0} /\ DOMAIN s = 1..Len(s) /\ \A j \in 1..Len(s) : s[j] \in S
  BY EmptySeq, ElementOfSeq, LenProperties
<1>2. t = SubSeq(s, 1, Len(s) - 1)
  BY DEF Front
<1>3. t \in Seq(S) /\ Len(t) = Len(s) - 1 /\ \A k \in 1..(Len(s) - 1) : t[k] = s[k]
  BY <1>1, <1>2, SubSeqProperties
<1>4. DOMAIN t = 1..(Len(s) - 1)
  BY <1>3, LenProperties
<1>5. \A k \in DOMAIN t : k \in DOMAIN s /\ t[k] = s[k]
  BY <1>1, <1>3, <1>4
<1>. QED  BY <1>3, <1>5 DEF OnceIn, From

\* and a new first entry makes none if its uuid is not in the list.
LEMMA PutOnce ==
    ASSUME NEW S, NEW s \in Seq(S), NEW e \in S, OnceIn(s), Lacks(s, e.uuid),
           NEW t, t = <<e>> \o s
    PROVE  OnceIn(t) /\ Adds(t, e, s)
<1>. DEFINE h == <<e>>
<1>1. h \in Seq(S) /\ Len(h) = 1 /\ h[1] = e
  OBVIOUS
<1>2. t = h \o s
  OBVIOUS
<1>. HIDE DEF h
<1>3. /\ t \in Seq(S) /\ Len(t) = 1 + Len(s) /\ Len(s) \in Nat /\ DOMAIN s = 1..Len(s)
      /\ \A k \in 1..Len(t) : t[k] = IF k <= Len(h) THEN h[k] ELSE s[k - Len(h)]
  BY <1>1, <1>2, ConcatProperties, LenProperties
<1>4. DOMAIN t = 1..(1 + Len(s))
  BY <1>3, LenProperties
<1>5. \A k \in DOMAIN t : \/ k = 1 /\ t[k] = e
                          \/ k # 1 /\ k - 1 \in DOMAIN s /\ t[k] = s[k - 1]
  BY <1>1, <1>3, <1>4
<1>6. \A k, l \in DOMAIN t : k - 1 = l - 1 => k = l
  BY <1>4
<1>. QED  BY <1>5, <1>6 DEF OnceIn, Adds, Lacks

StoreOnce == OnceIn(ecdh_store)

\* The three operations of the store.
LEMMA InsertOnce ==
    ASSUME StoreType, StoreOnce, NEW u \in Uuids, NEW c \in Calls, NEW ok,
           insert_new_agreement(u, c, ok)
    PROVE  /\ StoreOnce'
           /\ \A k \in DOMAIN ecdh_store' :
                 \/ ecdh_store'[k].uuid = u /\ ecdh_store'[k].secret = c
                 \/ \E j \in DOMAIN ecdh_store : ecdh_store'[k] = ecdh_store[j]
<1>. DEFINE e == [uuid |-> u, secret |-> c]
<1>1. e \in Agreement /\ e.uuid = u /\ e.secret = c
  BY DEF Agreement
<1>2. Room \in Seq(Agreement) /\ OnceIn(Room) /\ From(Room, ecdh_store)
  <2>1. CASE Len(ecdh_store) >= StoreSize
    <3>1. ecdh_store # <<>>
      BY <2>1, StoreSizeAssumption, LenProperties, EmptySeq DEF StoreType
    <3>2. Room = Front(ecdh_store)
      BY <2>1 DEF Room
    <3>. QED  BY <3>1, <3>2, FrontOnce DEF StoreType, StoreOnce
  <2>2. CASE ~(Len(ecdh_store) >= StoreSize)
    BY <2>2 DEF Room, StoreType, StoreOnce, From
  <2>. QED  BY <2>1, <2>2
<1>3. ecdh_store' = ecdh_store \/ (~Holds(u) /\ ecdh_store' = <<e>> \o Room)
  BY DEF insert_new_agreement
<1>. HIDE DEF e
<1>4. CASE ecdh_store' = ecdh_store
  BY <1>4 DEF StoreOnce
<1>5. CASE ~Holds(u) /\ ecdh_store' = <<e>> \o Room
  <2>1. Lacks(Room, e.uuid)
    BY <1>1, <1>2, <1>5 DEF Holds, From, Lacks
  <2>2. \A t : t = <<e>> \o Room => OnceIn(t) /\ Adds(t, e, Room)
    BY <1>1, <1>2, <2>1, PutOnce
  <2>3. OnceIn(ecdh_store') /\ Adds(ecdh_store', e, Room)
    BY <1>5, <2>2
  <2>. QED  BY <1>1, <1>2, <2>3 DEF StoreOnce, From, Adds
<1>. QED  BY <1>3, <1>4, <1>5

\* A lookup only moves an entry.
LEMMA GetOnce ==
    ASSUME StoreType, StoreOnce, NEW u \in Uuids, get_shared_secret(u)
    PROVE  StoreOnce' /\ From(ecdh_store', ecdh_store)
<1>1. CASE Holds(u)
  <2>. DEFINE e == ecdh_store[Slot(u)]
              rest == RemoveAt(ecdh_store, Slot(u))
  <2>1. Slot(u) \in DOMAIN ecdh_store
    BY <1>1, SlotInDomain
  <2>2. e \in Agreement
    BY <2>1, ElementOfSeq, LenProperties DEF StoreType
  <2>3. /\ rest \in Seq(Agreement) /\ OnceIn(rest) /\ From(rest, ecdh_store)
        /\ Lacks(rest, e.uuid)
    BY <2>1, RemoveOnce DEF StoreType, StoreOnce
  <2>4. ecdh_store' = <<e>> \o rest
    BY <1>1 DEF get_shared_secret
  <2>5. \E j \in DOMAIN ecdh_store : e = ecdh_store[j]
    BY <2>1
  <2>. HIDE DEF e, rest
  <2>6. \A t : t = <<e>> \o rest => OnceIn(t) /\ Adds(t, e, rest)
    BY <2>2, <2>3, PutOnce
  <2>7. OnceIn(ecdh_store') /\ Adds(ecdh_store', e, rest)
    BY <2>4, <2>6
  <2>. QED  BY <2>3, <2>5, <2>7 DEF StoreOnce, From, Adds
<1>2. CASE ~Holds(u)
  BY <1>2 DEF get_shared_secret, StoreOnce, From
<1>. QED  BY <1>1, <1>2

\* After a removal the uuid is not in the store.
LEMMA RemoveAgreementOnce ==
    ASSUME StoreType, StoreOnce, NEW u \in Uuids, remove_agreement(u)
    PROVE  StoreOnce' /\ From(ecdh_store', ecdh_store) /\ Lacks(ecdh_store', u)
<1>1. CASE Holds(u)
  <2>1. Slot(u) \in DOMAIN ecdh_store /\ ecdh_store[Slot(u)].uuid = u
    BY <1>1, SlotInDomain
  <2>2. ecdh_store' = RemoveAt(ecdh_store, Slot(u))
    BY <1>1 DEF remove_agreement
  <2>. QED  BY <2>1, <2>2, RemoveOnce DEF StoreType, StoreOnce
<1>2. CASE ~Holds(u)
  BY <1>2 DEF remove_agreement, Holds, StoreOnce, From, Lacks
<1>. QED  BY <1>1, <1>2

----------------------------------------------------------------------------
(* An agreement is used once *)

\* A hello whose handler has returned, for uuid u.
Agreed(h, u) == At(h, "replied") /\ calls[h].uuid = u

\* What is in the store was put there by a hello for the uuid it is under.
StoreAgreed == \A i \in DOMAIN ecdh_store : Agreed(ecdh_store[i].secret, ecdh_store[i].uuid)

\* A handler has a key once submit_request has read one, and an agreement once it
\* has looked it up; both stem from hellos that have returned.
CallAgreed(c) ==
    /\ calls[c].pc \in {"idle", "attest", "insert"} => calls[c].key = None
    /\ calls[c].pc \in {"idle", "attest", "insert", "lookup"} => calls[c].used = None
    /\ calls[c].used # None => Agreed(calls[c].used, calls[c].uuid)
    /\ calls[c].key # None => Answered(calls[c].key, "attested")

\* AgreementConsumed is not inductive: it has to know that an agreement removed
\* under the uuid is the one that was used, and that it is not inserted again.
AgreeInv ==
    /\ TypeOK /\ StoreOnce /\ StoreAgreed
    /\ \A c \in Calls : CallAgreed(c)
    /\ AgreementConsumed

\* A handler that has returned does nothing any more.
LEMMA RepliedStays ==
    ASSUME TypeOK, [Next]_vars, NEW h \in Calls, At(h, "replied")
    PROVE  calls'[h] = calls[h]
<1>1. Steps
  BY StepMoves
<1>2. ASSUME NEW c \in Calls, CallMoves(c) PROVE calls'[h] = calls[h]
  BY <1>2 DEF CallMoves, Turns, At, Awaits, HelloAwaits, SubmitAwaits
<1>3. CASE ExitMoves
  BY <1>3 DEF ExitMoves, At, Awaits, HelloAwaits, SubmitAwaits
<1>. QED  BY <1>1, <1>2, <1>3 DEF Steps, serverVars, handlerVars

\* Agreements come into the store when the handler of a hello returns.
LEMMA StoreStems ==
    ASSUME TypeOK, StoreOnce, [Next]_vars
    PROVE  /\ StoreOnce'
           /\ \A k \in DOMAIN ecdh_store' :
                 \/ \E j \in DOMAIN ecdh_store : ecdh_store'[k] = ecdh_store[j]
                 \/ \E c \in Calls : /\ At(c, "insert") /\ calls'[c].pc = "replied"
                                     /\ calls'[c].uuid = ecdh_store'[k].uuid
                                     /\ ecdh_store'[k].secret = c
<1>. USE TypeParts DEF TypePart
<1>1. Steps
  BY StepMoves
<1>2. CASE UNCHANGED ecdh_store
  BY <1>2 DEF StoreOnce
<1>3. CASE ecdh_store' = <<>>
  BY <1>3 DEF StoreOnce, OnceIn
<1>4. ASSUME NEW c \in Calls, CallMoves(c), ecdh_store' # ecdh_store
      PROVE  /\ StoreOnce'
             /\ \A k \in DOMAIN ecdh_store' :
                   \/ \E j \in DOMAIN ecdh_store : ecdh_store'[k] = ecdh_store[j]
                   \/ /\ At(c, "insert") /\ calls'[c].pc = "replied"
                      /\ calls'[c].uuid = ecdh_store'[k].uuid
                      /\ ecdh_store'[k].secret = c
  <2>. DEFINE u == calls[c].uuid
  <2>0. calls[c].pc \in Awaits => u \in Uuids
    BY DEF CallsType
  <2>1. \/ /\ \E ok \in BOOLEAN : insert_new_agreement(u, c, ok)
           /\ At(c, "insert") /\ calls'[c].pc = "replied" /\ calls'[c].uuid = u
        \/ At(c, "lookup") /\ get_shared_secret(u)
        \/ At(c, "remove") /\ remove_agreement(u)
    BY <1>4 DEF CallMoves, Turns, Same
  <2>2. u \in Uuids
    BY <2>0, <2>1 DEF At, Awaits, HelloAwaits, SubmitAwaits
  <2>. HIDE DEF u
  <2>. QED  BY <2>1, <2>2, InsertOnce, GetOnce, RemoveAgreementOnce DEF From
<1>. QED  BY <1>1, <1>2, <1>3, <1>4 DEF Steps, ExitMoves, serverVars, handlerVars

\* Every step keeps what AgreeInv says of the store and of the calls.
LEMMA AgreeStep ==
    ASSUME AgreeInv, [Next]_vars
    PROVE  StoreAgreed' /\ AgreementConsumed' /\ \A c \in Calls : CallAgreed(c)'
<1>. USE TypeParts DEF TypePart
<1>0. TypeOK /\ StoreOnce /\ StoreAgreed /\ (\A c \in Calls : CallAgreed(c)) /\ AgreementConsumed
  BY DEF AgreeInv
<1>1. Steps
  BY <1>0, StepMoves
<1>2. \A h \in Calls : calls[h].pc = "replied" => calls'[h] = calls[h]
  BY <1>0, RepliedStays DEF At
<1>3. \A k \in DOMAIN ecdh_store' :
         \/ \E j \in DOMAIN ecdh_store : ecdh_store'[k] = ecdh_store[j]
         \/ \E c \in Calls : /\ calls[c].pc = "insert" /\ calls'[c].pc = "replied"
                             /\ calls'[c].uuid = ecdh_store'[k].uuid
                             /\ ecdh_store'[k].secret = c
  BY <1>0, StoreStems DEF At
<1>4. \A i \in DOMAIN ecdh_store : ecdh_store[i].secret \in Calls
  <2>1. \A i \in DOMAIN ecdh_store : ecdh_store[i] \in Agreement
    BY <1>0, LenProperties, ElementOfSeq DEF StoreType
  <2>. QED  BY <2>1 DEF Agreement
<1>5. \A i \in DOMAIN ecdh_store : /\ calls[ecdh_store[i].secret].pc = "replied"
                                   /\ calls[ecdh_store[i].secret].uuid = ecdh_store[i].uuid
  BY <1>0 DEF StoreAgreed, Agreed, At
<1>6. \A k \in DOMAIN ecdh_store' : /\ calls'[ecdh_store'[k].secret].pc = "replied"
                                    /\ calls'[ecdh_store'[k].secret].uuid = ecdh_store'[k].uuid
  BY <1>2, <1>3, <1>4, <1>5
<1>7. \A c \in Calls : calls[c] \in Call /\ CallAgreed(c)
  BY <1>0 DEF CallsType
<1>8. ASSUME NEW c \in Calls PROVE CallAgreed(c)'
  <2>0. /\ calls[c].key \in Calls \cup {None} /\ calls[c].used \in Calls \cup {None}
    BY <1>7 DEF Call
  <2>1. CASE calls'[c] = calls[c]
    BY <1>2, <1>7, <2>0, <2>1 DEF CallAgreed, Agreed, Answered, At
  <2>2. CASE Turns(c, calls[c].pc, "dropped", calls[c].reply)
    BY <1>2, <1>7, <2>0, <2>2 DEF CallAgreed, Agreed, Answered, At, Turns, Same
  <2>3. CASE CallMoves(c)
    <3>1. ASSUME NEW pc, NEW to, NEW r, Turns(c, pc, to, r),
                 to \notin {"idle", "attest", "insert", "lookup"} \/ pc = "attest"
          PROVE  CallAgreed(c)'
      BY <1>2, <1>7, <2>0, <3>1 DEF CallAgreed, Agreed, Answered, At, Turns, Same
    <3>2. ASSUME calls[c].pc = "idle", calls'[c].pc = "attest", calls'[c].key = calls[c].key,
                 calls'[c].used = calls[c].used
          PROVE  CallAgreed(c)'
      BY <1>7, <3>2 DEF CallAgreed
    <3>3. ASSUME calls[c].pc = "idle", calls'[c].pc = "lookup", calls'[c].key \in KeysKnown,
                 calls'[c].used = calls[c].used
          PROVE  CallAgreed(c)'
      BY <1>2, <1>7, <3>3 DEF CallAgreed, KeysKnown, Answered, At
    <3>4. ASSUME calls[c].pc = "lookup", calls'[c].pc \in {"create", "remove"},
                 calls'[c].used = SharedSecret(calls[c].uuid), calls'[c].uuid = calls[c].uuid,
                 calls'[c].key = calls[c].key
          PROVE  CallAgreed(c)'
      <4>1. calls'[c].used # None =>
               /\ calls'[c].used \in Calls /\ calls[calls'[c].used].pc = "replied"
               /\ calls[calls'[c].used].uuid = calls[c].uuid
        BY <1>4, <1>5, <3>4, SlotInDomain DEF SharedSecret
      <4>. QED  BY <1>2, <1>7, <2>0, <3>4, <4>1 DEF CallAgreed, Agreed, Answered, At
    <3>. QED  BY <2>3, <3>1, <3>2, <3>3, <3>4 DEF CallMoves, At, After
  <2>. QED  BY <1>1, <2>1, <2>2, <2>3
            DEF Steps, CallMoves, ExitMoves, serverVars, handlerVars
<1>9. ASSUME NEW c \in Calls, calls'[c].pc = "replied", NEW i \in DOMAIN ecdh_store',
             ecdh_store'[i].secret = calls'[c].used
      PROVE  FALSE
  <2>0. calls'[c].used \in Calls
    BY <1>3, <1>4, <1>9
  <2>1. CASE calls[c].pc = "replied"
    <3>1. calls'[c] = calls[c]
      BY <1>2, <2>1
    <3>2. calls[calls[c].used].pc = "replied"
      BY <1>7, <2>0, <3>1, CommonAssumption DEF CallAgreed, Agreed, At
    <3>3. \E j \in DOMAIN ecdh_store : ecdh_store[j].secret = calls[c].used
      BY <1>3, <1>9, <3>1, <3>2
    <3>. QED  BY <1>0, <2>1, <3>3 DEF AgreementConsumed, At
  <2>2. CASE calls[c].pc # "replied"
    <3>1. CallMoves(c)
      BY <1>1, <1>9, <2>2 DEF Steps, CallMoves, ExitMoves, Turns, serverVars, handlerVars
    <3>2. \/ calls[c].pc \in {"idle", "attest", "insert"} /\ calls'[c].used = calls[c].used
          \/ /\ calls[c].pc = "remove" /\ remove_agreement(calls[c].uuid)
             /\ calls'[c].uuid = calls[c].uuid
      BY <1>9, <3>1 DEF CallMoves, Turns, At, After, Same
    <3>3. calls[c].pc = "remove" /\ remove_agreement(calls[c].uuid) /\ calls'[c].uuid = calls[c].uuid
      BY <1>7, <2>0, <3>2, CommonAssumption DEF CallAgreed
    <3>4. calls[c].uuid \in Uuids
      BY <1>0, <3>3 DEF CallsType, Awaits, SubmitAwaits
    <3>5. Lacks(ecdh_store', calls[c].uuid)
      BY <1>0, <3>3, <3>4, RemoveAgreementOnce
    <3>6. calls'[calls'[c].used].uuid = calls'[c].uuid
      BY <1>8, <2>0, CommonAssumption DEF CallAgreed, Agreed
    <3>. QED  BY <1>6, <1>9, <3>3, <3>5, <3>6 DEF Lacks
  <2>. QED  BY <2>1, <2>2
<1>10. StoreAgreed'
  BY <1>6 DEF StoreAgreed, Agreed, At
<1>11. AgreementConsumed'
  BY <1>9 DEF AgreementConsumed, At
<1>. QED  BY <1>8, <1>10, <1>11

\* At first no agreement was made,
LEMMA AgreeInvInit == Init => AgreeInv
BY InitType DEF Init, RpcInit, StoreInit, IdleCall, AgreeInv, StoreOnce, OnceIn, StoreAgreed,
   CallAgreed, AgreementConsumed, At

\* and every step keeps AgreeInv.
LEMMA AgreeInvStep == AgreeInv /\ [Next]_vars => AgreeInv'
BY StepType, StoreStems, AgreeStep DEF AgreeInv, StepKept

\* Whatever calls race for a uuid, in whatever order they come and go, however
\* small the store: once submit_request has answered, the agreement it decrypted
\* with is not in the store, and so no later call is served with it.
THEOREM AgreementConsumedCorrect == Spec => []AgreementConsumed
<1>1. AgreeInv => AgreementConsumed
  BY DEF AgreeInv
<1>. QED  BY <1>1, AgreeInvInit, AgreeInvStep, PTL DEF Spec

----------------------------------------------------------------------------
(* Rows tell the truth about the requests they were created for *)

\* A call keeps what it was made with.
LEMMA FieldsKept ==
    ASSUME TypeOK, [Next]_vars, NEW c \in Calls, calls[c].pc # "idle"
    PROVE  /\ calls'[c].uuid = calls[c].uuid /\ calls'[c].key = calls[c].key
           /\ calls'[c].body = calls[c].body /\ calls'[c].pc # "idle"
<1>1. Steps
  BY StepMoves
<1>2. ASSUME NEW d \in Calls, CallMoves(d)
      PROVE  /\ calls'[c].uuid = calls[c].uuid /\ calls'[c].key = calls[c].key
             /\ calls'[c].body = calls[c].body /\ calls'[c].pc # "idle"
  BY <1>2 DEF CallMoves, Turns, Same, At, After
<1>3. CASE ExitMoves
  BY <1>3 DEF ExitMoves, Turns, Same
<1>. QED  BY <1>1, <1>2, <1>3 DEF Steps, serverVars

\* A row keeps its owner and the columns of its request; a new one stems from
\* the handler of submit_request that creates it, which goes on to queue the
\* job unless it does not learn that the row is there.
RowStem(u) ==
    \/ /\ proofs'[u].owner = proofs[u].owner /\ proofs'[u].request = proofs[u].request
       /\ (Exists(u) /\ Exists(u)') \/ (~Exists(u) /\ ~Exists(u)')
    \/ ~Exists(u) /\ proofs'[u] = NoRow
    \/ \E c \in Calls :
          /\ ~Exists(u) /\ calls[c].pc = "create" /\ calls[c].uuid = u
          /\ proofs'[u].owner = c /\ proofs'[u].request = metadata(calls[c].body)
          /\ Exists(u)' /\ (calls'[c].pc = "send" \/ "unknown" \in Faults)

\* Only create_proof_status makes a row, from the call it was made for.
LEMMA RowStems ==
    ASSUME TypeOK, [Next]_vars, NEW w \in Uuids
    PROVE  RowStem(w)
<1>. USE TypeParts DEF TypePart
<1>0. proofs \in [Uuids -> Row] /\ TableType /\ CallsType /\ TasksType /\ Steps
  BY StepMoves DEF TableType
<1>1. CASE UNCHANGED proofs
  BY <1>1 DEF RowStem, Exists
<1>2. ASSUME NEW c \in Calls, NEW ok \in BOOLEAN, calls[c].pc = "create",
             create_proof_status(calls[c].uuid, c, metadata(calls[c].body), calls[c].body.fits, ok),
             ok => calls'[c].pc = "send"
      PROVE  RowStem(w)
  <2>. DEFINE u == calls[c].uuid
              request == metadata(calls[c].body)
              valid == ~Exists(u) /\ calls[c].body.fits /\ InsertColumns \subseteq Columns
              row == [NoRow EXCEPT !.status = Pending, !.owner = c, !.request = request]
  <2>1. u \in Uuids
    BY <1>0, <1>2 DEF CallsType, Awaits, SubmitAwaits
  <2>2. row.status # Absent /\ row.owner = c /\ row.request = request
    BY DEF NoRow, Pending, Absent
  <2>3. Execute(valid, u, row, ok)
    BY <1>2 DEF create_proof_status
  <2>4. valid => ~Exists(u)
    OBVIOUS
  <2>. HIDE DEF row, valid
  <2>5. \/ proofs' = proofs
        \/ /\ ~Exists(u) /\ proofs' = [proofs EXCEPT ![u] = row]
           /\ calls'[c].pc = "send" \/ "unknown" \in Faults
    BY <1>2, <2>3, <2>4 DEF Execute, Write
  <2>6. CASE proofs' = proofs
    BY <1>1, <2>6
  <2>7. CASE /\ ~Exists(u) /\ proofs' = [proofs EXCEPT ![u] = row]
             /\ calls'[c].pc = "send" \/ "unknown" \in Faults
    <3>1. CASE w = u
      <4>1. proofs'[w] = row
        BY <1>0, <2>1, <2>7, <3>1
      <4>. QED  BY <1>2, <2>2, <2>7, <3>1, <4>1 DEF RowStem, Exists
    <3>2. CASE w # u
      <4>1. proofs'[w] = proofs[w]
        BY <1>0, <2>1, <2>7, <3>2
      <4>. QED  BY <4>1 DEF RowStem, Exists
    <3>. QED  BY <3>1, <3>2
  <2>. QED  BY <2>5, <2>6, <2>7
<1>3. ASSUME NEW u \in Uuids, NEW row, NEW valid, NEW ok, Execute(valid, u, Update(u, row), ok),
             row.owner = proofs[u].owner, row.request = proofs[u].request, row.status # Absent
      PROVE  RowStem(w)
  <2>1. proofs' = proofs \/ proofs' = [proofs EXCEPT ![u] = Update(u, row)]
    BY <1>0, <1>3, ExecuteWrites
  <2>2. CASE proofs' = [proofs EXCEPT ![u] = Update(u, row)] /\ w = u
    <3>1. proofs'[w] = Update(u, row)
      BY <1>0, <2>2
    <3>. QED  BY <1>3, <2>2, <3>1 DEF RowStem, Update, Exists
  <2>3. CASE proofs' = [proofs EXCEPT ![u] = Update(u, row)] /\ w # u
    <3>1. proofs'[w] = proofs[w]
      BY <1>0, <2>3
    <3>. QED  BY <3>1 DEF RowStem, Exists
  <2>. QED  BY <1>1, <2>1, <2>2, <2>3
<1>4. ASSUME NEW c \in Calls, task[c].pc # "none", NEW ok, NEW p, NEW storable,
             \/ set_witness_generated(task[c].uuid, ok) \/ update_proof(task[c].uuid, p, ok)
             \/ fail_proof(task[c].uuid, storable, ok)
      PROVE  RowStem(w)
  <2>. DEFINE u == task[c].uuid
              row1 == [proofs[u] EXCEPT !.status = WitnessGenerated, !.witness_generated_at = TRUE]
              row2 == [proofs[u] EXCEPT !.status = ProofGenererated, !.proof = p]
              row3 == [proofs[u] EXCEPT !.status = Failed, !.reason = TRUE]
  <2>1. u \in Uuids /\ proofs[u] \in Row
    BY <1>0, <1>4 DEF TasksType
  <2>2. row1.owner = proofs[u].owner /\ row1.request = proofs[u].request /\ row1.status # Absent
    BY <2>1 DEF Row, WitnessGenerated, Absent
  <2>3. row2.owner = proofs[u].owner /\ row2.request = proofs[u].request /\ row2.status # Absent
    BY <2>1 DEF Row, ProofGenererated, Absent
  <2>4. row3.owner = proofs[u].owner /\ row3.request = proofs[u].request /\ row3.status # Absent
    BY <2>1 DEF Row, Failed, Absent
  <2>. DEFINE valid2 == p # None
  <2>5. \/ Execute(TRUE, u, Update(u, row1), ok) \/ Execute(valid2, u, Update(u, row2), ok)
        \/ Execute(storable, u, Update(u, row3), ok)
    BY <1>4 DEF set_witness_generated, update_proof, fail_proof
  <2>. HIDE DEF u, row1, row2, row3, valid2
  <2>. QED  BY <1>3, <2>1, <2>2, <2>3, <2>4, <2>5
<1>5. ASSUME NEW c \in Calls, CallMoves(c) PROVE RowStem(w)
  <2>1. CASE UNCHANGED proofs
    BY <1>1, <2>1
  <2>2. CASE \E ok \in BOOLEAN :
                /\ create_proof_status(calls[c].uuid, c, metadata(calls[c].body),
                                       calls[c].body.fits, ok)
                /\ calls[c].pc = "create" /\ (ok => calls'[c].pc = "send")
    BY <1>2, <2>2
  <2>. QED  BY <1>5, <2>1, <2>2 DEF CallMoves, Turns, At
<1>6. ASSUME NEW c \in Calls, JobMoves(c) PROVE RowStem(w)
  BY <1>1, <1>4, <1>6 DEF JobMoves, Move
<1>. QED  BY <1>0, <1>1, <1>5, <1>6 DEF Steps, LoopMoves, ExitMoves, serverVars

\* Call c encrypted under the secret that an attested hello agreed for its uuid.
Understood(c) ==
    LET h == calls[c].key
    IN  h # None /\ calls[h].uuid = calls[c].uuid /\ Answered(h, "attested")

\* The row of u is what its owner, a submit_request that was understood, asked for.
RowTrue(u) ==
    LET c == proofs[u].owner
    IN  /\ c \in Calls /\ calls[c].uuid = u /\ calls[c].pc # "idle" /\ Understood(c)
        /\ calls[c].body \in Bodies /\ proofs[u].request = metadata(calls[c].body)

\* RowHasAgreement and RowDescribesRequest rest on what the handler checked
\* before it came to create the row.
RowInv ==
    /\ AgreeInv
    /\ \A c \in Calls : At(c, "create") => Understood(c)
    /\ \A u \in Uuids : Exists(u) => RowTrue(u)

\* What a call was found to be stays true.
LEMMA UnderstoodStays ==
    ASSUME AgreeInv, [Next]_vars, NEW c \in Calls, calls[c].pc # "idle", Understood(c)
    PROVE  Understood(c)'
<1>0. TypeOK
  BY DEF AgreeInv
<1>1. calls'[c].uuid = calls[c].uuid /\ calls'[c].key = calls[c].key
  BY <1>0, FieldsKept
<1>2. calls[c].key \in Calls
  BY <1>0, TypeParts DEF TypePart, CallsType, Call, Understood
<1>3. calls'[calls[c].key] = calls[calls[c].key]
  BY <1>0, <1>2, RepliedStays DEF Understood, Answered
<1>. QED  BY <1>1, <1>2, <1>3 DEF Understood, Answered, At

\* A request is accepted by the checks of submit_request only if it was
\* understood.
LEMMA CreateUnderstood ==
    ASSUME AgreeInv, [Next]_vars, NEW c \in Calls, calls[c].pc # "create", calls'[c].pc = "create"
    PROVE  calls[c].pc # "idle" /\ Understood(c)
<1>. USE TypeParts DEF TypePart
<1>0. TypeOK /\ StoreAgreed /\ CallAgreed(c) /\ Steps
  BY StepMoves DEF AgreeInv
<1>1. CallMoves(c)
  BY <1>0 DEF Steps, CallMoves, ExitMoves, Turns, serverVars
<1>. DEFINE u == calls[c].uuid
            secret == SharedSecret(u)
            verdict == Verdict(secret, calls[c].key, calls[c].body)
<1>2. calls[c].pc = "lookup" /\ calls'[c].pc = After(verdict, "create")
  BY <1>1 DEF CallMoves, Turns, At
<1>3. verdict = "accepted"
  BY <1>2 DEF After
<1>4. secret # None /\ secret = calls[c].key
  BY <1>3 DEF Verdict, decrypt
<1>5. Holds(u) /\ secret = ecdh_store[Slot(u)].secret
  BY <1>4 DEF SharedSecret
<1>6. calls[secret].uuid = u
  BY <1>0, <1>5, SlotInDomain DEF StoreAgreed, Agreed
<1>. QED  BY <1>0, <1>2, <1>4, <1>6 DEF Understood, CallAgreed

\* At first there is no row,
LEMMA RowInvInit == Init => RowInv
BY AgreeInvInit DEF Init, RpcInit, TableInit, NoRow, IdleCall, RowInv, At, Exists

\* and every row was made from what its call had when it was at "create".
LEMMA RowInvStep ==
    ASSUME RowInv, [Next]_vars
    PROVE  RowInv'
<1>. USE TypeParts DEF TypePart
<1>0. AgreeInv /\ AgreeInv' /\ TypeOK /\ CallsType
  BY AgreeInvStep DEF RowInv, AgreeInv
<1>1. ASSUME NEW c \in Calls, calls'[c].pc = "create" PROVE Understood(c)'
  <2>1. calls[c].pc # "idle" /\ Understood(c)
    BY <1>0, <1>1, CreateUnderstood DEF RowInv, At
  <2>. QED  BY <1>0, <2>1, UnderstoodStays
<1>2. ASSUME NEW c \in Calls, calls[c].pc # "idle", Understood(c), calls[c].body \in Bodies,
             NEW u \in Uuids, calls[c].uuid = u, proofs'[u].owner = c,
             proofs'[u].request = metadata(calls[c].body)
      PROVE  RowTrue(u)'
  BY <1>0, <1>2, FieldsKept, UnderstoodStays DEF RowTrue
<1>3. ASSUME NEW u \in Uuids, Exists(u)' PROVE RowTrue(u)'
  <2>1. RowStem(u)
    BY <1>0, RowStems
  <2>2. CASE /\ proofs'[u].owner = proofs[u].owner /\ proofs'[u].request = proofs[u].request
             /\ Exists(u)
    <3>1. RowTrue(u)
      BY <2>2 DEF RowInv
    <3>. QED  BY <1>2, <2>2, <3>1 DEF RowTrue
  <2>3. ASSUME NEW c \in Calls, calls[c].pc = "create", calls[c].uuid = u,
               proofs'[u].owner = c, proofs'[u].request = metadata(calls[c].body)
        PROVE  RowTrue(u)'
    <3>1. calls[c].body \in Bodies /\ Understood(c) /\ calls[c].pc # "idle"
      BY <1>0, <2>3 DEF CallsType, SubmitAwaits, RowInv, At
    <3>. QED  BY <1>2, <2>3, <3>1
  <2>4. proofs'[u] # NoRow
    BY <1>3 DEF Exists, NoRow
  <2>. QED  BY <1>3, <2>1, <2>2, <2>3, <2>4 DEF RowStem
<1>. QED  BY <1>0, <1>1, <1>3 DEF RowInv, At

\* A row exists only for a request that was encrypted under the secret agreed by
\* an attested hello for the very same uuid, whatever calls race for the uuid,
\* whatever fails and however often the process is started again.
THEOREM RowHasAgreementCorrect == Spec => []RowHasAgreement
<1>1. RowInv => RowHasAgreement
  BY DEF RowInv, RowTrue, Understood, RowHasAgreement
<1>2. RowInv /\ [Next]_vars => RowInv'
  BY RowInvStep
<1>. QED  BY <1>1, <1>2, RowInvInit, PTL DEF Spec

\* The reinterpretation of a version is undone by its reader.
LEMMA VersionReadBack ==
    ASSUME NEW v \in U32
    PROVE  as_u32(as_i32(v)) = v
BY RequestAssumption DEF U32, as_u32, as_i32

\* So is the code of a proof type.
LEMMA TypeReadBack ==
    ASSUME NEW t \in ProofTypes
    PROVE  try_from(into_i32[t]) = t
<1>1. t \in Variants["register"] \cup Variants["dsc"] \cup Variants["disclose"]
  BY DEF ProofTypes, Variants
<1>2. t \in {"register", "dsc", "disclose", "register_id", "dsc_id", "disclose_id",
            "register_aadhaar", "disclose_aadhaar", "register_kyc", "disclose_kyc"}
  BY <1>1 DEF Variants
<1>. QED  BY <1>2 DEF into_i32, try_from

\* Whoever reads a row finds in it what the client of the call that created it
\* asked for, for every version a u32 can hold and every width of the integers.
THEOREM RowDescribesRequestCorrect == Spec => []RowDescribesRequest
<1>1. ASSUME NEW b \in Bodies
      PROVE  /\ try_from(metadata(b).proof_type) = b.type
             /\ metadata(b).endpoint = b.endpoint
             /\ Discloses(b.type) => as_u32(metadata(b).version) = Version(b)
  <2>1. b.type \in ProofTypes /\ b.version \in U32 \cup {None}
    BY BodiesAssumption DEF Body
  <2>2. Version(b) \in U32
    BY <2>1, RequestAssumption DEF Version, default_version, U32
  <2>3. /\ metadata(b).proof_type = into_i32[b.type] /\ metadata(b).endpoint = b.endpoint
        /\ Discloses(b.type) => metadata(b).version = as_i32(Version(b))
    BY DEF metadata
  <2>. QED  BY <2>1, <2>2, <2>3, VersionReadBack, TypeReadBack
<1>2. RowInv => RowDescribesRequest
  BY <1>1 DEF RowInv, RowTrue, RowDescribesRequest
<1>3. RowInv /\ [Next]_vars => RowInv'
  BY RowInvStep
<1>. QED  BY <1>2, <1>3, RowInvInit, PTL DEF Spec

----------------------------------------------------------------------------
(* Answers tell the truth about the table *)

\* A handler that has decided its answer, or given it.
Decided(c, reply) == calls[c].pc \in {"remove", "replied"} /\ calls[c].reply = reply

\* AcceptedOwnsRow before the answer is given, and the answers a hello can have.
AnswerInv ==
    /\ JobInv
    /\ \A c \in Calls : Decided(c, "accepted") => OwnsRow(c, calls[c].uuid) /\ calls[c].uuid \in Uuids
    /\ \A c \in Calls : At(c, "insert") => calls[c].reply \in {"attested", "unattested"}
    /\ \A c \in Calls : At(c, "send") => calls[c].reply = "accepted"

\* How a handler comes to an answer, and keeps it.
LEMMA AnswerStems ==
    ASSUME TypeOK, [Next]_vars, NEW c \in Calls
    PROVE  /\ calls'[c].pc \in {"remove", "replied"} =>
                 \/ calls[c].pc \in {"remove", "replied"} /\ calls'[c].reply = calls[c].reply
                 \/ calls[c].pc = "send" /\ calls'[c].reply = calls[c].reply
                 \/ /\ calls[c].pc = "insert"
                    /\ calls'[c].reply = calls[c].reply \/ calls'[c].reply = "UuidExists"
                 \/ /\ calls[c].pc = "create" /\ calls'[c].reply = "CouldNotCreate"
                    /\ create_proof_status(calls[c].uuid, c, metadata(calls[c].body),
                                           calls[c].body.fits, FALSE)
                 \/ /\ calls[c].pc \in {"idle", "attest", "lookup"}
                    /\ calls'[c].reply \notin {"accepted", "CouldNotCreate"}
           /\ calls'[c].pc = "insert" =>
                 \/ calls[c].pc = "insert" /\ calls'[c].reply = calls[c].reply
                 \/ calls'[c].reply \in {"attested", "unattested"}
           /\ calls'[c].pc = "send" =>
                 \/ calls[c].pc = "send" /\ calls'[c].reply = calls[c].reply
                 \/ calls[c].pc = "create" /\ calls'[c].reply = "accepted"
<1>1. Steps
  BY StepMoves
<1>. DEFINE u == calls[c].uuid
            secret == SharedSecret(u)
            verdict == Verdict(secret, calls[c].key, calls[c].body)
<1>2. CASE calls'[c] = calls[c]
  BY <1>2
<1>3. CASE calls'[c].pc = "dropped"
  BY <1>3
<1>4. CASE CallMoves(c)
  <2>1. verdict # "CouldNotCreate"
    BY DEF Verdict
  <2>2. CASE /\ calls[c].pc = "lookup" /\ calls'[c].pc = After(verdict, "create")
             /\ calls'[c].reply = verdict
    BY <2>1, <2>2 DEF After
  <2>3. CASE \E ok \in BOOLEAN :
                /\ create_proof_status(u, c, metadata(calls[c].body), calls[c].body.fits, ok)
                /\ IF ok THEN Turns(c, "create", "send", "accepted")
                         ELSE Turns(c, "create", "remove", "CouldNotCreate")
    <3>1. PICK ok \in BOOLEAN :
             /\ create_proof_status(u, c, metadata(calls[c].body), calls[c].body.fits, ok)
             /\ IF ok THEN Turns(c, "create", "send", "accepted")
                      ELSE Turns(c, "create", "remove", "CouldNotCreate")
      BY <2>3
    <3>2. CASE ok = TRUE
      BY <3>1, <3>2 DEF Turns, At
    <3>3. CASE ok = FALSE
      BY <3>1, <3>3 DEF Turns, At
    <3>. QED  BY <3>2, <3>3
  <2>4. CASE \/ \E from \in {"idle", "attest"}, r \in Refusals \cup {"AttestationError"} :
                   Turns(c, from, "replied", r)
             \/ \E r \in {"attested", "unattested"} : Turns(c, "attest", "insert", r)
             \/ calls'[c].pc \in {"attest", "lookup", "dropped"}
             \/ \E ok \in BOOLEAN :
                   Turns(c, "insert", "replied", IF ok THEN calls[c].reply ELSE "UuidExists")
             \/ Turns(c, "send", "remove", calls[c].reply)
             \/ Turns(c, "remove", "replied", calls[c].reply)
    BY <2>4 DEF Turns, At, Refusals
  <2>. QED  BY <1>4, <2>2, <2>3, <2>4 DEF CallMoves, At, Turns
<1>. QED  BY <1>1, <1>2, <1>3, <1>4 DEF Steps, CallMoves, ExitMoves, Turns, serverVars

\* At first nobody has an answer,
LEMMA AnswerInvInit == Init => AnswerInv
<1>1. Init => JobsOwnRows
  BY DEF Init, RpcInit, ChannelsInit, PipelineInit, IdleCall, NoTask, JobsOwnRows, At
<1>. QED  BY <1>1, InitType DEF Init, RpcInit, IdleCall, AnswerInv, JobInv, Decided, At

\* and a call that got its row keeps it.
LEMMA AnswerInvStep ==
    ASSUME AnswerInv, [Next]_vars
    PROVE  AnswerInv'
<1>. USE TypeParts DEF TypePart
<1>0. JobInv /\ JobInv' /\ TypeOK /\ RowsKept /\ UuidsKept /\ CallsType
  BY StepType, JobsOwnRowsStep DEF AnswerInv, JobInv, StepKept
<1>1. ASSUME NEW c \in Calls, Decided(c, "accepted")'
      PROVE  OwnsRow(c, calls[c].uuid)' /\ calls'[c].uuid \in Uuids
  <2>1. Decided(c, "accepted") \/ calls[c].pc = "send"
    BY <1>0, <1>1, AnswerStems DEF AnswerInv, Decided, At
  <2>2. OwnsRow(c, calls[c].uuid) /\ calls[c].uuid \in Uuids
    BY <1>0, <2>1 DEF AnswerInv, JobInv, JobsOwnRows, At, CallsType, Awaits, SubmitAwaits
  <2>3. PICK u \in Uuids : u = calls[c].uuid
    BY <2>2
  <2>4. calls'[c].uuid = u
    BY <1>0, <2>3 DEF UuidsKept
  <2>5. OwnsRow(c, u)'
    BY <1>0, <2>2, <2>3, OwnershipKept
  <2>. QED  BY <2>4, <2>5 DEF OwnsRow, Exists
<1>. QED  BY <1>0, <1>1, AnswerStems DEF AnswerInv, At

\* An accepted submission is the one whose request is in the table, so that of
\* any number of submissions racing for a uuid at most one is told so.
THEOREM AcceptedOwnsRowCorrect == Spec => []AcceptedOwnsRow
<1>1. AnswerInv => AcceptedOwnsRow
  BY DEF AnswerInv, Decided, OwnsRow, AcceptedOwnsRow, Answered, At
<1>2. AnswerInv /\ [Next]_vars => AnswerInv'
  BY AnswerInvStep
<1>. QED  BY <1>1, <1>2, AnswerInvInit, PTL DEF Spec

\* Where a handler is before it has the answer to create_proof_status.
Before == {"idle", "attest", "insert", "lookup", "create"}

\* Nothing leads back to the places before the insert.
LEMMA BeforeStems ==
    ASSUME TypeOK, [Next]_vars, NEW c \in Calls, calls'[c].pc \in Before
    PROVE  calls[c].pc \in Before
<1>1. Steps
  BY StepMoves
<1>2. CASE CallMoves(c)
  BY <1>2 DEF CallMoves, Turns, At, After, Before
<1>. QED  BY <1>1, <1>2 DEF Steps, CallMoves, ExitMoves, Turns, serverVars, Before

\* A call has no row before that, and none after a refusal.
Rowless(c) ==
    \/ calls[c].pc \in Before
    \/ calls[c].pc \in {"remove", "replied"} /\ calls[c].reply # "accepted"
    => \A u \in Uuids : proofs[u].owner # c

RefusalInv == AnswerInv /\ \A c \in Calls : Rowless(c)

\* A handler told that its insert failed has made no row, if the answer is true.
LEMMA RefusalInvStep ==
    ASSUME "unknown" \notin Faults, RefusalInv, [Next]_vars
    PROVE  RefusalInv'
<1>. USE TypeParts DEF TypePart
<1>0. AnswerInv /\ AnswerInv' /\ TypeOK /\ CallsType
  BY AnswerInvStep DEF RefusalInv, AnswerInv, JobInv
<1>1. ASSUME NEW c \in Calls, NEW u \in Uuids, proofs'[u].owner = c,
             \/ calls'[c].pc \in Before
             \/ calls'[c].pc \in {"remove", "replied"} /\ calls'[c].reply # "accepted"
      PROVE  FALSE
  <2>1. RowStem(u)
    BY <1>0, RowStems
  <2>2. proofs'[u].owner = proofs[u].owner
    <3>1. NoRow.owner # c
      BY CommonAssumption DEF NoRow
    <3>2. ASSUME NEW d \in Calls, calls[d].pc = "create", proofs'[u].owner = d,
                 calls'[d].pc = "send"
          PROVE  FALSE
      BY <1>1, <3>2 DEF Before
    <3>. QED  BY <1>1, <2>1, <3>1, <3>2 DEF RowStem
  <2>3. CASE calls'[c].pc \in Before
    <3>1. calls[c].pc \in Before
      BY <1>0, <2>3, BeforeStems
    <3>. QED  BY <1>1, <2>2, <3>1 DEF RefusalInv, Rowless
  <2>4. CASE calls'[c].pc \in {"remove", "replied"} /\ calls'[c].reply # "accepted"
    <3>1. \/ calls[c].pc \in Before
          \/ calls[c].pc \in {"remove", "replied"} /\ calls[c].reply # "accepted"
      BY <1>0, <2>4, AnswerStems DEF AnswerInv, At, Before
    <3>. QED  BY <1>1, <2>2, <3>1 DEF RefusalInv, Rowless
  <2>. QED  BY <1>1, <2>3, <2>4
<1>2. \A c \in Calls : Rowless(c)'
  BY <1>1 DEF Rowless
<1>. QED  BY <1>0, <1>2 DEF RefusalInv

\* Unless the answer to a statement is lost after it took effect, a client that
\* is told its submission was refused left no row behind.
THEOREM RefusedLeavesNoRowCorrect ==
    ASSUME "unknown" \notin Faults
    PROVE  Spec => []RefusedLeavesNoRow
<1>1. Init => RefusalInv
  BY AnswerInvInit, CommonAssumption DEF Init, RpcInit, TableInit, NoRow, RefusalInv, Rowless
<1>2. RefusalInv /\ [Next]_vars => RefusalInv'
  BY RefusalInvStep
<1>3. RefusalInv => RefusedLeavesNoRow
  BY DEF RefusalInv, Rowless, RefusedLeavesNoRow, At
<1>. QED  BY <1>1, <1>2, <1>3, PTL DEF Spec

\* A request that could not be stored met a row of its uuid.
ReuseInv ==
    /\ RefusalInv
    /\ \A c \in Calls : Decided(c, "CouldNotCreate") /\ calls[c].body.fits =>
          calls[c].uuid \in Uuids /\ Exists(calls[c].uuid)

\* While the database works and the table has the columns the INSERT names, a
\* request whose values fit is refused only because its uuid was submitted
\* before, by another call.
THEOREM RefusedOnlyOnReuseCorrect ==
    ASSUME Faults \cap {"db", "unknown"} = {}, InsertColumns \subseteq Columns
    PROVE  Spec => []RefusedOnlyOnReuse
<1>1. Init => ReuseInv
  BY AnswerInvInit, CommonAssumption
  DEF Init, RpcInit, TableInit, NoRow, IdleCall, RefusalInv, Rowless, ReuseInv, Decided
<1>2. ASSUME ReuseInv, [Next]_vars PROVE ReuseInv'
  <2>. USE TypeParts DEF TypePart
  <2>0. RefusalInv /\ RefusalInv' /\ AnswerInv /\ TypeOK /\ RowsKept /\ UuidsKept /\ CallsType
    BY <1>2, RefusalInvStep, StepType DEF ReuseInv, RefusalInv, AnswerInv, JobInv, StepKept
  <2>1. ASSUME NEW c \in Calls, Decided(c, "CouldNotCreate")', calls'[c].body.fits
        PROVE  calls'[c].uuid \in Uuids /\ Exists(calls[c].uuid)'
    <3>1. \/ Decided(c, "CouldNotCreate")
          \/ calls[c].pc = "create" /\ create_proof_status(calls[c].uuid, c, metadata(calls[c].body),
                                                           calls[c].body.fits, FALSE)
      BY <1>2, <2>0, <2>1, AnswerStems DEF AnswerInv, Decided, At
    <3>2. calls[c].body = calls'[c].body
      BY <1>2, <2>0, <3>1, FieldsKept DEF Decided
    <3>3. calls[c].uuid \in Uuids /\ Exists(calls[c].uuid)
      <4>1. CASE Decided(c, "CouldNotCreate")
        BY <1>2, <2>1, <3>2, <4>1 DEF ReuseInv
      <4>2. CASE /\ calls[c].pc = "create"
                 /\ create_proof_status(calls[c].uuid, c, metadata(calls[c].body),
                                        calls[c].body.fits, FALSE)
        BY <2>0, <2>1, <3>2, <4>2
        DEF create_proof_status, Execute, CallsType, Awaits, SubmitAwaits
      <4>. QED  BY <3>1, <4>1, <4>2
    <3>. QED  BY <2>0, <3>3 DEF UuidsKept, RowsKept, Exists
  <2>. QED  BY <2>0, <2>1 DEF ReuseInv
<1>3. ReuseInv => RefusedOnlyOnReuse
  BY DEF ReuseInv, RefusalInv, Rowless, Decided, RefusedOnlyOnReuse, Answered, At
<1>. QED  BY <1>1, <1>2, <1>3, PTL DEF Spec
=============================================================================
