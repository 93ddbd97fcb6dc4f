-------------------------- MODULE LifecycleProofs --------------------------
(***************************************************************************)
(* A job is in one place at a time, the status of its row fits that place, *)
(* and therefore the server implements ProofLifecycle, for any number of   *)
(* calls, uuids, circuits and faults.                                      *)
(***************************************************************************)
EXTENDS StepLemmas

----------------------------------------------------------------------------
(* A job is in one place *)

\* No two messages of a channel are about one job.
Distinct(ch) == \A i, j \in DOMAIN ch : ch[i].id = ch[j].id => i = j

\* A send keeps the messages distinct if nothing of that call was queued,
LEMMA SendDistinct ==
    ASSUME NEW S, NEW ch \in Seq(S), NEW m \in S, Distinct(ch),
           \A i \in DOMAIN ch : ch[i].id # m.id
    PROVE  Distinct(Append(ch, m))
<1>1. /\ Len(ch) \in Nat /\ DOMAIN ch = 1..Len(ch)
      /\ DOMAIN Append(ch, m) = 1..(Len(ch) + 1)
      /\ \A i \in 1..Len(ch) : Append(ch, m)[i] = ch[i]
      /\ Append(ch, m)[Len(ch) + 1] = m
  BY AppendProperties, LenProperties
<1>. QED  BY <1>1 DEF Distinct

\* and a receive leaves no second message of the call it takes up.
LEMMA ReceiveDistinct ==
    ASSUME NEW S, NEW ch \in Seq(S), ch # <<>>, Distinct(ch)
    PROVE  /\ Distinct(Tail(ch))
           /\ \A i \in DOMAIN Tail(ch) : Tail(ch)[i].id # ch[1].id
<1>1. Len(ch) \in Nat \ {0} /\ DOMAIN ch = 1..Len(ch)
  BY EmptySeq, LenProperties
<1>2. /\ Tail(ch) \in Seq(S) /\ Len(Tail(ch)) = Len(ch) - 1
      /\ \A i \in 1..Len(Tail(ch)) : Tail(ch)[i] = ch[i + 1]
  BY HeadTailProperties
<1>3. DOMAIN Tail(ch) = 1..(Len(ch) - 1)
  BY <1>2, LenProperties
<1>4. \A i \in DOMAIN Tail(ch) : i + 1 \in DOMAIN ch /\ Tail(ch)[i] = ch[i + 1] /\ i \in Nat \ {0}
  BY <1>1, <1>2, <1>3
<1>5. 1 \in DOMAIN ch
  BY <1>1
<1>. QED  BY <1>4, <1>5 DEF Distinct

\* The handler of c has sent its job, or will not any more.
Sent(c) == calls[c].pc \in {"remove", "replied", "dropped"}

\* A job is with the handler, in one message of one channel, or with a task;
\* the task of a queued job waits for the message to be taken.
JobsPlaced ==
    /\ Distinct(fileCh) /\ Distinct(witnessCh) /\ Distinct(proofCh)
    /\ \A i \in DOMAIN fileCh : Doing(fileCh[i].id, "none") /\ Sent(fileCh[i].id)
    /\ \A i \in DOMAIN witnessCh : Doing(witnessCh[i].id, "witness_queued")
    /\ \A i \in DOMAIN proofCh : Doing(proofCh[i].id, "proof_queued")
    /\ \A c \in Calls : ~Doing(c, "none") => Sent(c)

PlaceInv == JobInv /\ JobsPlaced

\* Messages are about calls and uuids.
LEMMA MessageType ==
    ASSUME TypeOK
    PROVE  /\ \A i \in DOMAIN fileCh : fileCh[i].id \in Calls /\ fileCh[i].uuid \in Uuids
           /\ \A i \in DOMAIN witnessCh : witnessCh[i].id \in Calls /\ witnessCh[i].uuid \in Uuids
           /\ \A i \in DOMAIN proofCh : proofCh[i].id \in Calls /\ proofCh[i].uuid \in Uuids
<1>. USE TypeParts DEF TypePart
<1>1. /\ \A i \in DOMAIN fileCh : fileCh[i] \in FileGenerator
      /\ \A i \in DOMAIN witnessCh : witnessCh[i] \in WitnessGenerator
      /\ \A i \in DOMAIN proofCh : proofCh[i] \in ProofGenerator
  BY ElementOfSeq, LenProperties DEF FileType, WitnessType, ProofType
<1>. QED  BY <1>1 DEF FileGenerator, WitnessGenerator, ProofGenerator

\* A job that waits in a channel is not touched by other steps.
LEMMA JobsPlacedStep ==
    ASSUME PlaceInv, [Next]_vars
    PROVE  JobsPlaced'
<1>0. TypeOK /\ TypeOK' /\ JobsPlaced /\ Steps
  BY StepType, StepMoves DEF PlaceInv, JobInv, StepKept
<1>. USE TypeParts DEF TypePart
<1>t. FileType /\ WitnessType /\ ProofType /\ CallsType /\ TasksType
  BY <1>0
<1>m. /\ \A i \in DOMAIN fileCh : fileCh[i].id \in Calls
      /\ \A i \in DOMAIN witnessCh : witnessCh[i].id \in Calls
      /\ \A i \in DOMAIN proofCh : proofCh[i].id \in Calls
  BY <1>0, MessageType
<1>1. ASSUME NEW c \in Calls, CallMoves(c), UNCHANGED otherVars
      PROVE  JobsPlaced'
  <2>1. \A d \in Calls : Sent(d) => Sent(d)'
    BY <1>1 DEF CallMoves, Sent, Turns, At, Awaits, HelloAwaits, SubmitAwaits
  <2>2. CASE UNCHANGED fileCh
    BY <1>0, <1>1, <1>m, <2>1, <2>2 DEF JobsPlaced, Distinct, Doing, otherVars
  <2>3. CASE calls[c].pc = "send"
    <3>. DEFINE m == [id |-> c, uuid |-> calls[c].uuid, circuit |-> calls[c].body.circuit,
                      inputs |-> calls[c].body.inputs]
    <3>1. CASE HasPermit(fileCh) /\ fileCh' = Append(fileCh, m) /\ calls'[c].pc = "remove"
      <4>1. m \in FileGenerator
        BY <1>t, <2>3, BodiesAssumption DEF CallsType, Awaits, SubmitAwaits, Body, FileGenerator
      <4>2. m.id = c
        OBVIOUS
      <4>3. task[c].pc = "none" /\ ~Sent(c) /\ Sent(c)'
        BY <1>0, <2>3, <3>1 DEF JobsPlaced, Sent, Doing
      <4>. HIDE DEF m
      <4>4. \A i \in DOMAIN fileCh : fileCh[i].id # m.id
        BY <1>0, <4>2, <4>3 DEF JobsPlaced
      <4>5. Distinct(Append(fileCh, m))
        BY <1>0, <1>t, <4>1, <4>4, SendDistinct DEF FileType, JobsPlaced
      <4>6. \A i \in DOMAIN fileCh' :
               fileCh'[i].id = c \/ \E j \in DOMAIN fileCh : fileCh'[i] = fileCh[j]
        BY <1>t, <3>1, <4>1, <4>2, SendType DEF FileType
      <4>7. \A i \in DOMAIN fileCh' : /\ task[fileCh'[i].id].pc = "none"
                                      /\ calls'[fileCh'[i].id].pc \in {"remove", "replied", "dropped"}
        BY <1>0, <1>m, <2>1, <4>3, <4>6 DEF JobsPlaced, Doing, Sent
      <4>. QED  BY <1>0, <1>1, <1>m, <2>1, <3>1, <4>5, <4>7
                DEF JobsPlaced, Distinct, Doing, Sent, otherVars
    <3>. QED  BY <1>1, <2>2, <2>3, <3>1 DEF CallMoves, Turns, At
  <2>. QED  BY <1>1, <2>2, <2>3 DEF CallMoves, Turns, At
<1>2. ASSUME LoopMoves, UNCHANGED calls PROVE JobsPlaced'
  <2>1. CASE fileCh # <<>> /\ fileCh' = Tail(fileCh) /\ UNCHANGED <<witnessCh, proofCh>>
             /\ TakenUp(fileCh[1], "file")
    <3>1. /\ Distinct(fileCh') /\ \A i \in DOMAIN fileCh' : fileCh'[i].id # fileCh[1].id
          /\ 1 \in DOMAIN fileCh
          /\ \A i \in DOMAIN fileCh' : \E j \in DOMAIN fileCh : fileCh'[i] = fileCh[j]
      BY <1>0, <1>t, <2>1, ReceiveType, ReceiveDistinct DEF FileType, JobsPlaced
    <3>. QED  BY <1>0, <1>2, <1>m, <2>1, <3>1 DEF JobsPlaced, Distinct, Doing, Sent, TakenUp
  <2>2. CASE witnessCh # <<>> /\ witnessCh' = Tail(witnessCh) /\ UNCHANGED <<fileCh, proofCh>>
             /\ TakenUp(witnessCh[1], "witness")
    <3>1. /\ Distinct(witnessCh') /\ \A i \in DOMAIN witnessCh' : witnessCh'[i].id # witnessCh[1].id
          /\ 1 \in DOMAIN witnessCh
          /\ \A i \in DOMAIN witnessCh' : \E j \in DOMAIN witnessCh : witnessCh'[i] = witnessCh[j]
      BY <1>0, <1>t, <2>2, ReceiveType, ReceiveDistinct DEF WitnessType, JobsPlaced
    <3>. QED  BY <1>0, <1>2, <1>m, <2>2, <3>1 DEF JobsPlaced, Distinct, Doing, Sent, TakenUp
  <2>3. CASE proofCh # <<>> /\ proofCh' = Tail(proofCh) /\ UNCHANGED <<fileCh, witnessCh>>
             /\ TakenUp(proofCh[1], "prove")
    <3>1. /\ Distinct(proofCh') /\ \A i \in DOMAIN proofCh' : proofCh'[i].id # proofCh[1].id
          /\ 1 \in DOMAIN proofCh
          /\ \A i \in DOMAIN proofCh' : \E j \in DOMAIN proofCh : proofCh'[i] = proofCh[j]
      BY <1>0, <1>t, <2>3, ReceiveType, ReceiveDistinct DEF ProofType, JobsPlaced
    <3>. QED  BY <1>0, <1>2, <1>m, <2>3, <3>1 DEF JobsPlaced, Distinct, Doing, Sent, TakenUp
  <2>. QED  BY <1>2, <2>1, <2>2, <2>3 DEF LoopMoves
<1>3. ASSUME NEW c \in Calls, JobMoves(c), UNCHANGED calls PROVE JobsPlaced'
  <2>0. /\ UNCHANGED fileCh /\ \A d \in Calls \ {c} : task'[d] = task[d]
        /\ (task'[c].pc = "none") <=> (task[c].pc = "none")
    <3>1. task'[c] = task[c] \/ (task[c].pc # "none" /\ task'[c].pc # "none")
      BY <1>3 DEF JobMoves, Move
    <3>. QED  BY <1>3, <3>1 DEF JobMoves
  <2>f. /\ \A i \in DOMAIN fileCh' : /\ task'[fileCh'[i].id].pc = "none"
                                    /\ calls'[fileCh'[i].id].pc \in {"remove", "replied", "dropped"}
        /\ \A d \in Calls : task'[d].pc # "none" => calls'[d].pc \in {"remove", "replied", "dropped"}
        /\ Distinct(fileCh')
    BY <1>0, <1>3, <1>m, <2>0 DEF JobsPlaced, Doing, Sent
  <2>1. CASE /\ UNCHANGED <<witnessCh, proofCh>>
             /\ task'[c] = task[c] \/ task[c].pc \notin {"witness_queued", "proof_queued"}
    BY <1>0, <1>m, <2>0, <2>1, <2>f DEF JobsPlaced, Distinct, Doing, Sent
  <2>2. CASE Move(c, "send_witness", {"witness_queued"}) /\ UNCHANGED proofCh /\ HasPermit(witnessCh)
             /\ witnessCh' = Append(witnessCh, [id |-> c, uuid |-> task[c].uuid,
                                                circuit |-> task[c].circuit])
    <3>. DEFINE m == [id |-> c, uuid |-> task[c].uuid, circuit |-> task[c].circuit]
    <3>1. m \in WitnessGenerator /\ m.id = c
      BY <1>t, <2>2 DEF TasksType, Task, WitnessGenerator, Move
    <3>2. witnessCh' = Append(witnessCh, m)
      BY <2>2
    <3>. HIDE DEF m
    <3>3. \A i \in DOMAIN witnessCh : witnessCh[i].id # m.id
      BY <1>0, <2>2, <3>1 DEF JobsPlaced, Doing, Move
    <3>4. Distinct(witnessCh')
      BY <1>0, <1>t, <3>1, <3>2, <3>3, SendDistinct DEF WitnessType, JobsPlaced
    <3>5. \A i \in DOMAIN witnessCh' :
             witnessCh'[i].id = c \/ \E j \in DOMAIN witnessCh : witnessCh'[i] = witnessCh[j]
      BY <1>t, <2>2, <3>1, <3>2, SendType DEF WitnessType
    <3>6. \A i \in DOMAIN witnessCh' : task'[witnessCh'[i].id].pc = "witness_queued"
      BY <1>0, <1>m, <2>0, <2>2, <3>1, <3>3, <3>5 DEF JobsPlaced, Doing, Move
    <3>7. Distinct(proofCh') /\ \A i \in DOMAIN proofCh' : task'[proofCh'[i].id].pc = "proof_queued"
      BY <1>0, <1>m, <2>0, <2>2 DEF JobsPlaced, Doing, Move, Distinct
    <3>. QED  BY <2>f, <3>4, <3>6, <3>7 DEF JobsPlaced, Doing, Sent
  <2>3. CASE Move(c, "send_proof", {"proof_queued"}) /\ UNCHANGED witnessCh /\ HasPermit(proofCh)
             /\ proofCh' = Append(proofCh, [id |-> c, uuid |-> task[c].uuid, zkey |-> task[c].zkey])
    <3>. DEFINE m == [id |-> c, uuid |-> task[c].uuid, zkey |-> task[c].zkey]
    <3>1. m \in ProofGenerator /\ m.id = c
      BY <1>t, <2>3 DEF TasksType, Task, ProofGenerator, Move
    <3>2. proofCh' = Append(proofCh, m)
      BY <2>3
    <3>. HIDE DEF m
    <3>3. \A i \in DOMAIN proofCh : proofCh[i].id # m.id
      BY <1>0, <2>3, <3>1 DEF JobsPlaced, Doing, Move
    <3>4. Distinct(proofCh')
      BY <1>0, <1>t, <3>1, <3>2, <3>3, SendDistinct DEF ProofType, JobsPlaced
    <3>5. \A i \in DOMAIN proofCh' :
             proofCh'[i].id = c \/ \E j \in DOMAIN proofCh : proofCh'[i] = proofCh[j]
      BY <1>t, <2>3, <3>1, <3>2, SendType DEF ProofType
    <3>6. \A i \in DOMAIN proofCh' : task'[proofCh'[i].id].pc = "proof_queued"
      BY <1>0, <1>m, <2>0, <2>3, <3>1, <3>3, <3>5 DEF JobsPlaced, Doing, Move
    <3>7. /\ Distinct(witnessCh')
          /\ \A i \in DOMAIN witnessCh' : task'[witnessCh'[i].id].pc = "witness_queued"
      BY <1>0, <1>m, <2>0, <2>3 DEF JobsPlaced, Doing, Move, Distinct
    <3>. QED  BY <2>f, <3>4, <3>6, <3>7 DEF JobsPlaced, Doing, Sent
  <2>. QED  BY <1>3, <2>1, <2>2, <2>3 DEF JobMoves, Move
<1>4. CASE ExitMoves
  BY <1>0, <1>4
  DEF ExitMoves, JobsPlaced, Distinct, Doing, Sent, Turns, Working, Awaits, HelloAwaits,
      SubmitAwaits
<1>5. CASE UNCHANGED serverVars
  BY <1>0, <1>5 DEF JobsPlaced, Distinct, Doing, Sent, serverVars
<1>. QED  BY <1>0, <1>1, <1>2, <1>3, <1>4, <1>5 DEF Steps

\* At first nothing is anywhere,
LEMMA PlaceInvInit == Init => PlaceInv
<1>1. Init => JobsOwnRows
  BY DEF Init, RpcInit, ChannelsInit, PipelineInit, IdleCall, NoTask, JobsOwnRows, At
<1>2. Init => JobsPlaced
  BY DEF Init, RpcInit, ChannelsInit, PipelineInit, NoTask, JobsPlaced, Distinct, Doing
<1>. QED  BY <1>1, <1>2, InitType DEF PlaceInv, JobInv

\* and every step moves a job to its next place.
LEMMA PlaceInvStep == PlaceInv /\ [Next]_vars => PlaceInv'
BY StepType, JobsOwnRowsStep, JobsPlacedStep DEF PlaceInv, JobInv, StepKept

\* No job is worked on twice: it is in one place at a time, although the loops
\* take up whatever their channel gives them, without a look at the job.
THEOREM JobsPlacedCorrect == Spec => []JobsPlaced
<1>1. PlaceInv => JobsPlaced
  BY DEF PlaceInv
<1>. QED  BY <1>1, PlaceInvInit, PlaceInvStep, PTL DEF Spec

----------------------------------------------------------------------------
(* The status fits the place *)

Early == {"file", "send_witness", "witness_queued", "witness", "record"}

Status(u) == proofs[u].status

\* The status of a request by the stage its job is at.  A statement whose answer
\* was lost may have changed it before the job failed.
Fits(pc, s) ==
    /\ pc \in Early => s = Pending
    /\ pc \in Late => s = WitnessGenerated
    /\ pc = "fail" => s # Failed /\ ("unknown" \notin Faults => s # ProofGenererated)

StatusFits ==
    /\ \A c \in Calls : At(c, "send") => Status(calls[c].uuid) = Pending
    /\ \A i \in DOMAIN fileCh : Status(fileCh[i].uuid) = Pending
    /\ \A c \in Calls : task[c].pc # "none" => Fits(task[c].pc, Status(task[c].uuid))

StatusInv == PlaceInv /\ StatusFits

\* The row of u gets status s, which is announced if it is new.
Becomes(u, s) ==
    /\ proofs'[u].status = s
    /\ \A w \in Uuids \ {u} : proofs'[w] = proofs[w]
    /\ notified' = IF s # Status(u) THEN [notified EXCEPT ![u] = Append(@, s)] ELSE notified

\* A statement changes the table, or is refused or lost.
Executed(u, s, valid, ok) ==
    \/ ok = FALSE /\ (valid = FALSE \/ "db" \in Faults) /\ UNCHANGED <<proofs, notified>>
    \/ (ok = TRUE \/ "unknown" \in Faults) /\ Becomes(u, s)

\* A write sets the status of one row and notifies of it.
LEMMA WriteBecomes ==
    ASSUME TableType, NEW u \in Uuids, NEW row, Write(u, row)
    PROVE  Becomes(u, row.status)
<1>1. proofs'[u] = row /\ \A w \in Uuids \ {u} : proofs'[w] = proofs[w]
  BY DEF TableType, Write
<1>2. CASE row.status # proofs[u].status
  BY <1>1, <1>2 DEF Write, Becomes, Status
<1>3. CASE row.status = proofs[u].status
  <2>1. notified' = [notified EXCEPT ![u] = notified[u]]
    BY <1>3 DEF Write
  <2>2. notified' = notified
    BY <2>1 DEF TableType
  <2>. QED  BY <1>1, <1>3, <2>2 DEF Becomes, Status
<1>. QED  BY <1>2, <1>3

\* An UPDATE of an existing row: it takes effect or it is reported to have
\* failed.
LEMMA UpdateExecuted ==
    ASSUME TableType, NEW u \in Uuids, Exists(u), NEW row, NEW valid \in BOOLEAN, NEW ok \in BOOLEAN,
           Execute(valid, u, Update(u, row), ok)
    PROVE  Executed(u, row.status, valid, ok)
BY WriteBecomes DEF Execute, Update, Executed

\* The three statements of the pipeline.
LEMMA StatementExecuted ==
    ASSUME TableType, NEW u \in Uuids, Exists(u), NEW p, NEW storable \in BOOLEAN, NEW ok \in BOOLEAN
    PROVE  /\ set_witness_generated(u, ok) => Executed(u, WitnessGenerated, TRUE, ok)
           /\ update_proof(u, p, ok) => Executed(u, ProofGenererated, p # None, ok)
           /\ fail_proof(u, storable, ok) => Executed(u, Failed, storable, ok)
<1>0. proofs[u] \in Row
  BY DEF TableType
<1>1. ASSUME set_witness_generated(u, ok) PROVE Executed(u, WitnessGenerated, TRUE, ok)
  <2>. DEFINE row == [proofs[u] EXCEPT !.status = WitnessGenerated, !.witness_generated_at = TRUE]
  <2>1. Execute(TRUE, u, Update(u, row), ok) /\ row.status = WitnessGenerated
    BY <1>0, <1>1 DEF set_witness_generated, Row
  <2>. HIDE DEF row
  <2>. QED  BY <2>1, UpdateExecuted
<1>2. ASSUME update_proof(u, p, ok) PROVE Executed(u, ProofGenererated, p # None, ok)
  <2>. DEFINE row == [proofs[u] EXCEPT !.status = ProofGenererated, !.proof = p]
  <2>1. Execute(p # None, u, Update(u, row), ok) /\ row.status = ProofGenererated
    BY <1>0, <1>2 DEF update_proof, Row
  <2>. HIDE DEF row
  <2>. QED  BY <2>1, UpdateExecuted
<1>3. ASSUME fail_proof(u, storable, ok) PROVE Executed(u, Failed, storable, ok)
  <2>. DEFINE row == [proofs[u] EXCEPT !.status = Failed, !.reason = TRUE]
  <2>1. Execute(storable, u, Update(u, row), ok) /\ row.status = Failed
    BY <1>0, <1>3 DEF fail_proof, Row
  <2>. HIDE DEF row
  <2>. QED  BY <2>1, UpdateExecuted
<1>. QED  BY <1>1, <1>2, <1>3

\* An INSERT takes effect only on a uuid that has no row.
LEMMA CreateExecuted ==
    ASSUME TableType, NEW u \in Uuids, NEW c, NEW request, NEW fits, NEW ok \in BOOLEAN,
           create_proof_status(u, c, request, fits, ok)
    PROVE  \/ ok = FALSE /\ UNCHANGED <<proofs, notified>>
           \/ ~Exists(u) /\ Becomes(u, Pending)
<1>. DEFINE row == [NoRow EXCEPT !.status = Pending, !.owner = c, !.request = request]
<1>1. row.status = Pending
  BY DEF NoRow
<1>2. Execute(~Exists(u) /\ fits /\ InsertColumns \subseteq Columns, u, row, ok)
  BY DEF create_proof_status
<1>. HIDE DEF row
<1>. QED  BY <1>1, <1>2, WriteBecomes DEF Execute

\* What a job does to the table is a statement about its own row.
JobStatement(c) ==
    LET u == task[c].uuid
    IN  \/ /\ UNCHANGED <<proofs, notified>>
           /\ \/ task'[c] = task[c]
              \/ task[c].pc \in Early \ {"record"} /\ task'[c].pc \in Early \cup {"fail", "panicked"}
              \/ task[c].pc \in Late \ {"store"} /\ task'[c].pc \in Late \cup {"fail"}
              \/ Move(c, "rm", {"ended"})
        \/ \E ok \in BOOLEAN :
              \/ Move(c, "record", {IF ok THEN "send_proof" ELSE "fail"})
                 /\ Executed(u, WitnessGenerated, TRUE, ok)
              \/ Move(c, "store", {IF ok THEN "rm" ELSE "fail"})
                 /\ Executed(u, ProofGenererated, tmp[u].proof # None, ok)
              \/ Move(c, "fail", {"rm"})
                 /\ Executed(u, Failed, task[c].reason = "storable", ok)

\* The statements of the pipeline are about the existing row of their job.
LEMMA JobStatements ==
    ASSUME JobInv, NEW c \in Calls, JobMoves(c)
    PROVE  JobStatement(c)
<1>. DEFINE u == task[c].uuid
<1>0. TableType /\ TasksType
  BY TypeParts DEF TypePart, JobInv
<1>o. task[c].pc # "none" => u \in Uuids /\ Exists(u)
  BY <1>0 DEF TasksType, JobInv, JobsOwnRows, OwnsRow
<1>2. ASSUME NEW ok \in BOOLEAN, set_witness_generated(u, ok), task[c].pc = "record"
      PROVE  Executed(u, WitnessGenerated, TRUE, ok)
  BY <1>0, <1>o, <1>2, StatementExecuted
<1>3. ASSUME NEW ok \in BOOLEAN, update_proof(u, tmp[u].proof, ok), task[c].pc = "store"
      PROVE  Executed(u, ProofGenererated, tmp[u].proof # None, ok)
  <2>. DEFINE p == tmp[u].proof
  <2>1. u \in Uuids /\ Exists(u) /\ update_proof(u, p, ok)
    BY <1>o, <1>3
  <2>. HIDE DEF p, u
  <2>2. Executed(u, ProofGenererated, p # None, ok)
    BY <1>0, <2>1, StatementExecuted
  <2>. QED  BY <2>2 DEF p, u
<1>4. ASSUME NEW ok \in BOOLEAN, fail_proof(u, task[c].reason = "storable", ok), task[c].pc = "fail"
      PROVE  Executed(u, Failed, task[c].reason = "storable", ok)
  <2>. DEFINE storable == task[c].reason = "storable"
  <2>1. storable \in BOOLEAN /\ u \in Uuids /\ Exists(u) /\ fail_proof(u, storable, ok)
    BY <1>o, <1>4
  <2>. HIDE DEF storable, u
  <2>2. Executed(u, Failed, storable, ok)
    BY <1>0, <2>1, StatementExecuted
  <2>. QED  BY <2>2 DEF storable, u
<1>. QED  BY <1>2, <1>3, <1>4 DEF JobMoves, JobStatement, Move, Early, Late

\* The status of a job fits its stage because only the job itself writes its row:
\* no other handler, message or task is about the same uuid.
LEMMA StatusFitsStep ==
    ASSUME StatusInv, [Next]_vars
    PROVE  StatusFits'
<1>0. /\ TypeOK /\ TypeOK' /\ JobInv /\ JobsOwnRows /\ JobsPlaced /\ StatusFits /\ Steps
      /\ UuidsKept
  BY StepType, StepMoves DEF StatusInv, PlaceInv, JobInv, StepKept
<1>. USE TypeParts DEF TypePart
<1>t. /\ FileType /\ WitnessType /\ ProofType /\ CallsType /\ TasksType /\ TableType /\ CallsType'
      /\ TasksType'
  BY <1>0
<1>m. /\ \A i \in DOMAIN fileCh : fileCh[i].id \in Calls /\ fileCh[i].uuid \in Uuids
      /\ \A i \in DOMAIN witnessCh : witnessCh[i].id \in Calls /\ witnessCh[i].uuid \in Uuids
      /\ \A i \in DOMAIN proofCh : proofCh[i].id \in Calls /\ proofCh[i].uuid \in Uuids
  BY <1>0, MessageType
<1>o. /\ \A c \in Calls : At(c, "send") => calls[c].uuid \in Uuids /\ OwnsRow(c, calls[c].uuid)
      /\ \A c \in Calls : task[c].pc # "none" => task[c].uuid \in Uuids /\ OwnsRow(c, task[c].uuid)
      /\ \A i \in DOMAIN fileCh : OwnsRow(fileCh[i].id, fileCh[i].uuid)
  BY <1>0, <1>t DEF JobsOwnRows, CallsType, TasksType, At, Awaits, SubmitAwaits
<1>1. ASSUME NEW c \in Calls, CallMoves(c), UNCHANGED otherVars
      PROVE  StatusFits'
  <2>1. CASE UNCHANGED <<proofs, fileCh>> /\ (calls'[c].pc # "send")
    BY <1>0, <1>1, <1>o, <1>m, <2>1 DEF CallMoves, StatusFits, Status, At, otherVars
  <2>2. ASSUME NEW ok \in BOOLEAN, At(c, "create"),
               create_proof_status(calls[c].uuid, c, metadata(calls[c].body), calls[c].body.fits, ok),
               IF ok THEN Turns(c, "create", "send", "accepted")
                     ELSE Turns(c, "create", "remove", "CouldNotCreate"),
               UNCHANGED fileCh
        PROVE  StatusFits'
    <3>. DEFINE u == calls[c].uuid
    <3>1. u \in Uuids
      BY <1>t, <2>2 DEF CallsType, At, Awaits, SubmitAwaits
    <3>2. \/ ok = FALSE /\ UNCHANGED <<proofs, notified>>
          \/ ~Exists(u) /\ Becomes(u, Pending)
      <4>. DEFINE request == metadata(calls[c].body)
                  fits == calls[c].body.fits
      <4>1. create_proof_status(u, c, request, fits, ok)
        BY <2>2
      <4>. HIDE DEF request, fits, u
      <4>. QED  BY <1>t, <3>1, <4>1, CreateExecuted
    <3>3. CASE ok = FALSE /\ UNCHANGED <<proofs, notified>>
      BY <2>1, <2>2, <3>3 DEF Turns
    <3>4. CASE ~Exists(u) /\ Becomes(u, Pending)
      <4>0. calls'[c].uuid = u /\ \A d \in Calls \ {c} : calls'[d] = calls[d]
        BY <1>1, <2>2 DEF CallMoves, Turns, Same
      <4>. HIDE DEF u
      <4>1. \A d \in Calls : calls'[d].pc = "send" => proofs'[calls'[d].uuid].status = Pending
        BY <1>0, <1>o, <3>1, <3>4, <4>0 DEF Becomes, StatusFits, OwnsRow, At, Status
      <4>2. \A i \in DOMAIN fileCh : proofs'[fileCh[i].uuid].status = Pending
        BY <1>0, <1>o, <1>m, <3>4 DEF Becomes, StatusFits, OwnsRow, Status
      <4>3. \A d \in Calls : task[d].pc # "none" => proofs'[task[d].uuid] = proofs[task[d].uuid]
        BY <1>o, <3>4 DEF Becomes, OwnsRow
      <4>. QED  BY <1>0, <1>1, <2>2, <4>1, <4>2, <4>3 DEF StatusFits, Status, At, otherVars
    <3>. QED  BY <3>2, <3>3, <3>4
  <2>3. CASE calls[c].pc = "send" /\ UNCHANGED proofs
    <3>1. ASSUME NEW m, fileCh' = Append(fileCh, m), m.uuid = calls[c].uuid, m \in FileGenerator,
                 HasPermit(fileCh), calls'[c].pc = "remove"
          PROVE  StatusFits'
      <4>1. \A i \in DOMAIN fileCh' : fileCh'[i] = m \/ \E j \in DOMAIN fileCh : fileCh'[i] = fileCh[j]
        BY <1>t, <3>1, SendType DEF FileType
      <4>2. \A i \in DOMAIN fileCh' : proofs[fileCh'[i].uuid].status = Pending
        BY <1>0, <2>3, <3>1, <4>1 DEF StatusFits, Status, At
      <4>. QED  BY <1>0, <1>1, <1>o, <2>3, <3>1, <4>2 DEF CallMoves, StatusFits, Status, At, otherVars
    <3>. DEFINE m == [id |-> c, uuid |-> calls[c].uuid, circuit |-> calls[c].body.circuit,
                      inputs |-> calls[c].body.inputs]
    <3>2. m \in FileGenerator /\ m.uuid = calls[c].uuid
      BY <1>t, <2>3, BodiesAssumption DEF CallsType, Awaits, SubmitAwaits, Body, FileGenerator
    <3>3. \/ UNCHANGED fileCh /\ calls'[c].pc # "send"
          \/ HasPermit(fileCh) /\ fileCh' = Append(fileCh, m) /\ calls'[c].pc = "remove"
      BY <1>1, <2>3 DEF CallMoves, Turns, At
    <3>. HIDE DEF m
    <3>. QED  BY <2>1, <2>3, <3>1, <3>2, <3>3
  <2>4. calls[c].pc = "create" \/ UNCHANGED proofs
    BY <1>1 DEF CallMoves, Turns, At
  <2>5. CASE calls[c].pc = "create"
    BY <1>1, <2>1, <2>2, <2>5 DEF CallMoves, Turns, At
  <2>6. CASE calls[c].pc \notin {"create", "send"} /\ UNCHANGED proofs
    <3>1. UNCHANGED fileCh /\ calls'[c].pc # "send"
      BY <1>1, <2>6 DEF CallMoves, Turns, At, After
    <3>. QED  BY <2>1, <2>6, <3>1
  <2>. QED  BY <2>3, <2>4, <2>5, <2>6
<1>2. ASSUME LoopMoves, UNCHANGED calls PROVE StatusFits'
  <2>0. UNCHANGED proofs
    BY <1>2 DEF LoopMoves
  <2>1. CASE fileCh # <<>> /\ fileCh' = Tail(fileCh) /\ TakenUp(fileCh[1], "file")
    <3>1. /\ 1 \in DOMAIN fileCh
          /\ \A i \in DOMAIN fileCh' : \E j \in DOMAIN fileCh : fileCh'[i] = fileCh[j]
      BY <1>t, <2>1, ReceiveType DEF FileType
    <3>2. Fits("file", Pending)
      BY DEF Fits, Early, Late, Pending, Failed, ProofGenererated
    <3>. QED  BY <1>0, <1>2, <2>0, <2>1, <3>1, <3>2 DEF StatusFits, Status, At, TakenUp
  <2>2. CASE witnessCh # <<>> /\ UNCHANGED fileCh /\ TakenUp(witnessCh[1], "witness")
    <3>. DEFINE m == witnessCh[1]
    <3>1. 1 \in DOMAIN witnessCh
      BY <1>t, <2>2, ReceiveType DEF WitnessType
    <3>2. m.id \in Calls /\ task[m.id].pc = "witness_queued" /\ task[m.id].uuid = m.uuid
      BY <1>0, <1>m, <1>o, <3>1 DEF JobsPlaced, JobsOwnRows, OwnsRow, Doing
    <3>3. Status(m.uuid) = Pending
      BY <1>0, <3>2 DEF StatusFits, Fits, Early
    <3>4. Fits("witness", Pending)
      BY DEF Fits, Early, Late, Pending, Failed, ProofGenererated
    <3>. QED  BY <1>0, <1>2, <2>0, <2>2, <3>3, <3>4 DEF StatusFits, Status, At, TakenUp
  <2>3. CASE proofCh # <<>> /\ UNCHANGED fileCh /\ TakenUp(proofCh[1], "prove")
    <3>. DEFINE m == proofCh[1]
    <3>1. 1 \in DOMAIN proofCh
      BY <1>t, <2>3, ReceiveType DEF ProofType
    <3>2. m.id \in Calls /\ task[m.id].pc = "proof_queued" /\ task[m.id].uuid = m.uuid
      BY <1>0, <1>m, <1>o, <3>1 DEF JobsPlaced, JobsOwnRows, OwnsRow, Doing
    <3>3. Status(m.uuid) = WitnessGenerated
      BY <1>0, <3>2 DEF StatusFits, Fits, Late
    <3>4. Fits("prove", WitnessGenerated)
      BY DEF Fits, Early, Late, WitnessGenerated, Failed, ProofGenererated
    <3>. QED  BY <1>0, <1>2, <2>0, <2>3, <3>3, <3>4 DEF StatusFits, Status, At, TakenUp
  <2>. QED  BY <1>2, <2>1, <2>2, <2>3 DEF LoopMoves
<1>3. ASSUME NEW c \in Calls, JobMoves(c), UNCHANGED calls PROVE StatusFits'
  <2>. DEFINE u == task[c].uuid
  <2>0. /\ UNCHANGED fileCh /\ \A d \in Calls \ {c} : task'[d] = task[d]
        /\ task'[c].uuid = u
    BY <1>3 DEF JobMoves, JobFields
  <2>n. /\ Pending # ProofGenererated /\ Pending # Failed
        /\ WitnessGenerated # ProofGenererated /\ WitnessGenerated # Failed
        /\ ProofGenererated # Failed
    BY DEF Pending, WitnessGenerated, ProofGenererated, Failed
  <2>s. JobStatement(c) /\ (task[c].pc # "none" => Fits(task[c].pc, Status(u)))
    BY <1>0, <1>3, JobStatements DEF StatusFits
  <2>1. ASSUME UNCHANGED proofs, task'[c].pc # "none" => Fits(task'[c].pc, Status(u))
        PROVE  StatusFits'
    BY <1>0, <1>3, <1>o, <2>0, <2>1 DEF StatusFits, Status, At
  <2>2. ASSUME NEW s, Becomes(u, s), task[c].pc # "none", Fits(task'[c].pc, s) PROVE StatusFits'
    <3>1. u \in Uuids /\ OwnsRow(c, u) /\ Sent(c)
      BY <1>0, <1>o, <2>2 DEF JobsPlaced, Doing
    <3>. HIDE DEF u
    <3>2. \A d \in Calls : calls[d].pc = "send" => proofs'[calls[d].uuid].status = Pending
      BY <1>0, <1>o, <2>2, <3>1 DEF Becomes, StatusFits, OwnsRow, At, Status, Sent
    <3>3. \A i \in DOMAIN fileCh : proofs'[fileCh[i].uuid].status = Pending
      BY <1>0, <1>o, <1>m, <2>2, <3>1 DEF Becomes, StatusFits, OwnsRow, Status, JobsPlaced, Doing
    <3>4. \A d \in Calls \ {c} :
             task[d].pc # "none" => Fits(task[d].pc, proofs'[task[d].uuid].status)
      BY <1>0, <1>o, <2>2, <3>1 DEF Becomes, StatusFits, OwnsRow, Status
    <3>. QED  BY <1>3, <2>0, <2>2, <3>2, <3>3, <3>4 DEF StatusFits, Status, At, Becomes
  <2>3. CASE /\ UNCHANGED <<proofs, notified>>
             /\ \/ task'[c] = task[c]
                \/ task[c].pc \in Early \ {"record"} /\ task'[c].pc \in Early \cup {"fail", "panicked"}
                \/ task[c].pc \in Late \ {"store"} /\ task'[c].pc \in Late \cup {"fail"}
                \/ Move(c, "rm", {"ended"})
    BY <2>1, <2>3, <2>n, <2>s DEF Fits, Early, Late, Move
  <2>4. ASSUME NEW ok \in BOOLEAN, Move(c, "record", {IF ok THEN "send_proof" ELSE "fail"}),
               Executed(u, WitnessGenerated, TRUE, ok)
        PROVE  StatusFits'
    <3>1. ok = FALSE => Fits(task'[c].pc, Status(u))
      BY <2>4, <2>n, <2>s DEF Fits, Early, Late, Move
    <3>2. Fits(task'[c].pc, WitnessGenerated)
      BY <2>4, <2>n DEF Fits, Early, Late, Move
    <3>. QED  BY <2>1, <2>2, <2>4, <3>1, <3>2 DEF Executed, Move
  <2>5. ASSUME NEW ok \in BOOLEAN, Move(c, "store", {IF ok THEN "rm" ELSE "fail"}),
               Executed(u, ProofGenererated, tmp[u].proof # None, ok)
        PROVE  StatusFits'
    <3>1. ok = FALSE => Fits(task'[c].pc, Status(u))
      BY <2>5, <2>n, <2>s DEF Fits, Early, Late, Move
    <3>2. ok = TRUE \/ "unknown" \in Faults => Fits(task'[c].pc, ProofGenererated)
      BY <2>5, <2>n DEF Fits, Early, Late, Move
    <3>. QED  BY <2>1, <2>2, <2>5, <3>1, <3>2 DEF Executed, Move
  <2>6. ASSUME NEW ok \in BOOLEAN, Move(c, "fail", {"rm"}),
               Executed(u, Failed, task[c].reason = "storable", ok)
        PROVE  StatusFits'
    <3>1. \A s : Fits(task'[c].pc, s)
      BY <2>6 DEF Fits, Early, Late, Move
    <3>. QED  BY <2>1, <2>2, <2>6, <3>1 DEF Executed, Move
  <2>. QED  BY <2>s, <2>3, <2>4, <2>5, <2>6 DEF JobStatement
<1>4. CASE ExitMoves
  BY <1>0, <1>4, <1>o
  DEF ExitMoves, StatusFits, Status, Fits, Early, Late, At, Turns, Working, Awaits, HelloAwaits,
     SubmitAwaits
<1>5. CASE UNCHANGED serverVars
  BY <1>0, <1>5 DEF StatusFits, Status, At, serverVars
<1>. QED  BY <1>0, <1>1, <1>2, <1>3, <1>4, <1>5 DEF Steps

\* At first there is no row,
LEMMA StatusInvInit == Init => StatusInv
<1>1. Init => StatusFits
  BY DEF Init, RpcInit, ChannelsInit, PipelineInit, IdleCall, NoTask, StatusFits, At
<1>. QED  BY <1>1, PlaceInvInit DEF StatusInv

\* and every step keeps the status and the stage of a job together.
LEMMA StatusInvStep == StatusInv /\ [Next]_vars => StatusInv'
BY PlaceInvStep, StatusFitsStep DEF StatusInv

----------------------------------------------------------------------------
(* The refinement *)

\* How the status of a request moves.
Advances(u) ==
    \/ Status(u) = Absent /\ Becomes(u, Pending)
    \/ Status(u) = Pending /\ Becomes(u, WitnessGenerated)
    \/ Status(u) = WitnessGenerated /\ Becomes(u, ProofGenererated)
    \/ Status(u) \in {Pending, WitnessGenerated} /\ Becomes(u, Failed)
    \/ "unknown" \in Faults /\ Status(u) = ProofGenererated /\ Becomes(u, Failed)

\* Every step leaves the table alone or moves one request forward.
LEMMA StepAdvances ==
    ASSUME StatusInv, [Next]_vars
    PROVE  UNCHANGED <<proofs, notified>> \/ \E u \in Uuids : Advances(u)
<1>0. TypeOK /\ JobInv /\ JobsOwnRows /\ StatusFits /\ Steps
  BY StepMoves DEF StatusInv, PlaceInv, JobInv
<1>. USE TypeParts DEF TypePart
<1>t. CallsType /\ TasksType /\ TableType
  BY <1>0
<1>1. ASSUME NEW c \in Calls, CallMoves(c)
      PROVE  UNCHANGED <<proofs, notified>> \/ \E u \in Uuids : Advances(u)
  <2>1. ASSUME NEW ok \in BOOLEAN, At(c, "create"),
               create_proof_status(calls[c].uuid, c, metadata(calls[c].body), calls[c].body.fits, ok)
        PROVE  UNCHANGED <<proofs, notified>> \/ \E u \in Uuids : Advances(u)
    <3>. DEFINE u == calls[c].uuid
                request == metadata(calls[c].body)
                fits == calls[c].body.fits
    <3>1. u \in Uuids /\ create_proof_status(u, c, request, fits, ok)
      BY <1>t, <2>1 DEF CallsType, At, Awaits, SubmitAwaits
    <3>. HIDE DEF u, request, fits
    <3>2. (ok = FALSE /\ UNCHANGED <<proofs, notified>>) \/ (~Exists(u) /\ Becomes(u, Pending))
      BY <1>t, <3>1, CreateExecuted
    <3>. QED  BY <3>1, <3>2 DEF Advances, Exists, Status
  <2>. QED  BY <1>1, <2>1 DEF CallMoves, Turns
<1>2. ASSUME NEW c \in Calls, JobMoves(c)
      PROVE  UNCHANGED <<proofs, notified>> \/ \E u \in Uuids : Advances(u)
  <2>. DEFINE u == task[c].uuid
  <2>1. JobStatement(c)
    BY <1>0, <1>2, JobStatements
  <2>2. task[c].pc # "none" =>
           /\ u \in Uuids /\ Fits(task[c].pc, Status(u))
           /\ Status(u) \in {Pending, WitnessGenerated, ProofGenererated, Failed}
    BY <1>0, <1>t DEF TasksType, JobsOwnRows, OwnsRow, StatusFits, Exists, Status, TableType, Row
  <2>. HIDE DEF u
  <2>3. ASSUME NEW s, NEW valid, NEW ok, Executed(u, s, valid, ok), task[c].pc # "none",
               Becomes(u, s) => Advances(u)
        PROVE  UNCHANGED <<proofs, notified>> \/ \E w \in Uuids : Advances(w)
    BY <2>2, <2>3 DEF Executed
  <2>4. task[c].pc = "record" /\ Becomes(u, WitnessGenerated) => Advances(u)
    BY <2>2 DEF Fits, Early, Advances
  <2>5. task[c].pc = "store" /\ Becomes(u, ProofGenererated) => Advances(u)
    BY <2>2 DEF Fits, Late, Advances
  <2>6. task[c].pc = "fail" /\ Becomes(u, Failed) => Advances(u)
    BY <2>2 DEF Fits, Advances
  <2>. QED  BY <2>1, <2>3, <2>4, <2>5, <2>6 DEF JobStatement, Move, u
<1>3. CASE LoopMoves \/ ExitMoves \/ UNCHANGED serverVars
  BY <1>3 DEF LoopMoves, ExitMoves, serverVars
<1>. QED  BY <1>0, <1>1, <1>2, <1>3 DEF Steps

\* Such a move is one of ProofLifecycle.
LEMMA AdvanceRefines ==
    ASSUME TableType, TableType', NEW u \in Uuids, Advances(u)
    PROVE  Lifecycle!LifecycleNext
<1>. DEFINE status == [w \in Uuids |-> proofs[w].status]
<1>1. ASSUME NEW from, Status(u) \in from, NEW s, Becomes(u, s), s # Status(u)
      PROVE  Lifecycle!Become(u, from, s)
  <2>1. [w \in Uuids |-> proofs'[w].status] = [status EXCEPT ![u] = s]
    BY <1>1 DEF Becomes
  <2>2. notified' = [notified EXCEPT ![u] = Append(@, s)]
    BY <1>1 DEF Becomes
  <2>3. status[u] \in from
    BY <1>1 DEF Status
  <2>. QED  BY <2>1, <2>2, <2>3 DEF Lifecycle!Become
<1>. USE DEF Absent, Pending, WitnessGenerated, ProofGenererated, Failed
<1>2. CASE Status(u) = Absent /\ Becomes(u, Pending)
  <2>1. Lifecycle!Receive(u)
    BY <1>1, <1>2 DEF Lifecycle!Receive
  <2>. QED  BY <2>1 DEF Lifecycle!LifecycleNext
<1>3. CASE Status(u) = Pending /\ Becomes(u, WitnessGenerated)
  <2>1. Lifecycle!Witness(u)
    BY <1>1, <1>3 DEF Lifecycle!Witness
  <2>. QED  BY <2>1 DEF Lifecycle!LifecycleNext
<1>4. CASE Status(u) = WitnessGenerated /\ Becomes(u, ProofGenererated)
  <2>1. Lifecycle!Prove(u)
    BY <1>1, <1>4 DEF Lifecycle!Prove
  <2>. QED  BY <2>1 DEF Lifecycle!LifecycleNext
<1>5. CASE Status(u) \in {Pending, WitnessGenerated, ProofGenererated} /\ Becomes(u, Failed)
  <2>1. Lifecycle!Break(u)
    BY <1>1, <1>5 DEF Lifecycle!Break
  <2>. QED  BY <2>1 DEF Lifecycle!LifecycleNext
<1>. QED  BY <1>2, <1>3, <1>4, <1>5 DEF Advances

\* The whole server implements ProofLifecycle, for any calls, uuids, faults and
\* restarts: whoever polls the table or listens to its notifications sees each
\* status of a request once, in order, and nothing after Failed.
THEOREM StatusOnlyAdvancesCorrect == Spec => StatusOnlyAdvances
<1>1. Init => Lifecycle!LifecycleInit
  BY DEF Init, RpcInit, TableInit, NoRow, Absent, Lifecycle!LifecycleInit
<1>2. StatusInv /\ [Next]_vars => [Lifecycle!LifecycleNext]_(Lifecycle!lifecycleVars)
  <2>. SUFFICES ASSUME StatusInv, [Next]_vars
                PROVE  [Lifecycle!LifecycleNext]_(Lifecycle!lifecycleVars)
    OBVIOUS
  <2>1. TableType /\ TableType'
    BY StepType, TypeParts DEF StatusInv, PlaceInv, JobInv, StepKept, TypePart
  <2>2. CASE UNCHANGED <<proofs, notified>>
    BY <2>2 DEF Lifecycle!lifecycleVars
  <2>3. CASE \E u \in Uuids : Advances(u)
    BY <2>1, <2>3, AdvanceRefines
  <2>. QED  BY <2>2, <2>3, StepAdvances
<1>. QED  BY <1>1, <1>2, StatusInvInit, StatusInvStep, PTL
          DEF Spec, StatusOnlyAdvances, Lifecycle!LifecycleSpec

\* As long as no answer of the database is lost, a row with a stored proof does
\* not change any more: no later cleanup can declare the request failed.
THEOREM ProofIsFinalCorrect ==
    ASSUME "unknown" \notin Faults
    PROVE  Spec => ProofIsFinal
<1>1. StatusInv /\ [Next]_vars =>
         [\A u \in Uuids : proofs[u].status = ProofGenererated => proofs'[u] = proofs[u]]_proofs
  BY StepAdvances
  DEF Advances, Becomes, Status, Absent, Pending, WitnessGenerated, ProofGenererated
<1>. QED  BY <1>1, StatusInvInit, StatusInvStep, PTL DEF Spec, ProofIsFinal
=============================================================================
