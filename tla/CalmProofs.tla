----------------------------- MODULE CalmProofs -----------------------------
(***************************************************************************)
(* What the server promises while some kinds of failure stay away: nothing *)
(* that was accepted is forgotten, failures are recorded, folders are      *)
(* removed.  Each theorem names the kinds of failure it cannot bear.       *)
(***************************************************************************)
EXTENDS LifecycleProofs, AgreementProofs, ZkeyProofs

----------------------------------------------------------------------------
(* A queued job is taken up *)

\* No message is lost by a send, and none but the first by a receive.
LEMMA QueueKeeps ==
    ASSUME NEW S, NEW ch \in Seq(S)
    PROVE  /\ \A m \in S : /\ \E i \in DOMAIN Append(ch, m) : Append(ch, m)[i] = m
                           /\ \A j \in DOMAIN ch :
                                 \E i \in DOMAIN Append(ch, m) : Append(ch, m)[i] = ch[j]
           /\ ch # <<>> => \A j \in DOMAIN ch :
                              j = 1 \/ \E i \in DOMAIN Tail(ch) : Tail(ch)[i] = ch[j]
<1>0. Len(ch) \in Nat /\ DOMAIN ch = 1..Len(ch)
  BY LenProperties
<1>1. ASSUME NEW m \in S
      PROVE  /\ \E i \in DOMAIN Append(ch, m) : Append(ch, m)[i] = m
             /\ \A j \in DOMAIN ch : \E i \in DOMAIN Append(ch, m) : Append(ch, m)[i] = ch[j]
  <2>1. /\ DOMAIN Append(ch, m) = 1..(Len(ch) + 1)
        /\ \A i \in 1..Len(ch) : Append(ch, m)[i] = ch[i]
        /\ Append(ch, m)[Len(ch) + 1] = m
    BY AppendProperties, LenProperties
  <2>2. Len(ch) + 1 \in DOMAIN Append(ch, m) /\ \A j \in DOMAIN ch : j \in DOMAIN Append(ch, m)
    BY <1>0, <2>1
  <2>. QED  BY <1>0, <2>1, <2>2
<1>2. ASSUME ch # <<>>, NEW j \in DOMAIN ch, j # 1
      PROVE  \E i \in DOMAIN Tail(ch) : Tail(ch)[i] = ch[j]
  <2>1. /\ Tail(ch) \in Seq(S) /\ Len(Tail(ch)) = Len(ch) - 1
        /\ \A i \in 1..Len(Tail(ch)) : Tail(ch)[i] = ch[i + 1]
    BY <1>2, HeadTailProperties
  <2>2. DOMAIN Tail(ch) = 1..(Len(ch) - 1)
    BY <2>1, LenProperties
  <2>3. j - 1 \in DOMAIN Tail(ch) /\ (j - 1) + 1 = j /\ j - 1 \in 1..Len(Tail(ch))
    BY <1>0, <1>2, <2>1, <2>2
  <2>4. Tail(ch)[j - 1] = ch[j]
    BY <2>1, <2>3
  <2>. QED  BY <2>3, <2>4
<1>. QED  BY <1>1, <1>2

\* The process does not end while it has work.
Lives == Faults \cap {"crash", "noprover"} = {}

\* A queued job stays queued until the file loop takes it up.
LEMMA QueuedStays ==
    ASSUME Lives, MapInv, [Next]_vars, NEW c \in Calls, InFileChannel(c)
    PROVE  InFileChannel(c)' \/ task'[c].pc = "file"
<1>. USE TypeParts DEF TypePart
<1>0. TypeOK /\ StartedFirst /\ Steps /\ CallsType /\ fileCh \in Seq(FileGenerator)
  BY StepMoves DEF MapInv, FileType
<1>1. PICK j \in DOMAIN fileCh : fileCh[j].id = c
  BY DEF InFileChannel
<1>2. CASE UNCHANGED fileCh
  BY <1>1, <1>2 DEF InFileChannel
<1>3. ASSUME NEW d \in Calls, CallMoves(d), fileCh' # fileCh PROVE InFileChannel(c)'
  <2>. DEFINE m == [id |-> d, uuid |-> calls[d].uuid, circuit |-> calls[d].body.circuit,
                    inputs |-> calls[d].body.inputs]
  <2>1. fileCh' = Append(fileCh, m) /\ calls[d].pc = "send"
    BY <1>3 DEF CallMoves, Turns, At
  <2>2. m \in FileGenerator
    BY <1>0, <2>1, BodiesAssumption DEF CallsType, Awaits, SubmitAwaits, Body, FileGenerator
  <2>. HIDE DEF m
  <2>3. \E i \in DOMAIN fileCh' : fileCh'[i] = fileCh[j]
    BY <1>0, <2>1, <2>2, QueueKeeps
  <2>. QED  BY <1>1, <2>3 DEF InFileChannel
<1>4. CASE LoopMoves
  <2>1. CASE /\ fileCh # <<>> /\ fileCh' = Tail(fileCh) /\ TakenUp(fileCh[1], "file")
    <3>1. j = 1 \/ \E i \in DOMAIN fileCh' : fileCh'[i] = fileCh[j]
      BY <1>0, <2>1, QueueKeeps
    <3>. QED  BY <1>1, <2>1, <3>1 DEF InFileChannel, TakenUp
  <2>. QED  BY <1>2, <1>4, <2>1 DEF LoopMoves
<1>5. ASSUME NEW d \in Calls, JobMoves(d) PROVE UNCHANGED fileCh
  BY <1>5 DEF JobMoves
<1>6. ASSUME ExitMoves PROVE FALSE
  BY <1>0, <1>1, <1>6 DEF ExitMoves, Lives, StartedFirst
<1>. QED  BY <1>0, <1>2, <1>3, <1>4, <1>5, <1>6 DEF Steps, serverVars

\* A job that was taken up stays in the pipeline's books.
LEMMA TakenStays ==
    ASSUME TypeOK, [Next]_vars, NEW c \in Calls, task[c].pc # "none"
    PROVE  task'[c].pc # "none"
<1>1. Steps
  BY StepMoves
<1>2. ASSUME NEW d \in Calls, JobMoves(d) PROVE task'[c].pc # "none"
  BY <1>2 DEF JobMoves, Move
<1>. QED  BY <1>1, <1>2 DEF Steps, LoopMoves, TakenUp, ExitMoves, otherVars, serverVars

\* The handler that leaves "send" for the removal has queued its job.
LEMMA SendQueues ==
    ASSUME TypeOK, [Next]_vars, NEW c \in Calls, calls[c].pc = "send", calls'[c].pc # "send",
           calls'[c].pc # "dropped"
    PROVE  InFileChannel(c)'
<1>. USE TypeParts DEF TypePart
<1>0. Steps /\ CallsType /\ fileCh \in Seq(FileGenerator)
  BY StepMoves DEF FileType
<1>. DEFINE m == [id |-> c, uuid |-> calls[c].uuid, circuit |-> calls[c].body.circuit,
                  inputs |-> calls[c].body.inputs]
<1>1. CallMoves(c)
  BY <1>0 DEF Steps, CallMoves, ExitMoves, Turns, serverVars
<1>2. fileCh' = Append(fileCh, m)
  BY <1>1 DEF CallMoves, Turns, At
<1>3. m \in FileGenerator /\ m.id = c
  BY <1>0, BodiesAssumption DEF CallsType, Awaits, SubmitAwaits, Body, FileGenerator
<1>. HIDE DEF m
<1>4. \E i \in DOMAIN fileCh' : fileCh'[i] = m
  BY <1>0, <1>2, <1>3, QueueKeeps
<1>. QED  BY <1>3, <1>4 DEF InFileChannel

\* AcceptedMeansQueued from the moment the job is queued.
QueuedInv ==
    /\ MapInv /\ AnswerInv
    /\ \A c \in Calls : Decided(c, "accepted") => InPipeline(c)

\* As long as the process lives, a client learns that its request was accepted
\* only after the request was queued, and it stays in the pipeline's books.
THEOREM AcceptedMeansQueuedCorrect ==
    ASSUME Faults \cap {"crash", "noprover"} = {}
    PROVE  Spec => []AcceptedMeansQueued
<1>1. Init => QueuedInv
  BY MapInvInit, AnswerInvInit DEF Init, RpcInit, IdleCall, QueuedInv, Decided
<1>2. ASSUME QueuedInv, [Next]_vars PROVE QueuedInv'
  <2>0. MapInv /\ AnswerInv /\ TypeOK /\ MapInv' /\ AnswerInv'
    BY <1>2, MapInvStep, AnswerInvStep DEF QueuedInv, MapInv
  <2>1. ASSUME NEW c \in Calls, Decided(c, "accepted")' PROVE InPipeline(c)'
    <3>1. Decided(c, "accepted") \/ (calls[c].pc = "send" /\ calls'[c].pc \in {"remove", "replied"})
      BY <1>2, <2>0, <2>1, AnswerStems DEF AnswerInv, Decided, At
    <3>2. CASE Decided(c, "accepted")
      <4>1. InFileChannel(c) \/ task[c].pc # "none"
        BY <1>2, <3>2 DEF QueuedInv, InPipeline, Doing
      <4>2. InFileChannel(c)' \/ task'[c].pc # "none"
        BY <1>2, <2>0, <4>1, QueuedStays, TakenStays DEF Lives
      <4>. QED  BY <4>2 DEF InPipeline, Doing
    <3>3. CASE calls[c].pc = "send" /\ calls'[c].pc \in {"remove", "replied"}
      BY <1>2, <2>0, <3>3, SendQueues DEF InPipeline
    <3>. QED  BY <3>1, <3>2, <3>3
  <2>. QED  BY <2>0, <2>1 DEF QueuedInv
<1>3. QueuedInv => AcceptedMeansQueued
  BY DEF QueuedInv, Decided, AcceptedMeansQueued, Answered, At
<1>. QED  BY <1>1, <1>2, <1>3, PTL DEF Spec

----------------------------------------------------------------------------
(* A job and its row *)

\* While a job is in the pipeline, its row changes only with its own steps.
LEMMA RowLeftAlone ==
    ASSUME JobInv, [Next]_vars, NEW c \in Calls, task[c].pc # "none"
    PROVE  JobMoves(c) \/ proofs'[task[c].uuid] = proofs[task[c].uuid]
<1>. USE TypeParts DEF TypePart
<1>0. TypeOK /\ JobsOwnRows /\ Steps /\ TableType /\ CallsType /\ TasksType
  BY StepMoves DEF JobInv
<1>. DEFINE u == task[c].uuid
<1>1. u \in Uuids /\ Exists(u) /\ proofs[u].owner = c
  BY <1>0 DEF TasksType, JobsOwnRows, OwnsRow
<1>. HIDE DEF u
<1>2. ASSUME NEW w \in Uuids, NEW s, Becomes(w, s), w # u PROVE proofs'[u] = proofs[u]
  BY <1>1, <1>2 DEF Becomes
<1>3. ASSUME NEW d \in Calls, CallMoves(d) PROVE proofs'[u] = proofs[u]
  <2>1. ASSUME NEW ok \in BOOLEAN, At(d, "create"),
               create_proof_status(calls[d].uuid, d, metadata(calls[d].body), calls[d].body.fits, ok)
        PROVE  proofs'[u] = proofs[u]
    <3>. DEFINE w == calls[d].uuid
                request == metadata(calls[d].body)
                fits == calls[d].body.fits
    <3>1. w \in Uuids /\ create_proof_status(w, d, request, fits, ok)
      BY <1>0, <2>1 DEF CallsType, At, Awaits, SubmitAwaits
    <3>. HIDE DEF w, request, fits
    <3>2. (ok = FALSE /\ UNCHANGED <<proofs, notified>>) \/ (~Exists(w) /\ Becomes(w, Pending))
      BY <1>0, <3>1, CreateExecuted
    <3>. QED  BY <1>1, <1>2, <3>1, <3>2
  <2>. QED  BY <1>3, <2>1 DEF CallMoves, Turns
<1>4. ASSUME NEW d \in Calls, d # c, JobMoves(d) PROVE proofs'[u] = proofs[u]
  <2>1. JobStatement(d)
    BY <1>4, JobStatements
  <2>. DEFINE w == task[d].uuid
  <2>2. task[d].pc # "none" => w \in Uuids /\ w # u
    BY <1>0, <1>1, <1>4 DEF TasksType, JobsOwnRows, OwnsRow
  <2>3. UNCHANGED proofs \/ (task[d].pc # "none" /\ \E s : Becomes(w, s))
    BY <2>1 DEF JobStatement, Executed, Move
  <2>. HIDE DEF w
  <2>. QED  BY <1>2, <2>2, <2>3
<1>. QED  BY <1>0, <1>3, <1>4 DEF Steps, LoopMoves, ExitMoves, serverVars, u

\* What happens to a job in one step.
JobFollows(c) ==
    \/ JobMoves(c)
    \/ /\ task[c].pc = "none" /\ task'[c].pc \in {"none", "file"}
       /\ task'[c].reason = task[c].reason \/ task'[c].reason = "none"
    \/ /\ task[c].pc # "none" /\ proofs'[task[c].uuid] = proofs[task[c].uuid]
       /\ task'[c].uuid = task[c].uuid /\ task'[c].reason = task[c].reason
       /\ \/ task'[c].pc = task[c].pc
          \/ task[c].pc = "witness_queued" /\ task'[c].pc = "witness"
          \/ task[c].pc = "proof_queued" /\ task'[c].pc = "prove"
          \/ task[c].pc \in Working /\ task'[c].pc = "lost" /\ ExitMoves

\* Every step of the server follows one job that way.
LEMMA JobsFollow ==
    ASSUME PlaceInv, [Next]_vars, NEW c \in Calls
    PROVE  JobFollows(c)
<1>. USE TypeParts DEF TypePart
<1>0. JobInv /\ TypeOK /\ JobsOwnRows /\ JobsPlaced /\ Steps
  BY StepMoves DEF PlaceInv, JobInv
<1>1. task[c].pc # "none" => JobMoves(c) \/ proofs'[task[c].uuid] = proofs[task[c].uuid]
  BY <1>0, RowLeftAlone
<1>2. CASE task'[c] = task[c]
  BY <1>1, <1>2 DEF JobFollows
<1>3. CASE LoopMoves
  <2>1. /\ fileCh # <<>> => 1 \in DOMAIN fileCh
        /\ witnessCh # <<>> => 1 \in DOMAIN witnessCh
        /\ proofCh # <<>> => 1 \in DOMAIN proofCh
    BY <1>0, ReceiveType DEF FileType, WitnessType, ProofType
  <2>2. CASE fileCh # <<>> /\ TakenUp(fileCh[1], "file") /\ task'[fileCh[1].id].reason = "none"
    BY <1>0, <1>2, <2>1, <2>2 DEF JobsPlaced, Doing, TakenUp, JobFollows
  <2>3. CASE /\ witnessCh # <<>> /\ TakenUp(witnessCh[1], "witness")
             /\ task'[witnessCh[1].id].reason = task[witnessCh[1].id].reason
    <3>1. CASE c = witnessCh[1].id
      <4>1. task[c].pc = "witness_queued" /\ task'[c].pc = "witness"
        BY <1>0, <2>1, <2>3, <3>1 DEF JobsPlaced, Doing, TakenUp
      <4>2. task'[c].uuid = task[c].uuid
        BY <1>0, <2>1, <2>3, <3>1, <4>1 DEF JobsOwnRows, OwnsRow, TakenUp
      <4>. QED  BY <1>1, <2>3, <3>1, <4>1, <4>2 DEF JobFollows
    <3>. QED  BY <1>2, <2>3, <3>1 DEF TakenUp
  <2>4. CASE /\ proofCh # <<>> /\ TakenUp(proofCh[1], "prove")
             /\ task'[proofCh[1].id].reason = task[proofCh[1].id].reason
    <3>1. CASE c = proofCh[1].id
      <4>1. task[c].pc = "proof_queued" /\ task'[c].pc = "prove"
        BY <1>0, <2>1, <2>4, <3>1 DEF JobsPlaced, Doing, TakenUp
      <4>2. task'[c].uuid = task[c].uuid
        BY <1>0, <2>1, <2>4, <3>1, <4>1 DEF JobsOwnRows, OwnsRow, TakenUp
      <4>. QED  BY <1>1, <2>4, <3>1, <4>1, <4>2 DEF JobFollows
    <3>. QED  BY <1>2, <2>4, <3>1 DEF TakenUp
  <2>. QED  BY <1>3, <2>2, <2>3, <2>4 DEF LoopMoves
<1>4. CASE ExitMoves
  BY <1>1, <1>2, <1>4 DEF ExitMoves, JobFollows, Working
<1>5. ASSUME NEW d \in Calls, JobMoves(d) PROVE JobFollows(c)
  <2>1. CASE d = c
    BY <1>5, <2>1 DEF JobFollows
  <2>2. CASE d # c
    BY <1>2, <1>5, <2>2 DEF JobMoves
  <2>. QED  BY <2>1, <2>2
<1>. QED  BY <1>0, <1>2, <1>3, <1>4, <1>5 DEF Steps, otherVars, serverVars

----------------------------------------------------------------------------
(* Failures are recorded *)

\* The row of a job that is through: its outcome, and the reason of a failure.
Settled(c) ==
    LET row == proofs[task[c].uuid]
    IN  /\ row.status \in {ProofGenererated, Failed}
        /\ task[c].reason # "none" => row.status = Failed /\ row.reason

\* FailureRecorded is about ended jobs; a job with a reason is on its way there.
Ends(c) ==
    /\ task[c].reason # "none" => task[c].pc \in {"fail", "rm", "ended", "lost"}
    /\ task[c].pc = "fail" => task[c].reason = "storable"
    /\ task[c].pc \in {"rm", "ended"} => Settled(c)

EndInv == PlaceInv /\ \A c \in Calls : Ends(c)

\* At first there is no job,
LEMMA EndInvInit == Init => EndInv
BY PlaceInvInit DEF Init, PipelineInit, NoTask, EndInv, Ends

\* fail_proof takes effect when the database works and can store the reason.
LEMMA FailWrites ==
    ASSUME "db" \notin Faults, TableType, NEW u \in Uuids, Exists(u), NEW ok \in BOOLEAN,
           NEW storable, storable = TRUE, fail_proof(u, storable, ok)
    PROVE  proofs'[u].status = Failed /\ proofs'[u].reason
<1>. DEFINE row == [proofs[u] EXCEPT !.status = Failed, !.reason = TRUE]
<1>0. proofs \in [Uuids -> Row] /\ proofs[u] \in Row
  BY DEF TableType
<1>1. row.status = Failed /\ row.reason
  BY <1>0 DEF Row
<1>2. Execute(storable, u, row, ok)
  BY DEF fail_proof, Update
<1>. HIDE DEF row
<1>3. proofs' = [proofs EXCEPT ![u] = row]
  BY <1>2 DEF Execute, Write
<1>. QED  BY <1>0, <1>1, <1>3

\* and a failing job writes its reason before it ends.
LEMMA EndInvStep ==
    ASSUME Faults \cap {"db", "unstorable"} = {}, EndInv, [Next]_vars
    PROVE  EndInv'
<1>. USE TypeParts DEF TypePart
<1>0. /\ PlaceInv /\ PlaceInv' /\ JobInv /\ TypeOK /\ JobsOwnRows /\ TableType /\ TasksType
      /\ \A c \in Calls : Ends(c)
  BY PlaceInvStep DEF EndInv, PlaceInv, JobInv
<1>1. ASSUME NEW c \in Calls PROVE Ends(c)'
  <2>. DEFINE u == task[c].uuid
  <2>0. JobFollows(c) /\ Ends(c)
    BY <1>0, JobsFollow
  <2>1. task[c].pc # "none" => u \in Uuids /\ Exists(u)
    BY <1>0 DEF TasksType, JobsOwnRows, OwnsRow
  <2>2. CASE /\ task[c].pc = "none" /\ task'[c].pc \in {"none", "file"}
             /\ task'[c].reason = task[c].reason \/ task'[c].reason = "none"
    BY <2>0, <2>2 DEF Ends
  <2>3. CASE /\ task[c].pc # "none" /\ proofs'[u] = proofs[u]
             /\ task'[c].uuid = task[c].uuid /\ task'[c].reason = task[c].reason
             /\ \/ task'[c].pc = task[c].pc
                \/ task[c].pc = "witness_queued" /\ task'[c].pc = "witness"
                \/ task[c].pc = "proof_queued" /\ task'[c].pc = "prove"
                \/ task[c].pc \in Working /\ task'[c].pc = "lost" /\ ExitMoves
    BY <2>0, <2>3 DEF Ends, Settled
  <2>4. CASE JobMoves(c)
    <3>1. /\ task'[c].uuid = u
          /\ task'[c].reason # task[c].reason =>
                task'[c].pc = "fail" /\ task[c].pc \notin {"fail", "rm"} \cup Stopped
          /\ task'[c].pc = "fail" /\ task[c].pc # "fail" => task'[c].reason = "storable"
      BY <2>4 DEF JobMoves, JobFields
    <3>2. ASSUME NEW ok \in BOOLEAN, Move(c, "store", {IF ok THEN "rm" ELSE "fail"}),
                 Executed(u, ProofGenererated, tmp[u].proof # None, ok)
          PROVE  Ends(c)'
      <4>1. CASE ok = FALSE
        BY <3>1, <3>2, <4>1 DEF Move, Ends
      <4>2. CASE ok = TRUE
        <5>1. proofs'[u].status = ProofGenererated
          BY <3>2, <4>2 DEF Executed, Becomes
        <5>2. task'[c].pc = "rm" /\ task'[c].reason = "none"
          BY <2>0, <3>1, <3>2, <4>2 DEF Move, Ends
        <5>. QED  BY <3>1, <5>1, <5>2 DEF Ends, Settled
      <4>. QED  BY <4>1, <4>2
    <3>3. ASSUME NEW ok \in BOOLEAN, Move(c, "fail", {"rm"}),
                 fail_proof(u, task[c].reason = "storable", ok)
          PROVE  Ends(c)'
      <4>. DEFINE storable == task[c].reason = "storable"
      <4>1. storable = TRUE /\ fail_proof(u, storable, ok) /\ u \in Uuids /\ Exists(u)
        BY <2>0, <2>1, <3>3 DEF Move, Ends
      <4>. HIDE DEF storable, u
      <4>2. proofs'[u].status = Failed /\ proofs'[u].reason
        BY <1>0, <4>1, FailWrites
      <4>3. task'[c].pc = "rm" /\ task'[c].uuid = u
        BY <3>1, <3>3 DEF Move
      <4>. QED  BY <4>2, <4>3 DEF Ends, Settled
    <3>4. CASE task'[c].pc \notin {"rm", "ended"} /\ task[c].pc \notin {"fail", "rm", "ended", "lost"}
      BY <2>0, <3>1, <3>4 DEF Ends
    <3>5. CASE Move(c, "rm", {"ended"}) /\ UNCHANGED proofs
      <4>1. task'[c].pc = "ended" /\ task'[c].reason = task[c].reason /\ Settled(c)
        BY <2>0, <3>1, <3>5 DEF Move, Ends
      <4>. QED  BY <3>1, <3>5, <4>1 DEF Ends, Settled
    <3>6. CASE task'[c] = task[c] /\ UNCHANGED proofs
      BY <2>0, <3>6 DEF Ends, Settled
    <3>7. JobStatement(c)
      BY <1>0, <2>4, JobStatements
    <3>. QED  BY <2>4, <3>2, <3>3, <3>4, <3>5, <3>6, <3>7
              DEF JobMoves, JobStatement, Move, Early, Late
  <2>. QED  BY <2>0, <2>2, <2>3, <2>4 DEF JobFollows
<1>. QED  BY <1>0, <1>1 DEF EndInv

\* While statements have an effect and the reasons can be stored, a job that
\* ended in an error is marked Failed with its reason, even when answers of the
\* database are lost and the process is started again.
THEOREM FailureRecordedCorrect ==
    ASSUME Faults \cap {"db", "unstorable"} = {}
    PROVE  Spec => []FailureRecorded
<1>1. EndInv /\ [Next]_vars => EndInv'
  BY EndInvStep
<1>2. EndInv => FailureRecorded
  BY DEF EndInv, Ends, Settled, FailureRecorded, Doing
<1>. QED  BY <1>1, <1>2, EndInvInit, PTL DEF Spec

----------------------------------------------------------------------------
(* Nobody's work is forgotten *)

\* Whatever has no other place is with a handler, a message or a task; this
\* needs what is known about rows, stages and circuits.
PendingInv ==
    EndInv /\ StatusInv /\ RowInv /\ CircuitInv /\ NoTaskPanics /\ PendingIsQueued

\* A request that is not settled after a step was just created, or was not
\* settled before.
LEMMA PendingStems ==
    ASSUME StatusInv, [Next]_vars, "unknown" \notin Faults,
           NEW u \in Uuids, proofs'[u].status \in {Pending, WitnessGenerated}
    PROVE  \/ \E c \in Calls : proofs'[u].owner = c /\ calls'[c].pc = "send"
           \/ /\ proofs[u].status \in {Pending, WitnessGenerated}
              /\ proofs'[u].owner = proofs[u].owner
<1>0. TypeOK /\ RowsKept /\ RowStem(u)
  BY StepType, RowStems DEF StatusInv, PlaceInv, JobInv, StepKept
<1>1. CASE ~Exists(u)
  <2>1. Exists(u)' /\ proofs'[u] # NoRow
    BY DEF Exists, NoRow, Absent, Pending, WitnessGenerated
  <2>. QED  BY <1>0, <1>1, <2>1 DEF RowStem
<1>2. CASE Exists(u)
  <2>1. UNCHANGED <<proofs, notified>> \/ \E w \in Uuids : Advances(w)
    BY StepAdvances
  <2>2. ASSUME NEW w \in Uuids, Advances(w) PROVE proofs[u].status \in {Pending, WitnessGenerated}
    <3>1. CASE w = u
      BY <1>2, <2>2, <3>1
      DEF Advances, Becomes, Status, Exists, Absent, Pending, WitnessGenerated, ProofGenererated,
          Failed
    <3>2. CASE w # u
      BY <2>2, <3>2 DEF Advances, Becomes
    <3>. QED  BY <3>1, <3>2
  <2>. QED  BY <1>0, <1>2, <2>1, <2>2 DEF RowsKept
<1>. QED  BY <1>1, <1>2

\* As long as the process lives, clients stay, the database works and the errors
\* of the programs can be read and stored, behind every request that is not
\* settled there is a handler, a message or a task at work on it.
THEOREM PendingIsQueuedCorrect ==
    ASSUME Faults \cap {"crash", "noprover", "disconnect", "db", "unknown", "unstorable",
                        "garbled"} = {}
    PROVE  Spec => []PendingIsQueued
<1>1. Init => PendingInv
  <2>1. Init => PendingIsQueued /\ NoTaskPanics
    BY DEF Init, RpcInit, TableInit, PipelineInit, NoRow, NoTask, PendingIsQueued, NoTaskPanics,
       Doing, Absent, Pending, WitnessGenerated
  <2>. QED  BY <2>1, EndInvInit, StatusInvInit, RowInvInit, CircuitInvInit DEF PendingInv
<1>2. ASSUME PendingInv, [Next]_vars PROVE PendingInv'
  <2>. USE TypeParts DEF TypePart
  <2>0. /\ EndInv /\ StatusInv /\ RowInv /\ CircuitInv /\ NoTaskPanics /\ PendingIsQueued
        /\ EndInv' /\ StatusInv' /\ RowInv' /\ CircuitInv' /\ NoTaskPanics'
    BY <1>2, EndInvStep, StatusInvStep, RowInvStep, CircuitInvStep, NoPanicStep DEF PendingInv
  <2>1. PlaceInv /\ JobsOwnRows /\ MapInv /\ StartedFirst /\ TypeOK /\ Steps /\ Lives
    BY <1>2, <2>0, StepMoves DEF EndInv, PlaceInv, JobInv, CircuitInv, MapInv, Lives
  <2>2. ASSUME NEW c \in Calls, calls[c].pc = "send"
        PROVE  calls'[c].pc = "send" \/ InFileChannel(c)'
    <3>1. ASSUME CallMoves(c) PROVE calls'[c].pc # "dropped"
      BY <2>2, <3>1 DEF CallMoves, Turns, At
    <3>2. ASSUME ExitMoves PROVE FALSE
      BY <2>1, <2>2, <3>2 DEF ExitMoves, Lives, StartedFirst, Awaits, SubmitAwaits
    <3>3. calls'[c].pc # "dropped"
      BY <2>1, <2>2, <3>1, <3>2 DEF Steps, CallMoves, serverVars
    <3>. QED  BY <1>2, <2>1, <2>2, <3>3, SendQueues
  <2>3. ASSUME NEW c \in Calls, task[c].pc \in Working,
               proofs[task[c].uuid].status \in {Pending, WitnessGenerated}
        PROVE  task'[c].pc \in Working
    <3>1. JobFollows(c) /\ Ends(c)
      BY <1>2, <2>0, <2>1, JobsFollow DEF EndInv
    <3>2. task[c].pc # "rm"
      BY <2>3, <3>1 DEF Ends, Settled, Pending, WitnessGenerated, ProofGenererated, Failed
    <3>3. task'[c].pc # "panicked"
      BY <2>0 DEF NoTaskPanics, Doing
    <3>4. CASE JobMoves(c)
      BY <2>3, <3>2, <3>3, <3>4 DEF JobMoves, Move, Working
    <3>5. ASSUME ExitMoves PROVE FALSE
      BY <2>1, <2>3, <3>5 DEF ExitMoves, Lives, StartedFirst
    <3>. QED  BY <2>3, <3>1, <3>4, <3>5 DEF JobFollows, Working
  <2>4. ASSUME NEW u \in Uuids, proofs'[u].status \in {Pending, WitnessGenerated},
               NEW c \in Calls, proofs'[u].owner = c
        PROVE  calls'[c].pc = "send" \/ InFileChannel(c)' \/ task'[c].pc \in Working
    <3>1. CASE calls'[c].pc = "send"
      BY <3>1
    <3>2. CASE proofs[u].status \in {Pending, WitnessGenerated} /\ proofs[u].owner = c
      <4>1. calls[c].pc = "send" \/ InFileChannel(c) \/ task[c].pc \in Working
        BY <2>0, <3>2 DEF PendingIsQueued, At
      <4>2. task[c].pc \in Working => task[c].uuid = u
        <5>1. calls[c].uuid = u
          BY <2>0, <3>2 DEF RowInv, RowTrue, Exists, Absent, Pending, WitnessGenerated
        <5>. QED  BY <2>1, <5>1 DEF JobsOwnRows, OwnsRow, Working
      <4>3. InFileChannel(c) => InFileChannel(c)' \/ task'[c].pc = "file"
        BY <1>2, <2>1, QueuedStays
      <4>. QED  BY <2>2, <2>3, <3>2, <4>1, <4>2, <4>3 DEF Working
    <3>. QED  BY <1>2, <2>0, <2>4, <3>1, <3>2, PendingStems
  <2>5. \A u \in Uuids :
           proofs'[u].status \in {Pending, WitnessGenerated} => proofs'[u].owner \in Calls
    BY <2>0 DEF RowInv, RowTrue, Exists, Absent, Pending, WitnessGenerated
  <2>6. PendingIsQueued'
    BY <2>4, <2>5 DEF PendingIsQueued, At
  <2>. QED  BY <2>0, <2>6 DEF PendingInv
<1>3. PendingInv => PendingIsQueued
  BY DEF PendingInv
<1>. QED  BY <1>1, <1>2, <1>3, PTL DEF Spec
----------------------------------------------------------------------------
(* Folders are removed *)

\* A folder that is there after a step: a task was about to make it, or it was
\* there before and no job of its uuid has removed it and ended.
DirStem(u) ==
    tmp'[u].dir =>
        \/ \E c \in Calls : task[c].uuid = u /\ task[c].pc = "file"
        \/ /\ tmp[u].dir
           /\ \A c \in Calls : task[c].uuid = u /\ task[c].pc = "rm" => task'[c].pc # "ended"

\* What a task, its writer or the prover does to a folder.
LEMMA TaskDirs ==
    ASSUME TypeOK, "rm" \notin Faults, NEW c \in Calls,
           TaskStep(c) \/ FlushInputs(c) \/ RunProver(c), NEW u \in Uuids
    PROVE  DirStem(u)
<1>. USE TypeParts DEF TypePart
<1>0. tmp \in [Uuids -> Folder] /\ TasksType /\ WritesType
  BY DEF FoldersType
<1>. DEFINE w == task[c].uuid
<1>1. task[c].pc # "none" /\ w \in Uuids /\ tmp[w] \in Folder
  BY <1>0 DEF TaskStep, WriteInputs, SendWitness, RunWitness, RecordWitness, SendProof, StoreProof,
        FailProof, RemoveTmpFolder, FlushInputs, RunProver, Doing, TasksType, WritesType
<1>2. \A d \in Calls \ {c} : task'[d] = task[d]
  BY <1>0, TaskMoves DEF JobMoves
<1>3. ASSUME tmp'[u].dir = tmp[u].dir, task[c].pc = "rm" => task'[c].pc # "ended"
      PROVE  DirStem(u)
  BY <1>2, <1>3 DEF DirStem
<1>4. ASSUME NEW new, tmp' = [tmp EXCEPT ![w] = new], new.dir = tmp[w].dir
      PROVE  tmp'[u].dir = tmp[u].dir
  BY <1>0, <1>1, <1>4
<1>5. CASE WriteInputs(c)
  <2>1. task[c].pc = "file"
    BY <1>5 DEF WriteInputs, Doing
  <2>2. CASE w = u
    BY <2>1, <2>2 DEF DirStem
  <2>3. CASE w # u
    <3>1. tmp'[u] = tmp[u]
      BY <1>0, <1>5, <2>3 DEF WriteInputs
    <3>. QED  BY <1>3, <2>1, <3>1
  <2>. QED  BY <2>2, <2>3
<1>6. CASE FlushInputs(c)
  <2>1. PICK whole : tmp' = [tmp EXCEPT ![w].whole = @ \/ whole]
    BY <1>6 DEF FlushInputs
  <2>. DEFINE new == [tmp[w] EXCEPT !.whole = @ \/ whole]
  <2>2. tmp' = [tmp EXCEPT ![w] = new]
    BY <1>0, <1>1, <2>1, Zenon
  <2>3. new.dir = tmp[w].dir
    BY <1>1 DEF Folder
  <2>4. UNCHANGED task
    BY <1>6 DEF FlushInputs
  <2>. HIDE DEF new, w
  <2>. QED  BY <1>3, <1>4, <2>2, <2>3, <2>4
<1>7. CASE RunWitness(c)
  <2>1. task[c].pc = "witness"
    BY <1>7 DEF RunWitness, Doing
  <2>2. ASSUME NEW out, tmp' = [tmp EXCEPT ![w].wtns = out] PROVE tmp'[u].dir = tmp[u].dir
    <3>. DEFINE new == [tmp[w] EXCEPT !.wtns = out]
    <3>1. new.dir = tmp[w].dir /\ tmp' = [tmp EXCEPT ![w] = new]
      BY <1>1, <2>2 DEF Folder
    <3>. HIDE DEF new, w
    <3>. QED  BY <1>4, <3>1
  <2>. QED  BY <1>3, <1>7, <2>1, <2>2 DEF RunWitness
<1>8. CASE RunProver(c)
  <2>1. task[c].pc = "prove"
    BY <1>8 DEF RunProver, Doing
  <2>2. ASSUME NEW out, tmp' = [tmp EXCEPT ![w].proof = out] PROVE tmp'[u].dir = tmp[u].dir
    <3>. DEFINE new == [tmp[w] EXCEPT !.proof = out]
    <3>1. new.dir = tmp[w].dir /\ tmp' = [tmp EXCEPT ![w] = new]
      BY <1>1, <2>2 DEF Folder
    <3>. HIDE DEF new, w
    <3>. QED  BY <1>4, <3>1
  <2>. QED  BY <1>3, <1>8, <2>1, <2>2 DEF RunProver
<1>9. CASE RemoveTmpFolder(c)
  <2>1. tmp' = [tmp EXCEPT ![w] = NoFolder] /\ ~NoFolder.dir
    BY <1>9 DEF RemoveTmpFolder, NoFolder
  <2>2. CASE w = u
    BY <1>0, <1>1, <2>1, <2>2 DEF DirStem
  <2>3. CASE w # u
    <3>1. tmp'[u] = tmp[u]
      BY <1>0, <2>1, <2>3
    <3>. QED  BY <1>2, <2>3, <3>1 DEF DirStem
  <2>. QED  BY <2>2, <2>3
<1>10. CASE \/ SendWitness(c) \/ RecordWitness(c) \/ SendProof(c) \/ StoreProof(c) \/ FailProof(c)
  <2>1. UNCHANGED tmp /\ task[c].pc # "rm"
    BY <1>10 DEF SendWitness, RecordWitness, SendProof, StoreProof, FailProof, Doing
  <2>. QED  BY <1>3, <2>1
<1>. QED  BY <1>5, <1>6, <1>7, <1>8, <1>9, <1>10 DEF TaskStep

\* Nobody else touches a folder, except that it may be gone after a restart.
LEMMA DirStems ==
    ASSUME TypeOK, "rm" \notin Faults, [Next]_vars, NEW u \in Uuids
    PROVE  DirStem(u)
<1>0. FileType /\ WitnessType /\ ProofType /\ TasksType /\ CallsType
  BY TypeParts DEF TypePart
<1>1. CASE UNCHANGED <<tmp, task>>
  BY <1>1 DEF DirStem
<1>2. CASE Loops(LoopStep)
  <2>1. UNCHANGED tmp
    BY <1>2 DEF Loops, LoopStep, FileLoop, WitnessLoop, ProofLoop
  <2>2. \A c \in Calls : task[c].pc = "rm" => task'[c].pc # "ended"
    BY <1>0, <1>2, LoopStepMoves DEF Loops, LoopMoves, TakenUp
  <2>. QED  BY <2>1, <2>2 DEF DirStem
<1>3. CASE Exit
  <2>1. tmp'[u] = tmp[u] \/ ~tmp'[u].dir
    BY <1>3 DEF Exit, NoFolder
  <2>2. \A c \in Calls : task[c].pc = "rm" => task'[c].pc # "ended"
    BY <1>0, <1>3, ExitStepMoves DEF ExitMoves
  <2>. QED  BY <2>1, <2>2 DEF DirStem
<1>4. ASSUME NEW c \in Calls, TaskStep(c) \/ FlushInputs(c) \/ RunProver(c) PROVE DirStem(u)
  BY <1>4, TaskDirs
<1>. QED  BY <1>1, <1>2, <1>3, <1>4
          DEF Next, Client, Handler, Pipe, PipelineStep, Loops, Starting, Install, Main, Quiet,
              pipelineVars, vars

\* A folder's job is at work, since it cannot be lost, panic, or end without
\* having removed the folder.
TmpInv == PlaceInv /\ CircuitInv /\ NoTaskPanics /\ TmpOnlyWhileWorking

\* Unless the process is killed, a folder cannot be removed or a program's error
\* cannot be read, a folder ./tmp_<uuid> is there only while a job of its uuid is
\* at work: every way out of the pipeline goes through the cleanup.
THEOREM TmpOnlyWhileWorkingCorrect ==
    ASSUME Faults \cap {"crash", "rm", "garbled"} = {}
    PROVE  Spec => []TmpOnlyWhileWorking
<1>1. Init => TmpInv
  <2>1. Init => TmpOnlyWhileWorking /\ NoTaskPanics
    BY DEF Init, PipelineInit, NoTask, NoFolder, TmpOnlyWhileWorking, NoTaskPanics, Doing
  <2>. QED  BY <2>1, PlaceInvInit, CircuitInvInit DEF TmpInv
<1>2. ASSUME TmpInv, [Next]_vars PROVE TmpInv'
  <2>0. /\ PlaceInv /\ CircuitInv /\ NoTaskPanics /\ TmpOnlyWhileWorking
        /\ PlaceInv' /\ CircuitInv' /\ NoTaskPanics' /\ TypeOK /\ StartedFirst
    BY <1>2, PlaceInvStep, CircuitInvStep, NoPanicStep DEF TmpInv, CircuitInv, MapInv
  <2>1. ASSUME NEW c \in Calls, task[c].pc \in Working,
               task[c].pc = "rm" => task'[c].pc # "ended"
        PROVE  task'[c].pc \in Working /\ task'[c].uuid = task[c].uuid
    <3>1. JobFollows(c)
      BY <1>2, <2>0, JobsFollow
    <3>2. task'[c].pc # "panicked"
      BY <2>0 DEF NoTaskPanics, Doing
    <3>3. ASSUME ExitMoves PROVE FALSE
      BY <2>0, <2>1, <3>3 DEF ExitMoves, StartedFirst
    <3>4. CASE JobMoves(c)
      BY <2>1, <3>2, <3>4 DEF JobMoves, JobFields, Move, Working
    <3>. QED  BY <2>1, <3>1, <3>3, <3>4 DEF JobFollows, Working
  <2>2. ASSUME NEW u \in Uuids, tmp'[u].dir
        PROVE  \E c \in Calls : task'[c].uuid = u /\ task'[c].pc \in Working
    <3>1. PICK c \in Calls : /\ task[c].uuid = u /\ task[c].pc \in Working
                             /\ task[c].pc = "rm" => task'[c].pc # "ended"
      BY <1>2, <2>0, <2>2, DirStems DEF DirStem, TmpOnlyWhileWorking, Working
    <3>. QED  BY <2>1, <3>1
  <2>3. TmpOnlyWhileWorking'
    BY <2>2 DEF TmpOnlyWhileWorking
  <2>. QED  BY <2>0, <2>3 DEF TmpInv
<1>3. TmpInv => TmpOnlyWhileWorking
  BY DEF TmpInv
<1>. QED  BY <1>1, <1>2, <1>3, PTL DEF Spec
=============================================================================
