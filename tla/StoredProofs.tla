---------------------------- MODULE StoredProofs ----------------------------
(***************************************************************************)
(* A stored proof is about the request its row was created for, for any    *)
(* number of calls, uuids, circuits and faults.                            *)
(***************************************************************************)
EXTENDS TeeServerProofs

Files(u) == {tmp[u].input, tmp[u].wtns, tmp[u].proof}

\* StoredProofIsOwn is not inductive: it says nothing of the files a proof is
\* read from.  The files of a folder stem from the owner of the row ...
FilesOwn ==
    \A u \in Uuids : \A f \in Files(u) :
        f # None => Exists(u) /\ f = proofs[u].owner

\* The stages after RecordWitness.
Late == {"send_proof", "proof_queued", "prove", "store"}

Witnessed(u) == Exists(u) /\ proofs[u].witness_generated_at

\* ... and a job gets past RecordWitness only when its row says so.
WitnessFirst ==
    /\ \A c \in Calls : task[c].pc \in Late => Witnessed(task[c].uuid)
    /\ \A i \in DOMAIN proofCh : Witnessed(proofCh[i].uuid)

ProofInv == JobInv /\ FilesOwn /\ WitnessFirst /\ StoredProofIsOwn

----------------------------------------------------------------------------
(* The table *)

\* What a step may do to the proof and the time stamp of a row.
RowWritten(u) ==
    \/ proofs'[u] = proofs[u]
    \/ proofs'[u].proof = None /\ ~Exists(u)
    \/ /\ proofs'[u].owner = proofs[u].owner
       /\ proofs'[u].witness_generated_at = proofs[u].witness_generated_at \/ proofs'[u].witness_generated_at
       /\ \/ proofs'[u].proof = proofs[u].proof
          \/ /\ proofs'[u].proof = tmp[u].proof
             /\ \E c \in Calls : task[c].pc = "store" /\ task[c].uuid = u

RowsWritten == \A u \in Uuids : RowWritten(u)

\* Only the row of u changes, and only to the one given.
LEMMA ExecuteWrites ==
    ASSUME TableType, NEW u \in Uuids, NEW row, NEW valid, NEW ok, Execute(valid, u, row, ok)
    PROVE  \/ proofs' = proofs
           \/ valid /\ proofs' = [proofs EXCEPT ![u] = row]
BY DEF Execute, Write

\* Every step writes rows in one of these ways, and a proof only in StoreProof.
LEMMA StepWrites ==
    ASSUME TypeOK, [Next]_vars
    PROVE  RowsWritten
<1>. USE TypeParts DEF TypePart
<1>0. proofs \in [Uuids -> Row] /\ TableType /\ CallsType /\ TasksType
  BY DEF TableType
<1>1. CASE UNCHANGED proofs
  BY <1>1 DEF RowsWritten, RowWritten
<1>n. NoRow.proof = None
  BY DEF NoRow
<1>2. ASSUME NEW c \in Calls, CreateRow(c) PROVE RowsWritten
  <2>. DEFINE u == calls[c].uuid
              row == [NoRow EXCEPT !.status = Pending, !.owner = c, !.request = metadata(calls[c].body)]
  <2>1. u \in Uuids
    BY <1>0, <1>2 DEF CreateRow, At, CallsType, Awaits, SubmitAwaits
  <2>2. row.proof = None
    BY DEF NoRow
  <2>3. PICK ok \in BOOLEAN : Execute(~Exists(u) /\ calls[c].body.fits /\ InsertColumns \subseteq Columns,
                                     u, row, ok)
    BY <1>2 DEF CreateRow, create_proof_status
  <2>. HIDE DEF u, row
  <2>4. proofs' = proofs \/ (~Exists(u) /\ proofs' = [proofs EXCEPT ![u] = row])
    BY <1>0, <2>1, <2>3, ExecuteWrites
  <2>. QED  BY <1>0, <1>1, <2>1, <2>2, <2>4 DEF RowsWritten, RowWritten
<1>u. ASSUME NEW c \in Calls, NEW u \in Uuids, NEW row, NEW valid, NEW ok,
             Execute(valid, u, Update(u, row), ok), row.owner = proofs[u].owner,
             \/ row.witness_generated_at = proofs[u].witness_generated_at
             \/ row.witness_generated_at,
             \/ row.proof = proofs[u].proof
             \/ row.proof = tmp[u].proof /\ task[c].pc = "store" /\ task[c].uuid = u
      PROVE  RowsWritten
  <2>1. proofs' = proofs \/ proofs' = [proofs EXCEPT ![u] = Update(u, row)]
    BY <1>0, <1>u, ExecuteWrites
  <2>2. CASE Exists(u)
    BY <1>0, <1>1, <1>u, <2>1, <2>2 DEF RowsWritten, RowWritten, Update
  <2>3. CASE ~Exists(u)
    BY <1>0, <1>1, <1>n, <2>1, <2>3 DEF RowsWritten, RowWritten, Update
  <2>. QED  BY <2>2, <2>3
<1>3. ASSUME NEW c \in Calls, RecordWitness(c) \/ StoreProof(c) \/ FailProof(c) PROVE RowsWritten
  <2>. DEFINE u == task[c].uuid
  <2>1. u \in Uuids /\ proofs[u] \in Row
    BY <1>0, <1>3 DEF RecordWitness, StoreProof, FailProof, Doing, TasksType
  <2>2. CASE RecordWitness(c)
    <3>. DEFINE row == [proofs[u] EXCEPT !.status = WitnessGenerated, !.witness_generated_at = TRUE]
    <3>1. /\ row.owner = proofs[u].owner /\ row.proof = proofs[u].proof
          /\ row.witness_generated_at
      BY <2>1 DEF Row
    <3>2. PICK ok : Execute(TRUE, u, Update(u, row), ok)
      BY <2>2 DEF RecordWitness, set_witness_generated
    <3>. HIDE DEF row, u
    <3>. QED  BY <1>u, <2>1, <3>1, <3>2
  <2>3. CASE StoreProof(c)
    <3>. DEFINE row == [proofs[u] EXCEPT !.status = ProofGenererated, !.proof = tmp[u].proof]
    <3>1. /\ row.owner = proofs[u].owner /\ row.proof = tmp[u].proof
          /\ row.witness_generated_at = proofs[u].witness_generated_at
          /\ task[c].pc = "store" /\ task[c].uuid = u
      BY <2>1, <2>3 DEF Row, StoreProof, Doing
    <3>2. PICK ok : Execute(tmp[u].proof # None, u, Update(u, row), ok)
      BY <2>3 DEF StoreProof, update_proof
    <3>. HIDE DEF row, u
    <3>. QED  BY <1>u, <2>1, <3>1, <3>2
  <2>4. CASE FailProof(c)
    <3>. DEFINE row == [proofs[u] EXCEPT !.status = Failed, !.reason = TRUE]
    <3>1. /\ row.owner = proofs[u].owner /\ row.proof = proofs[u].proof
          /\ row.witness_generated_at = proofs[u].witness_generated_at
      BY <2>1 DEF Row
    <3>2. PICK ok : Execute(task[c].reason = "storable", u, Update(u, row), ok)
      BY <2>4 DEF FailProof, fail_proof
    <3>. HIDE DEF row, u
    <3>. QED  BY <1>u, <2>1, <3>1, <3>2
  <2>. QED  BY <1>3, <2>2, <2>3, <2>4
<1>4. ASSUME NEW c \in Calls, Client(c) \/ Handler(c) PROVE RowsWritten
  BY <1>1, <1>2, <1>4
  DEF Client, ClientStep, HelloRefused, Hello, SubmitRefused, Submit, Disconnect, Handler,
      HandlerStep, Attest, InsertAgreement, Lookup, SendJob, RemoveAgreement
<1>5. CASE Pipe
  <2>1. ASSUME NEW c \in Calls, TaskStep(c) \/ FlushInputs(c) \/ RunProver(c) PROVE RowsWritten
    BY <1>1, <1>3, <2>1
    DEF TaskStep, WriteInputs, FlushInputs, SendWitness, RunWitness, SendProof, RunProver,
        RemoveTmpFolder
  <2>2. CASE LoopStep
    BY <1>1, <2>2 DEF LoopStep, FileLoop, WitnessLoop, ProofLoop
  <2>. QED  BY <1>5, <2>1, <2>2 DEF Pipe, Loops, PipelineStep
<1>6. CASE Exit
  BY <1>1, <1>6 DEF Exit
<1>7. CASE Starting \/ Install
  BY <1>1, <1>7, MainSteps DEF serverVars
<1>. QED  BY <1>1, <1>4, <1>5, <1>6, <1>7 DEF Next, Quiet, vars, pipelineVars

----------------------------------------------------------------------------
(* The files *)

\* A file after a step was there before, or was written by a job of its uuid.
FilesStem ==
    \A u \in Uuids : \A f \in {tmp'[u].input, tmp'[u].wtns, tmp'[u].proof} :
        \/ f \in Files(u) \cup {None}
        \/ f \in Calls /\ task[f].pc # "none" /\ task[f].uuid = u

\* Every step leaves the files of a folder with its own jobs.
LEMMA StepFiles ==
    ASSUME TypeOK, [Next]_vars
    PROVE  FilesStem
<1>. USE TypeParts DEF TypePart
<1>0. tmp \in [Uuids -> Folder] /\ TasksType /\ WritesType /\ FoldersType
  BY DEF FoldersType
<1>1. CASE UNCHANGED tmp
  BY <1>1 DEF FilesStem, Files
<1>2. ASSUME NEW u \in Uuids, NEW new, tmp' = [tmp EXCEPT ![u] = new],
             \A f \in {new.input, new.wtns, new.proof} :
                \/ f \in Files(u) \cup {None}
                \/ f \in Calls /\ task[f].pc # "none" /\ task[f].uuid = u
      PROVE  FilesStem
  BY <1>0, <1>2 DEF FilesStem, Files
<1>n. NoFolder.input = None /\ NoFolder.wtns = None /\ NoFolder.proof = None
  BY DEF NoFolder
<1>3. ASSUME NEW c \in Calls, TaskStep(c) \/ FlushInputs(c) \/ RunProver(c) PROVE FilesStem
  <2>. DEFINE u == task[c].uuid
  <2>0. task[c].pc # "none" /\ u \in Uuids /\ tmp[u] \in Folder
    BY <1>0, <1>3
    DEF TaskStep, WriteInputs, SendWitness, RunWitness, RecordWitness, SendProof, StoreProof,
        FailProof, RemoveTmpFolder, FlushInputs, RunProver, Doing, TasksType, WritesType
  <2>1. CASE WriteInputs(c)
    <3>1. CASE tmp' = [tmp EXCEPT ![u].dir = TRUE, ![u].input = c, ![u].whole = FALSE]
      <4>. DEFINE new == [tmp[u] EXCEPT !.dir = TRUE, !.input = c, !.whole = FALSE]
      <4>1. tmp' = [tmp EXCEPT ![u] = new]
        BY <1>0, <2>0, <3>1
      <4>2. new.input = c /\ new.wtns = tmp[u].wtns /\ new.proof = tmp[u].proof
        BY <2>0 DEF Folder
      <4>. HIDE DEF new
      <4>. QED  BY <1>2, <2>0, <4>1, <4>2 DEF Files
    <3>2. ASSUME NEW made \in BOOLEAN, tmp' = [tmp EXCEPT ![u].dir = @ \/ made] PROVE FilesStem
      <4>. DEFINE new == [tmp[u] EXCEPT !.dir = @ \/ made]
      <4>1. tmp' = [tmp EXCEPT ![u] = new]
        BY <1>0, <2>0, <3>2, Zenon
      <4>2. new.input = tmp[u].input /\ new.wtns = tmp[u].wtns /\ new.proof = tmp[u].proof
        BY <2>0 DEF Folder
      <4>. HIDE DEF new
      <4>. QED  BY <1>2, <2>0, <4>1, <4>2 DEF Files
    <3>. QED  BY <2>1, <3>1, <3>2 DEF WriteInputs
  <2>2. CASE FlushInputs(c)
    <3>1. PICK whole : tmp' = [tmp EXCEPT ![u].whole = @ \/ whole]
      BY <2>2 DEF FlushInputs
    <3>. DEFINE new == [tmp[u] EXCEPT !.whole = @ \/ whole]
    <3>2. tmp' = [tmp EXCEPT ![u] = new]
      BY <1>0, <2>0, <3>1, Zenon
    <3>3. new.input = tmp[u].input /\ new.wtns = tmp[u].wtns /\ new.proof = tmp[u].proof
      BY <2>0 DEF Folder
    <3>. HIDE DEF new
    <3>. QED  BY <1>2, <2>0, <3>2, <3>3 DEF Files
  <2>3. CASE RunWitness(c)
    <3>1. ASSUME NEW out \in {tmp[u].input, None}, tmp' = [tmp EXCEPT ![u].wtns = out]
          PROVE  FilesStem
      <4>. DEFINE new == [tmp[u] EXCEPT !.wtns = out]
      <4>1. new.input = tmp[u].input /\ new.wtns = out /\ new.proof = tmp[u].proof
        BY <2>0 DEF Folder
      <4>2. tmp' = [tmp EXCEPT ![u] = new]
        BY <3>1
      <4>. HIDE DEF new
      <4>3. \A f \in {new.input, new.wtns, new.proof} : f \in Files(u) \cup {None}
        BY <4>1 DEF Files
      <4>. HIDE DEF u
      <4>. QED  BY <1>2, <2>0, <4>2, <4>3
    <3>. QED  BY <1>1, <2>3, <3>1 DEF RunWitness
  <2>4. CASE RunProver(c)
    <3>1. ASSUME NEW out \in {tmp[u].wtns, None}, tmp' = [tmp EXCEPT ![u].proof = out]
          PROVE  FilesStem
      <4>. DEFINE new == [tmp[u] EXCEPT !.proof = out]
      <4>1. new.input = tmp[u].input /\ new.wtns = tmp[u].wtns /\ new.proof = out
        BY <2>0 DEF Folder
      <4>2. tmp' = [tmp EXCEPT ![u] = new]
        BY <3>1
      <4>. HIDE DEF new
      <4>3. \A f \in {new.input, new.wtns, new.proof} : f \in Files(u) \cup {None}
        BY <4>1 DEF Files
      <4>. HIDE DEF u
      <4>. QED  BY <1>2, <2>0, <4>2, <4>3
    <3>. QED  BY <1>1, <2>4, <3>1 DEF RunProver
  <2>5. CASE RemoveTmpFolder(c)
    BY <1>1, <1>2, <1>n, <2>0, <2>5 DEF RemoveTmpFolder
  <2>. QED  BY <1>1, <1>3, <2>1, <2>2, <2>3, <2>4, <2>5
            DEF TaskStep, SendWitness, RecordWitness, SendProof, StoreProof, FailProof
<1>4. CASE Exit
  <2>1. CASE tmp' = [u \in Uuids |-> NoFolder]
    BY <1>n, <2>1 DEF FilesStem
  <2>. QED  BY <1>1, <1>4, <2>1 DEF Exit
<1>5. CASE Pipe
  BY <1>1, <1>3, <1>5 DEF Pipe, Loops, PipelineStep, LoopStep, FileLoop, WitnessLoop, ProofLoop
<1>6. ASSUME NEW c \in Calls, Client(c) \/ Handler(c) PROVE FilesStem
  BY <1>1, <1>6 DEF Client, Handler, pipelineVars
<1>7. CASE Starting \/ Install
  BY <1>1, <1>7, MainSteps DEF serverVars
<1>. QED  BY <1>1, <1>4, <1>5, <1>6, <1>7 DEF Next, Quiet, vars, pipelineVars

----------------------------------------------------------------------------
(* The stages after RecordWitness *)

\* A job is past RecordWitness after a step if it was before, if it was taken
\* up from a message, or if the statement has just succeeded; and messages for
\* the prover come from such jobs.
StagesFollow ==
    /\ \A c \in Calls : task'[c].pc \in Late =>
          \/ task[c].pc \in Late /\ task'[c].uuid = task[c].uuid
          \/ \E i \in DOMAIN proofCh : proofCh[i].uuid = task'[c].uuid
          \/ /\ task[c].pc = "record" /\ task'[c].uuid = task[c].uuid
             /\ set_witness_generated(task[c].uuid, TRUE)
    /\ \A i \in DOMAIN proofCh' :
          \/ \E j \in DOMAIN proofCh : proofCh'[i] = proofCh[j]
          \/ \E c \in Calls : task[c].pc \in Late /\ proofCh'[i].uuid = task[c].uuid

\* A step that only moves one job on.
LEMMA ContinueFollows ==
    ASSUME TasksType, NEW c \in Calls, NEW pc, NEW reason,
           Continue(c, pc) \/ Fail(c, reason),
           pc \in Late => task[c].pc \in Late, UNCHANGED proofCh
    PROVE  StagesFollow
<1>0. task \in [Calls -> Task]
  BY DEF TasksType
<1>1. CASE Continue(c, pc)
  BY <1>0, <1>1 DEF Continue, StagesFollow, Task
<1>2. CASE Fail(c, reason)
  BY <1>0, <1>2 DEF Fail, StagesFollow, Late, Task
<1>. QED  BY <1>1, <1>2

\* Every step keeps the order of the stages.
LEMMA StepFollows ==
    ASSUME TypeOK, [Next]_vars
    PROVE  StagesFollow
<1>. USE TypeParts DEF TypePart
<1>0. task \in [Calls -> Task] /\ TasksType /\ ProofType
  BY DEF TasksType
<1>1. CASE UNCHANGED <<task, proofCh>>
  BY <1>1 DEF StagesFollow
<1>2. ASSUME NEW c \in Calls, TaskStep(c) \/ FlushInputs(c) \/ RunProver(c) PROVE StagesFollow
  <2>0. ASSUME TakeZkey(c), UNCHANGED proofCh PROVE StagesFollow
    <3>1. ASSUME NEW path, task' = [task EXCEPT ![c].pc = "record", ![c].zkey = path]
          PROVE  StagesFollow
      <4>1. task' = [task EXCEPT ![c] = [task[c] EXCEPT !.pc = "record", !.zkey = path]]
        BY <1>0, <3>1
      <4>2. [task[c] EXCEPT !.pc = "record", !.zkey = path].pc = "record"
        BY <1>0 DEF Task
      <4>3. \A d \in Calls : task'[d].pc \in Late => task'[d] = task[d]
        BY <1>0, <4>1, <4>2 DEF Late
      <4>. QED  BY <2>0, <4>3 DEF StagesFollow
    <3>. QED  BY <1>0, <2>0, <3>1, ContinueFollows DEF TakeZkey, Late
  <2>1. CASE WriteInputs(c) \/ SendWitness(c) \/ RunWitness(c)
    BY <1>0, <2>0, <2>1, ContinueFollows DEF WriteInputs, SendWitness, RunWitness, Late
  <2>2. CASE FailProof(c) \/ RemoveTmpFolder(c) \/ RunProver(c)
    BY <1>0, <2>2, ContinueFollows DEF FailProof, RemoveTmpFolder, RunProver, Late, Doing
  <2>3. CASE StoreProof(c)
    BY <1>0, <2>3, ContinueFollows DEF StoreProof, Proceed, Late
  <2>4. CASE RecordWitness(c)
    <3>1. PICK ok \in BOOLEAN : set_witness_generated(task[c].uuid, ok) /\ Proceed(c, ok, "send_proof")
      BY <2>4 DEF RecordWitness
    <3>2. task[c].pc = "record" /\ UNCHANGED proofCh
      BY <2>4 DEF RecordWitness, Doing
    <3>3. CASE ok = FALSE
      BY <1>0, <3>1, <3>2, <3>3, ContinueFollows DEF Proceed, Late
    <3>4. CASE ok = TRUE
      <4>1. set_witness_generated(task[c].uuid, TRUE) /\ task' = [task EXCEPT ![c].pc = "send_proof"]
        BY <3>1, <3>4 DEF Proceed, Continue
      <4>. QED  BY <1>0, <3>2, <4>1 DEF StagesFollow, Task
    <3>. QED  BY <3>3, <3>4
  <2>5. CASE SendProof(c)
    <3>. DEFINE m == [id |-> c, uuid |-> task[c].uuid, zkey |-> task[c].zkey]
    <3>1. /\ proofCh' = Append(proofCh, m) /\ HasPermit(proofCh) /\ task[c].pc = "send_proof"
          /\ task' = [task EXCEPT ![c].pc = "proof_queued"]
      BY <2>5 DEF SendProof, Doing, Continue
    <3>2. m \in ProofGenerator /\ m.uuid = task[c].uuid
      BY <1>0, <3>1 DEF TasksType, Task, ProofGenerator
    <3>. HIDE DEF m
    <3>3. \A i \in DOMAIN proofCh' :
             proofCh'[i] = m \/ \E j \in DOMAIN proofCh : proofCh'[i] = proofCh[j]
      BY <1>0, <3>1, <3>2, SendType DEF ProofType
    <3>4. \A d \in Calls : /\ task'[d].uuid = task[d].uuid
                           /\ task'[d].pc \in Late => task[d].pc \in Late
      BY <1>0, <3>1 DEF Late, Task
    <3>5. task[c].pc \in Late
      BY <3>1 DEF Late
    <3>. QED  BY <3>2, <3>3, <3>4, <3>5 DEF StagesFollow
  <2>6. CASE FlushInputs(c)
    BY <1>1, <2>6 DEF FlushInputs
  <2>. QED  BY <1>2, <2>1, <2>2, <2>3, <2>4, <2>5, <2>6 DEF TaskStep
<1>3. CASE FileLoop
  <2>1. PICK m : task' = [task EXCEPT ![m.id] = [pc |-> "file", uuid |-> m.uuid,
                     circuit |-> m.circuit, inputs |-> m.inputs, zkey |-> None, reason |-> "none"]]
    BY <1>3 DEF FileLoop
  <2>2. \A d \in Calls : task'[d].pc \in Late => task'[d] = task[d]
    BY <1>0, <2>1 DEF Late
  <2>. QED  BY <1>3, <2>2 DEF FileLoop, StagesFollow
<1>4. CASE WitnessLoop
  <2>. DEFINE m == witnessCh[1]
              new == [task[m.id] EXCEPT !.pc = "witness", !.uuid = m.uuid, !.circuit = m.circuit]
  <2>1. m \in WitnessGenerator /\ Head(witnessCh) = m
    BY <1>4, ReceiveType DEF WitnessLoop, WitnessType
  <2>2. task[m.id] \in Task
    BY <1>0, <2>1 DEF WitnessGenerator
  <2>3. task' = [task EXCEPT ![m.id] = new]
    BY <1>0, <1>4, <2>1, <2>2 DEF WitnessLoop
  <2>4. new.pc = "witness"
    BY <2>2 DEF Task
  <2>. HIDE DEF new, m
  <2>5. \A d \in Calls : task'[d].pc \in Late => task'[d] = task[d]
    BY <1>0, <2>3, <2>4 DEF Late
  <2>. QED  BY <1>4, <2>5 DEF WitnessLoop, StagesFollow
<1>5. CASE ProofLoop
  <2>. DEFINE m == proofCh[1]
              new == [task[m.id] EXCEPT !.pc = "prove", !.uuid = m.uuid, !.zkey = m.zkey]
  <2>1. /\ m \in ProofGenerator /\ Head(proofCh) = m /\ 1 \in DOMAIN proofCh
        /\ \A i \in DOMAIN proofCh' : \E j \in DOMAIN proofCh : proofCh'[i] = proofCh[j]
    BY <1>5, ReceiveType DEF ProofLoop, ProofType
  <2>2. task[m.id] \in Task
    BY <1>0, <2>1 DEF ProofGenerator
  <2>3. task' = [task EXCEPT ![m.id] = new]
    BY <1>0, <1>5, <2>1, <2>2 DEF ProofLoop
  <2>4. new.uuid = proofCh[1].uuid
    BY <2>2 DEF Task
  <2>. HIDE DEF new, m
  <2>5. \A d \in Calls : task'[d] = task[d] \/ task'[d].uuid = proofCh[1].uuid
    BY <1>0, <2>3, <2>4
  <2>. QED  BY <2>1, <2>5 DEF StagesFollow
<1>6. CASE Exit
  <2>1. \A c \in Calls : task[c].pc \in Working => [task[c] EXCEPT !.pc = "lost"].pc = "lost"
    BY <1>0 DEF Task
  <2>2. \A c \in Calls : task'[c].pc \notin Late
    BY <1>0, <1>6, <2>1 DEF Exit, Late, Working
  <2>3. DOMAIN proofCh' = {}
    BY <1>6 DEF Exit
  <2>. QED  BY <2>2, <2>3 DEF StagesFollow
<1>7. ASSUME NEW c \in Calls, Client(c) \/ Handler(c) PROVE StagesFollow
  BY <1>1, <1>7 DEF Client, Handler, pipelineVars
<1>8. CASE Starting \/ Install
  BY <1>1, <1>8, MainSteps DEF serverVars
<1>. QED  BY <1>1, <1>2, <1>3, <1>4, <1>5, <1>6, <1>7, <1>8
          DEF Next, Pipe, Loops, PipelineStep, LoopStep, Quiet, vars, pipelineVars

----------------------------------------------------------------------------
(* The invariant *)

\* A row with a witness keeps it.
LEMMA WitnessedKept ==
    ASSUME NEW u \in Uuids, Witnessed(u), RowsKept, RowsWritten
    PROVE  Witnessed(u)'
BY DEF Witnessed, RowsKept, RowsWritten, RowWritten, Exists

\* set_witness_generated that succeeded on an existing row.
LEMMA NowWitnessed ==
    ASSUME TableType, NEW u \in Uuids, Exists(u), set_witness_generated(u, TRUE)
    PROVE  Witnessed(u)'
<1>. DEFINE row == [proofs[u] EXCEPT !.status = WitnessGenerated, !.witness_generated_at = TRUE]
<1>1. proofs \in [Uuids -> Row] /\ proofs[u] \in Row
  BY DEF TableType
<1>2. row.status = WitnessGenerated /\ row.witness_generated_at
  BY <1>1 DEF Row
<1>3. proofs' = [proofs EXCEPT ![u] = row]
  BY DEF set_witness_generated, Execute, Write, Update
<1>. HIDE DEF row
<1>4. proofs'[u] = row
  BY <1>1, <1>3
<1>. QED  BY <1>2, <1>4 DEF Witnessed, Exists, WitnessGenerated, Absent

\* The three parts of the invariant are preserved: a job that writes a file
\* owns the row, and a row keeps its owner;
LEMMA FilesOwnStep ==
    ASSUME ProofInv, [Next]_vars
    PROVE  FilesOwn'
<1>0. TypeOK /\ JobsOwnRows /\ FilesOwn /\ RowsKept /\ FilesStem
  BY StepType, StepFiles DEF ProofInv, JobInv, StepKept
<1>. SUFFICES ASSUME NEW u \in Uuids, NEW f \in {tmp'[u].input, tmp'[u].wtns, tmp'[u].proof},
                     f # None
              PROVE  Exists(u)' /\ f = proofs'[u].owner
  BY DEF FilesOwn, Files, Exists
<1>1. Exists(u) /\ f = proofs[u].owner
  BY <1>0 DEF FilesStem, FilesOwn, JobsOwnRows, OwnsRow
<1>. QED  BY <1>0, <1>1 DEF RowsKept

\* a job gets past RecordWitness on an existing row, which keeps its witness;
LEMMA WitnessFirstStep ==
    ASSUME ProofInv, [Next]_vars
    PROVE  WitnessFirst'
<1>0. /\ TypeOK /\ TypeOK' /\ JobsOwnRows /\ WitnessFirst /\ RowsKept /\ RowsWritten
      /\ StagesFollow
  BY StepType, StepWrites, StepFollows DEF ProofInv, JobInv, StepKept
<1>1. TableType /\ TasksType /\ TasksType' /\ ProofType /\ ProofType'
  BY <1>0, TypeParts DEF TypePart
<1>2. ASSUME NEW c \in Calls, NEW u \in Uuids, task'[c].pc \in Late, task'[c].uuid = u
      PROVE  Witnessed(u)'
  <2>1. CASE task[c].pc \in Late /\ task'[c].uuid = task[c].uuid
    BY <1>0, <1>2, <2>1, WitnessedKept DEF WitnessFirst
  <2>2. CASE \E i \in DOMAIN proofCh : proofCh[i].uuid = task'[c].uuid
    BY <1>0, <1>2, <2>2, WitnessedKept DEF WitnessFirst
  <2>3. CASE task[c].pc = "record" /\ task'[c].uuid = task[c].uuid
             /\ set_witness_generated(task[c].uuid, TRUE)
    <3>1. Exists(u)
      BY <1>0, <1>2, <2>3 DEF JobsOwnRows, OwnsRow
    <3>2. set_witness_generated(u, TRUE)
      BY <1>2, <2>3
    <3>. QED  BY <1>1, <3>1, <3>2, NowWitnessed
  <2>. QED  BY <1>0, <1>2, <2>1, <2>2, <2>3 DEF StagesFollow
<1>3. ASSUME NEW i \in DOMAIN proofCh', NEW u \in Uuids, proofCh'[i].uuid = u
      PROVE  Witnessed(u)'
  <2>1. Witnessed(u)
    BY <1>0, <1>3 DEF StagesFollow, WitnessFirst
  <2>. QED  BY <1>0, <2>1, WitnessedKept
<1>4. \A c \in Calls : task'[c].pc \in Late => task'[c].uuid \in Uuids
  BY <1>1 DEF TasksType, Late
<1>5. \A i \in DOMAIN proofCh' : proofCh'[i].uuid \in Uuids
  <2>1. \A i \in DOMAIN proofCh' : proofCh'[i] \in ProofGenerator
    BY <1>1, ElementOfSeq, LenProperties DEF ProofType
  <2>. QED  BY <2>1 DEF ProofGenerator
<1>. QED  BY <1>2, <1>3, <1>4, <1>5 DEF WitnessFirst, Witnessed, Exists

\* and what StoreProof writes is the file of a job that got that far.
LEMMA StoredProofStep ==
    ASSUME ProofInv, [Next]_vars
    PROVE  StoredProofIsOwn'
<1>0. FilesOwn /\ WitnessFirst /\ StoredProofIsOwn /\ RowsWritten
  BY StepWrites DEF ProofInv, JobInv
<1>. SUFFICES ASSUME NEW u \in Uuids, proofs'[u].proof # None
              PROVE  /\ proofs'[u].proof = proofs'[u].owner
                     /\ proofs'[u].witness_generated_at
  BY DEF StoredProofIsOwn
<1>1. RowWritten(u)
  BY <1>0 DEF RowsWritten
<1>2. ASSUME NEW c \in Calls, task[c].pc = "store", task[c].uuid = u
      PROVE  proofs[u].witness_generated_at
  BY <1>0, <1>2 DEF WitnessFirst, Late, Witnessed
<1>3. ASSUME proofs'[u].proof = tmp[u].proof  PROVE proofs'[u].proof = proofs[u].owner
  BY <1>0, <1>3 DEF FilesOwn, Files
<1>. QED  BY <1>0, <1>1, <1>2, <1>3 DEF RowWritten, StoredProofIsOwn

\* In every reachable state of the whole server, a stored proof is about the
\* inputs of the request its row was created for, and its row went through
\* WitnessGenerated: no race, reuse of a uuid, fault or restart can make
\* update_proof read what another request left in ./tmp_<uuid>.
THEOREM StoredProofIsOwnCorrect == Spec => []StoredProofIsOwn
<1>1. Init => ProofInv
  <2>1. Init => JobInv
    <3>1. Init => JobsOwnRows
      BY DEF Init, RpcInit, ChannelsInit, PipelineInit, IdleCall, NoTask, JobsOwnRows, At
    <3>. QED  BY <3>1, InitType DEF JobInv
  <2>2. Init => FilesOwn
    BY DEF Init, PipelineInit, NoFolder, FilesOwn, Files
  <2>3. Init => WitnessFirst
    BY DEF Init, RpcInit, ChannelsInit, PipelineInit, NoTask, WitnessFirst, Late
  <2>4. Init => StoredProofIsOwn
    BY DEF Init, RpcInit, TableInit, NoRow, StoredProofIsOwn
  <2>. QED  BY <2>1, <2>2, <2>3, <2>4 DEF ProofInv
<1>2. ProofInv /\ [Next]_vars => ProofInv'
  <2>1. ProofInv /\ [Next]_vars => JobInv'
    BY StepType, JobsOwnRowsStep DEF ProofInv, JobInv, StepKept
  <2>. QED  BY <2>1, FilesOwnStep, WitnessFirstStep, StoredProofStep DEF ProofInv
<1>3. ProofInv => StoredProofIsOwn
  BY DEF ProofInv
<1>. QED  BY <1>1, <1>2, <1>3, PTL DEF Spec
=============================================================================
