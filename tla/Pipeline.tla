------------------------------ MODULE Pipeline ------------------------------
(***************************************************************************)
(* The three-stage pipeline: the receive loops of src/main.rs, the         *)
(* generators of src/generator and cleanup of src/utils.rs.  The file and  *)
(* witness loops spawn a task per message; the proof loop runs each proof  *)
(* itself, one after the other.                                            *)
(***************************************************************************)
EXTENDS ProofsTable, Channels

VARIABLES
    task,     \* call -> the task or loop iteration at work on its job
    tmp,      \* uuid -> the folder ./tmp_<uuid>
    writes,   \* jobs whose input.json tokio is still writing in the background
    prover    \* the job the proof loop is busy with

pipelineVars == <<task, tmp, writes, prover>>

\* What the job does next.  "witness_queued" and "proof_queued": the task of
\* one stage has ended and the message for the next stage is in its channel.
Working == {"file", "send_witness", "witness_queued", "witness", "record",
            "send_proof", "proof_queued", "prove", "store", "fail", "rm"}

\* "lost": the process died.
Stopped == {"none", "ended", "panicked", "lost"}

\* zkey: the path handed to the prover; reason: why the job failed, if it did,
\* and whether the table can store it.
Task == [pc : Working \cup Stopped, uuid : Uuids \cup {None}, circuit : STRING \cup {None},
         inputs : {"small", "large"}, zkey : Path \cup {None},
         reason : {"none", "storable", "unstorable"}]

NoTask == [pc |-> "none", uuid |-> None, circuit |-> None, inputs |-> "small",
           zkey |-> None, reason |-> "none"]

\* The files of the folder by the job whose inputs they stem from; "whole"
\* tells whether input.json has all of its contents.
Folder == [dir : BOOLEAN, input : Calls \cup {None}, whole : BOOLEAN,
           wtns : Calls \cup {None}, proof : Calls \cup {None}]

NoFolder == [dir |-> FALSE, input |-> None, whole |-> FALSE, wtns |-> None, proof |-> None]

PipelineInit ==
    /\ task = [c \in Calls |-> NoTask]
    /\ tmp = [u \in Uuids |-> NoFolder]
    /\ writes = {}
    /\ prover = None

\* Every variable has its type, and a job that was taken up has a uuid.
PipelineTypeOK ==
    /\ ChannelsTypeOK
    /\ task \in [Calls -> Task]
    /\ tmp \in [Uuids -> Folder]
    /\ writes \subseteq Calls
    /\ prover \in Calls \cup {None}
    /\ \A c \in Calls : task[c].pc # "none" => task[c].uuid \in Uuids
    /\ \A c \in writes : task[c].pc # "none"

Doing(c, pc) == task[c].pc = pc
Continue(c, pc) == task' = [task EXCEPT ![c].pc = pc]

\* Mutant: an error only removes the folder.
FailQuietly(c, reason) == task' = [task EXCEPT ![c].pc = "rm", ![c].reason = reason]

\* Every error of a stage ends in cleanup: fail_proof, then remove_dir_all.
Fail(c, reason) == task' = [task EXCEPT ![c].pc = "fail", ![c].reason = reason]

\* The job goes on with pc, or fails when the statement did.
Proceed(c, ok, pc) == IF ok THEN Continue(c, pc) ELSE Fail(c, "storable")

----------------------------------------------------------------------------
(* Stage 1: FileGenerator *)

FileLoop ==
    /\ fileCh # <<>>
    /\ LET m == Head(fileCh)
       IN  task' = [task EXCEPT ![m.id] = [pc |-> "file", uuid |-> m.uuid,
                       circuit |-> m.circuit, inputs |-> m.inputs, zkey |-> None,
                       reason |-> "none"]]
    /\ fileCh' = Tail(fileCh)
    /\ UNCHANGED <<witnessCh, proofCh, tmp, writes, prover, proofs, notified>>

\* FileGenerator::run: create the folder and input.json, and hand the inputs to
\* write, which returns while tokio writes them in the background.  The folder
\* may be there although the file cannot be created.
WriteInputs(c) ==
    LET u == task[c].uuid
    IN  /\ Doing(c, "file")
        /\ \/ /\ tmp' = [tmp EXCEPT ![u].dir = TRUE, ![u].input = c, ![u].whole = FALSE]
              /\ writes' = writes \cup {c}
              /\ Continue(c, "send_witness")
           \/ /\ "io" \in Faults
              /\ \E made \in BOOLEAN : tmp' = [tmp EXCEPT ![u].dir = @ \/ made]
              /\ Fail(c, "storable")
              /\ UNCHANGED writes
        /\ UNCHANGED <<fileCh, witnessCh, proofCh, prover, proofs, notified>>

FitsBuffer(inputs) == inputs = "small"

\* The background write ends.  write takes at most one buffer, and an error of
\* the background write is reported to nobody.
FlushInputs(c) ==
    /\ c \in writes
    /\ writes' = writes \ {c}
    /\ \E done \in BOOLEAN :
          LET u == task[c].uuid
              whole == done /\ FitsBuffer(task[c].inputs) /\ tmp[u].input = c
          IN  /\ done \/ "io" \in Faults
              /\ tmp' = [tmp EXCEPT ![u].whole = @ \/ whole]
    /\ UNCHANGED <<fileCh, witnessCh, proofCh, task, prover, proofs, notified>>

SendWitness(c) ==
    /\ Doing(c, "send_witness")
    /\ HasPermit(witnessCh)
    /\ witnessCh' = Append(witnessCh, [id |-> c, uuid |-> task[c].uuid,
                                       circuit |-> task[c].circuit])
    /\ Continue(c, "witness_queued")
    /\ UNCHANGED <<fileCh, proofCh, tmp, writes, prover, proofs, notified>>

----------------------------------------------------------------------------
(* Stage 2: WitnessGenerator *)

WitnessLoop ==
    /\ witnessCh # <<>>
    /\ LET m == Head(witnessCh)
       IN  task' = [task EXCEPT ![m.id].pc = "witness", ![m.id].uuid = m.uuid,
                                ![m.id].circuit = m.circuit]
    /\ witnessCh' = Tail(witnessCh)
    /\ UNCHANGED <<fileCh, proofCh, tmp, writes, prover, proofs, notified>>

\* How a program run by chmod / the circuit / rapidsnark can fail: the set of
\* the reasons its stderr can give.
FailureReasons == (IF Faults \cap {"program", "garbled"} # {} THEN {"storable"} ELSE {})
                  \cup (IF "unstorable" \in Faults THEN {"unstorable"} ELSE {})

\* The lookup of the zkey, whose unwrap panics when the circuit is not in the map.
TakeZkey(c) ==
    IF task[c].circuit \in DOMAIN circuit_zkey_map
    THEN task' = [task EXCEPT ![c].pc = "record", ![c].zkey = zkey_file_path(task[c].circuit)]
    ELSE Continue(c, "panicked")

\* WitnessGenerator::run, and then the lookup of the zkey.  The binary refuses
\* input that is not whole.  It may exit well and yet have written nothing.
RunWitness(c) ==
    LET u == task[c].uuid
        found == HasBinary(task[c].circuit)
    IN  /\ Doing(c, "witness")
        /\ \/ /\ found /\ tmp[u].whole
              /\ \E out \in {tmp[u].input} \cup (IF "program" \in Faults THEN {None} ELSE {}) :
                    tmp' = [tmp EXCEPT ![u].wtns = out]
              /\ TakeZkey(c)
           \/ /\ found
              /\ \E reason \in FailureReasons : Fail(c, reason)
              /\ UNCHANGED tmp
           \/ /\ ~found \/ ~tmp[u].whole
              /\ Fail(c, "storable")
              /\ UNCHANGED tmp
           \/ /\ found /\ "garbled" \in Faults   \* from_utf8(stderr).unwrap()
              /\ Continue(c, "panicked")
              /\ UNCHANGED tmp
        /\ UNCHANGED <<fileCh, witnessCh, proofCh, writes, prover, proofs, notified>>

\* Mutant: a permit of the proof channel is reserved before the table is written.
RecordWitnessReserving(c) ==
    /\ Doing(c, "record") /\ HasPermit(proofCh)
    /\ \E ok \in BOOLEAN : set_witness_generated(task[c].uuid, ok) /\ Proceed(c, ok, "send_proof")
    /\ UNCHANGED <<fileCh, witnessCh, proofCh, tmp, writes, prover>>

RecordWitness(c) ==
    /\ Doing(c, "record")
    /\ \E ok \in BOOLEAN : set_witness_generated(task[c].uuid, ok) /\ Proceed(c, ok, "send_proof")
    /\ UNCHANGED <<fileCh, witnessCh, proofCh, tmp, writes, prover>>

SendProof(c) ==
    /\ Doing(c, "send_proof")
    /\ HasPermit(proofCh)
    /\ proofCh' = Append(proofCh, [id |-> c, uuid |-> task[c].uuid, zkey |-> task[c].zkey])
    /\ Continue(c, "proof_queued")
    /\ UNCHANGED <<fileCh, witnessCh, tmp, writes, prover, proofs, notified>>

----------------------------------------------------------------------------
(* Stage 3: ProofGenerator *)

ProofLoop ==
    /\ prover = None
    /\ proofCh # <<>>
    /\ LET m == Head(proofCh)
       IN  /\ prover' = m.id
           /\ task' = [task EXCEPT ![m.id].pc = "prove", ![m.id].uuid = m.uuid,
                                    ![m.id].zkey = m.zkey]
    /\ proofCh' = Tail(proofCh)
    /\ UNCHANGED <<fileCh, witnessCh, tmp, writes, proofs, notified>>

\* ProofGenerator::run.  The prover refuses a zkey that does not exist.  Garbled
\* stderr becomes the reason "Proof failed".
RunProver(c) ==
    LET u == task[c].uuid
        ready == tmp[u].wtns # None /\ FileExists(task[c].zkey)
    IN  /\ Doing(c, "prove")
        /\ \/ /\ ready
              /\ \E out \in {tmp[u].wtns} \cup (IF "program" \in Faults THEN {None} ELSE {}) :
                    tmp' = [tmp EXCEPT ![u].proof = out]
              /\ Continue(c, "store")
           \/ /\ ready
              /\ \E reason \in FailureReasons : Fail(c, reason)
              /\ UNCHANGED tmp
           \/ /\ ~ready
              /\ Fail(c, "storable")
              /\ UNCHANGED tmp
        /\ UNCHANGED <<fileCh, witnessCh, proofCh, writes, prover, proofs, notified>>

StoreProof(c) ==
    LET u == task[c].uuid
    IN  /\ Doing(c, "store")
        /\ \E ok \in BOOLEAN : update_proof(u, tmp[u].proof, ok) /\ Proceed(c, ok, "rm")
        /\ UNCHANGED <<fileCh, witnessCh, proofCh, tmp, writes, prover>>

----------------------------------------------------------------------------
(* The end of a job *)

\* Mutant: an error of fail_proof ends cleanup early.
FailProofEarlyReturn(c) ==
    /\ Doing(c, "fail")
    /\ \E ok \in BOOLEAN : /\ fail_proof(task[c].uuid, task[c].reason = "storable", ok)
                          /\ Continue(c, IF ok THEN "rm" ELSE "ended")
    /\ UNCHANGED <<fileCh, witnessCh, proofCh, tmp, writes, prover>>

\* First half of cleanup.  The result of fail_proof is ignored.
FailProof(c) ==
    /\ Doing(c, "fail")
    /\ \E ok \in BOOLEAN : fail_proof(task[c].uuid, task[c].reason = "storable", ok)
    /\ Continue(c, "rm")
    /\ UNCHANGED <<fileCh, witnessCh, proofCh, tmp, writes, prover>>

\* Mutants: the proof loop does not go on to its next message; an error of
\* remove_dir_all is treated like any other.
RemoveTmpFolderStuck(c) ==
    /\ Doing(c, "rm")
    /\ tmp' = [tmp EXCEPT ![task[c].uuid] = NoFolder]
    /\ Continue(c, "ended")
    /\ UNCHANGED <<fileCh, witnessCh, proofCh, writes, prover, proofs, notified>>
RemoveTmpFolderChecked(c) ==
    /\ Doing(c, "rm")
    /\ "rm" \in Faults
    /\ Fail(c, "storable")
    /\ UNCHANGED <<fileCh, witnessCh, proofCh, tmp, writes, prover, proofs, notified>>

\* remove_dir_all, in cleanup and after a stored proof; its result is ignored.
\* The proof loop then takes its next message.
RemoveTmpFolder(c) ==
    /\ Doing(c, "rm")
    /\ \/ tmp' = [tmp EXCEPT ![task[c].uuid] = NoFolder]
       \/ "rm" \in Faults /\ UNCHANGED tmp
    /\ Continue(c, "ended")
    /\ prover' = IF prover = c THEN None ELSE prover
    /\ UNCHANGED <<fileCh, witnessCh, proofCh, writes, proofs, notified>>

----------------------------------------------------------------------------
LoopStep == FileLoop \/ WitnessLoop \/ ProofLoop

TaskStep(c) ==
    \/ WriteInputs(c)
    \/ SendWitness(c)
    \/ RunWitness(c)
    \/ RecordWitness(c)
    \/ SendProof(c)
    \/ StoreProof(c)
    \/ FailProof(c)
    \/ RemoveTmpFolder(c)

PipelineStep == LoopStep \/ \E c \in Calls : TaskStep(c) \/ FlushInputs(c) \/ RunProver(c)

----------------------------------------------------------------------------
InFileChannel(c) == \E i \in DOMAIN fileCh : fileCh[i].id = c

----------------------------------------------------------------------------
(* Properties *)

\* A stored proof is about the inputs of the request the row was created for,
\* and its row went through WitnessGenerated.
StoredProofIsOwn ==
    \A u \in Uuids : proofs[u].proof # None =>
        proofs[u].proof = proofs[u].owner /\ proofs[u].witness_generated_at

\* The client's inputs are on disk only while the pipeline works on the job.
TmpOnlyWhileWorking ==
    \A u \in Uuids : tmp[u].dir =>
        \E c \in Calls : task[c].uuid = u /\ task[c].pc \in Working

\* A job that ended in an error is marked Failed with its reason.
FailureRecorded ==
    \A c \in Calls : Doing(c, "ended") /\ task[c].reason # "none" =>
        proofs[task[c].uuid].status = Failed /\ proofs[task[c].uuid].reason

\* The witness binary is started on a complete input.json.
InputsWhole ==
    \A c \in Calls : Doing(c, "witness") => tmp[task[c].uuid].whole

\* The prover is given a zkey that exists: what start-up verified, and the
\* handler relied on, is still true of the path two stages later.
ZkeyGiven ==
    \A c \in Calls : Doing(c, "prove") => FileExists(task[c].zkey)

\* Once a proof is stored, its row does not change any more.
ProofIsFinal ==
    [][\A u \in Uuids : proofs[u].status = ProofGenererated => proofs'[u] = proofs[u]]_proofs

\* Every job that reaches the pipeline comes to an end.
JobsStop ==
    \A c \in Calls : InFileChannel(c) ~> task[c].pc \in Stopped \ {"none"}

\* A prover that never returns does not keep other requests from getting
\* their witness: full channels block tasks, not the loops.
WitnessDespiteProver ==
    \A u \in Uuids : Exists(u) ~> proofs[u].status # Pending
=============================================================================
