--------------------------- MODULE PipelineAlone ---------------------------
(***************************************************************************)
(* The pipeline on its own: its jobs come from submit_request, which       *)
(* creates the row and queues the job.                                     *)
(***************************************************************************)
EXTENDS Pipeline

CONSTANT Jobs   \* the messages submit_request may queue

ASSUME JobsAssumption == Jobs \subseteq FileGenerator

allPipelineVars == <<fileCh, witnessCh, proofCh, task, tmp, writes, prover, proofs, notified,
                     circuit_folder, circuit_zkey_map>>

Accept(m) ==
    /\ Doing(m.id, "none") /\ ~InFileChannel(m.id)
    /\ m.circuit \in DOMAIN circuit_zkey_map
    /\ HasPermit(fileCh)
    /\ create_proof_status(m.uuid, m.id, [proof_type |-> 0, version |-> 1, endpoint |-> FALSE],
                           TRUE, TRUE)
    /\ fileCh' = Append(fileCh, m)
    /\ UNCHANGED <<witnessCh, proofCh, task, tmp, writes, prover>>

\* Every job has come and stopped.
PipelineQuiet ==
    /\ \A c \in Calls : task[c].pc \in Stopped
    /\ fileCh = <<>> /\ writes = {}
    /\ UNCHANGED allPipelineVars

Alone(A) == A /\ UNCHANGED <<circuit_folder, circuit_zkey_map>>

PipelineNext ==
    \/ Alone(\E m \in Jobs : Accept(m))
    \/ Alone(PipelineStep)
    \/ Alone(PipelineQuiet)

\* The runtime polls every loop and every task that can go on, and witness
\* binaries terminate.
StageFairness ==
    /\ WF_allPipelineVars(Alone(FileLoop))
    /\ WF_allPipelineVars(Alone(WitnessLoop))
    /\ WF_allPipelineVars(Alone(ProofLoop))
    /\ \A c \in Calls : /\ WF_allPipelineVars(Alone(FlushInputs(c)))
                        /\ WF_allPipelineVars(Alone(TaskStep(c)))

\* ... and so does the prover.
ProverFairness == \A c \in Calls : WF_allPipelineVars(Alone(RunProver(c)))

AloneInit == TableInit /\ ChannelsInit /\ PipelineInit /\ ScannedInit

PipelineSafety == AloneInit /\ [][PipelineNext]_allPipelineVars

StuckProverSpec == PipelineSafety /\ StageFairness
PipelineSpec == PipelineSafety /\ StageFairness /\ ProverFairness
=============================================================================
