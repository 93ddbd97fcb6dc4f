------------------------------ MODULE TeeServer ------------------------------
(***************************************************************************)
(* The whole server, src/main.rs: the RPC handlers and the pipeline share  *)
(* the file channel, the proofs table and the process, which may die and   *)
(* be started again with nothing but the table, and maybe the temporary    *)
(* folders, left.                                                          *)
(***************************************************************************)
EXTENDS RpcServer, Pipeline, Startup

handlerVars == <<calls, ecdh_store>>

vars == <<handlerVars, proofs, notified, fileCh, witnessCh, proofCh, pipelineVars, startupVars>>

Init == RpcInit /\ PipelineInit /\ StartupInit

TypeOK == RpcTypeOK /\ PipelineTypeOK /\ StartupTypeOK

Client(c) ==
    Serving /\ ClientStep(c) /\ UNCHANGED <<witnessCh, proofCh, pipelineVars, startupVars>>
Handler(c) == HandlerStep(c) /\ UNCHANGED <<witnessCh, proofCh, pipelineVars, startupVars>>

\* The loops start, and with them the tasks, once main has reached its select!.
Loops(A) == phase = "running" /\ A /\ UNCHANGED <<handlerVars, startupVars>>
Pipe == Loops(PipelineStep)

\* main on its way to the loops, and the folder it reads.
Main(A) ==
    A /\ UNCHANGED <<handlerVars, proofs, notified, fileCh, witnessCh, proofCh, pipelineVars>>
Starting == Main(Connect) \/ Main(Serve) \/ Main(ProverFound)
Install == Main(ChangeFolder /\ UNCHANGED phase)

\* The process ends, and what was under way is forgotten: when main starts again
\* it neither reads the table nor looks for folders.
Exit ==
    /\ MainEnds
    /\ ecdh_store' = <<>>
    /\ fileCh' = <<>> /\ witnessCh' = <<>> /\ proofCh' = <<>>
    /\ calls' = [c \in Calls |-> IF calls[c].pc \in Awaits
                                 THEN [calls[c] EXCEPT !.pc = "dropped"] ELSE calls[c]]
    /\ task' = [c \in Calls |-> IF task[c].pc \in Working
                                THEN [task[c] EXCEPT !.pc = "lost"] ELSE task[c]]
    /\ writes' = {} /\ prover' = None
    /\ tmp' \in {tmp, [u \in Uuids |-> NoFolder]}
    /\ UNCHANGED <<proofs, notified>>

\* Every call was made and answered, every job has stopped.
Quiet ==
    /\ \A c \in Calls : calls[c].pc \in {"replied", "dropped"} /\ task[c].pc \in Stopped
    /\ fileCh = <<>> /\ writes = {}
    /\ UNCHANGED vars

Next ==
    \/ \E c \in Calls : Client(c) \/ Handler(c)
    \/ Pipe
    \/ Starting
    \/ Install
    \/ Exit
    \/ Quiet

Spec == Init /\ [][Next]_vars

\* The runtime polls what can go on; programs terminate; whoever runs the server
\* starts it; clients may be silent.
Fairness ==
    /\ WF_vars(Starting)
    /\ \A c \in Calls : WF_vars(Handler(c))
    /\ WF_vars(Loops(FileLoop)) /\ WF_vars(Loops(WitnessLoop)) /\ WF_vars(Loops(ProofLoop))
    /\ \A c \in Calls : WF_vars(Loops(TaskStep(c) \/ RunProver(c)))
    /\ \A c \in Calls : WF_vars(Loops(FlushInputs(c)))

FairSpec == Spec /\ Fairness

----------------------------------------------------------------------------
(* Properties *)

InPipeline(c) == InFileChannel(c) \/ ~Doing(c, "none")

\* Two jobs of one uuid never meet in the pipeline, whatever submissions race
\* and however often a uuid is used again: they would share ./tmp_<uuid>.
OneJobPerUuid ==
    \A c, d \in Calls : InPipeline(c) /\ InPipeline(d) /\ calls[c].uuid = calls[d].uuid
        => c = d

OwnsRow(c, u) == Exists(u) /\ proofs[u].owner = c /\ calls[c].uuid = u

\* Whatever carries a job - the handler about to queue it, a message of a
\* channel, a task - belongs to the very call that created the row of its uuid.
JobsOwnRows ==
    /\ \A c \in Calls : At(c, "send") => OwnsRow(c, calls[c].uuid)
    /\ \A i \in DOMAIN fileCh : OwnsRow(fileCh[i].id, fileCh[i].uuid)
    /\ \A i \in DOMAIN witnessCh : OwnsRow(witnessCh[i].id, witnessCh[i].uuid)
    /\ \A i \in DOMAIN proofCh : OwnsRow(proofCh[i].id, proofCh[i].uuid)
    /\ \A c \in Calls : task[c].pc # "none" => OwnsRow(c, task[c].uuid)

\* Nobody's work is forgotten: behind a request that is not settled there is
\* a handler that is about to queue it, a message, or a task at work on it.
PendingIsQueued ==
    \A u \in Uuids : proofs[u].status \in {Pending, WitnessGenerated} =>
        LET c == proofs[u].owner
        IN  At(c, "send") \/ InFileChannel(c) \/ task[c].pc \in Working

\* The unwrap of the zkey in main.rs never panics: a job's circuit is in the
\* map, since submit_request checked it before it queued the job.
NoTaskPanics == \A c \in Calls : ~Doing(c, "panicked")

\* The client learns that its request was accepted only after it was queued.
AcceptedMeansQueued == \A c \in Calls : Answered(c, "accepted") => InPipeline(c)

\* Every accepted request ends with a stored proof or a stored reason.
AcceptedSettles ==
    \A c \in Calls, u \in Uuids : Answered(c, "accepted") /\ calls[c].uuid = u ~>
        proofs[u].status \in {ProofGenererated, Failed}

\* The table, seen through its status column and its notifications, behaves
\* as ProofLifecycle promises, crashes and lost answers included.
Lifecycle == INSTANCE ProofLifecycle WITH
    Requests <- Uuids, status <- [u \in Uuids |-> proofs[u].status], told <- notified

StatusOnlyAdvances == Lifecycle!LifecycleSpec
=============================================================================
