----------------------------- MODULE ZkeyProofs -----------------------------
(***************************************************************************)
(* What main verified about the circuits when it started is still true     *)
(* when a job is at the witness generator and at the prover, for any       *)
(* number of calls, circuits, faults and restarts.                         *)
(***************************************************************************)
EXTENDS StepLemmas

----------------------------------------------------------------------------
(* Messages and tasks by their circuits and zkeys *)

\* A message carries the circuit of the request or job that sent it, or the zkey.
LEMMA ContentsStem ==
    ASSUME TypeOK, [Next]_vars
    PROVE  /\ \A i \in DOMAIN fileCh' :
                 \/ \E j \in DOMAIN fileCh : fileCh'[i] = fileCh[j]
                 \/ \E c \in Calls : /\ calls[c].pc = "send"
                                     /\ fileCh'[i].circuit = calls[c].body.circuit
           /\ \A i \in DOMAIN witnessCh' :
                 \/ \E j \in DOMAIN witnessCh : witnessCh'[i] = witnessCh[j]
                 \/ \E c \in Calls : /\ task[c].pc = "send_witness"
                                     /\ witnessCh'[i].circuit = task[c].circuit
           /\ \A i \in DOMAIN proofCh' :
                 \/ \E j \in DOMAIN proofCh : proofCh'[i] = proofCh[j]
                 \/ \E c \in Calls : task[c].pc = "send_proof" /\ proofCh'[i].zkey = task[c].zkey
<1>. USE TypeParts DEF TypePart
<1>0. /\ Steps /\ CallsType /\ TasksType
      /\ fileCh \in Seq(FileGenerator) /\ witnessCh \in Seq(WitnessGenerator)
      /\ proofCh \in Seq(ProofGenerator)
  BY StepMoves DEF FileType, WitnessType, ProofType
<1>1. \/ UNCHANGED fileCh \/ fileCh' = <<>> \/ (fileCh # <<>> /\ fileCh' = Tail(fileCh))
      \/ \E c \in Calls : /\ calls[c].pc = "send" /\ HasPermit(fileCh)
                          /\ fileCh' = Append(fileCh, [id |-> c, uuid |-> calls[c].uuid,
                                                       circuit |-> calls[c].body.circuit,
                                                       inputs |-> calls[c].body.inputs])
  BY <1>0 DEF Steps, CallMoves, Turns, At, LoopMoves, JobMoves, ExitMoves, serverVars
<1>2. \/ UNCHANGED witnessCh \/ witnessCh' = <<>>
      \/ (witnessCh # <<>> /\ witnessCh' = Tail(witnessCh))
      \/ \E c \in Calls : /\ task[c].pc = "send_witness" /\ HasPermit(witnessCh)
                          /\ witnessCh' = Append(witnessCh, [id |-> c, uuid |-> task[c].uuid,
                                                             circuit |-> task[c].circuit])
  BY <1>0 DEF Steps, LoopMoves, JobMoves, Move, ExitMoves, serverVars, otherVars
<1>3. \/ UNCHANGED proofCh \/ proofCh' = <<>> \/ (proofCh # <<>> /\ proofCh' = Tail(proofCh))
      \/ \E c \in Calls : /\ task[c].pc = "send_proof" /\ HasPermit(proofCh)
                          /\ proofCh' = Append(proofCh, [id |-> c, uuid |-> task[c].uuid,
                                                         zkey |-> task[c].zkey])
  BY <1>0 DEF Steps, LoopMoves, JobMoves, Move, ExitMoves, serverVars, otherVars
<1>4. ASSUME NEW c \in Calls, calls[c].pc = "send", HasPermit(fileCh),
             fileCh' = Append(fileCh, [id |-> c, uuid |-> calls[c].uuid,
                                       circuit |-> calls[c].body.circuit,
                                       inputs |-> calls[c].body.inputs]),
             NEW i \in DOMAIN fileCh'
      PROVE  \/ \E j \in DOMAIN fileCh : fileCh'[i] = fileCh[j]
             \/ fileCh'[i].circuit = calls[c].body.circuit
  <2>. DEFINE m == [id |-> c, uuid |-> calls[c].uuid, circuit |-> calls[c].body.circuit,
                    inputs |-> calls[c].body.inputs]
  <2>1. m \in FileGenerator /\ m.circuit = calls[c].body.circuit
    BY <1>0, <1>4, BodiesAssumption DEF CallsType, Awaits, SubmitAwaits, Body, FileGenerator
  <2>2. fileCh' = Append(fileCh, m)
    BY <1>4
  <2>. HIDE DEF m
  <2>3. fileCh'[i] = m \/ \E j \in DOMAIN fileCh : fileCh'[i] = fileCh[j]
    BY <1>0, <1>4, <2>1, <2>2, SendType
  <2>. QED  BY <2>1, <2>3
<1>5. ASSUME NEW c \in Calls, task[c].pc = "send_witness", HasPermit(witnessCh),
             witnessCh' = Append(witnessCh, [id |-> c, uuid |-> task[c].uuid,
                                             circuit |-> task[c].circuit]),
             NEW i \in DOMAIN witnessCh'
      PROVE  \/ \E j \in DOMAIN witnessCh : witnessCh'[i] = witnessCh[j]
             \/ witnessCh'[i].circuit = task[c].circuit
  <2>. DEFINE m == [id |-> c, uuid |-> task[c].uuid, circuit |-> task[c].circuit]
  <2>1. m \in WitnessGenerator /\ m.circuit = task[c].circuit
    BY <1>0, <1>5 DEF TasksType, Task, WitnessGenerator
  <2>2. witnessCh' = Append(witnessCh, m)
    BY <1>5
  <2>. HIDE DEF m
  <2>3. witnessCh'[i] = m \/ \E j \in DOMAIN witnessCh : witnessCh'[i] = witnessCh[j]
    BY <1>0, <1>5, <2>1, <2>2, SendType
  <2>. QED  BY <2>1, <2>3
<1>6. ASSUME NEW c \in Calls, task[c].pc = "send_proof", HasPermit(proofCh),
             proofCh' = Append(proofCh, [id |-> c, uuid |-> task[c].uuid, zkey |-> task[c].zkey]),
             NEW i \in DOMAIN proofCh'
      PROVE  \/ \E j \in DOMAIN proofCh : proofCh'[i] = proofCh[j]
             \/ proofCh'[i].zkey = task[c].zkey
  <2>. DEFINE m == [id |-> c, uuid |-> task[c].uuid, zkey |-> task[c].zkey]
  <2>1. m \in ProofGenerator /\ m.zkey = task[c].zkey
    BY <1>0, <1>6 DEF TasksType, Task, ProofGenerator
  <2>2. proofCh' = Append(proofCh, m)
    BY <1>6
  <2>. HIDE DEF m
  <2>3. proofCh'[i] = m \/ \E j \in DOMAIN proofCh : proofCh'[i] = proofCh[j]
    BY <1>0, <1>6, <2>1, <2>2, SendType
  <2>. QED  BY <2>1, <2>3
<1>7. \A i \in DOMAIN fileCh' :
         \/ \E j \in DOMAIN fileCh : fileCh'[i] = fileCh[j]
         \/ \E c \in Calls : calls[c].pc = "send" /\ fileCh'[i].circuit = calls[c].body.circuit
  <2>1. TAKE i \in DOMAIN fileCh'
  <2>2. CASE UNCHANGED fileCh
    BY <2>2
  <2>3. CASE fileCh' = <<>>
    BY <2>3
  <2>4. CASE fileCh # <<>> /\ fileCh' = Tail(fileCh)
    BY <2>4, ReceiveType DEF FileType
  <2>. QED  BY <1>1, <1>4, <2>2, <2>3, <2>4
<1>8. \A i \in DOMAIN witnessCh' :
         \/ \E j \in DOMAIN witnessCh : witnessCh'[i] = witnessCh[j]
         \/ \E c \in Calls : task[c].pc = "send_witness" /\ witnessCh'[i].circuit = task[c].circuit
  <2>1. TAKE i \in DOMAIN witnessCh'
  <2>2. CASE UNCHANGED witnessCh
    BY <2>2
  <2>3. CASE witnessCh' = <<>>
    BY <2>3
  <2>4. CASE witnessCh # <<>> /\ witnessCh' = Tail(witnessCh)
    BY <2>4, ReceiveType DEF WitnessType
  <2>. QED  BY <1>2, <1>5, <2>2, <2>3, <2>4
<1>9. \A i \in DOMAIN proofCh' :
         \/ \E j \in DOMAIN proofCh : proofCh'[i] = proofCh[j]
         \/ \E c \in Calls : task[c].pc = "send_proof" /\ proofCh'[i].zkey = task[c].zkey
  <2>1. TAKE i \in DOMAIN proofCh'
  <2>2. CASE UNCHANGED proofCh
    BY <2>2
  <2>3. CASE proofCh' = <<>>
    BY <2>3
  <2>4. CASE proofCh # <<>> /\ proofCh' = Tail(proofCh)
    BY <2>4, ReceiveType DEF ProofType
  <2>. QED  BY <1>3, <1>6, <2>2, <2>3, <2>4
<1>. QED  BY <1>7, <1>8, <1>9

\* Where a task at work before RunWitness has its circuit from.
Generating == {"file", "send_witness", "witness_queued", "witness"}

\* The circuit of a job comes from its message.
LEMMA CircuitStem ==
    ASSUME TypeOK, [Next]_vars, NEW c \in Calls, task'[c].pc \in Generating
    PROVE  \/ task[c].pc \in Generating /\ task'[c].circuit = task[c].circuit
           \/ \E i \in DOMAIN fileCh : task'[c].circuit = fileCh[i].circuit
           \/ \E i \in DOMAIN witnessCh : task'[c].circuit = witnessCh[i].circuit
<1>. USE TypeParts DEF TypePart
<1>0. Steps
  BY StepMoves
<1>1. ASSUME NEW d \in Calls, JobMoves(d)
      PROVE  task[c].pc \in Generating /\ task'[c].circuit = task[c].circuit
  BY <1>1 DEF JobMoves, JobFields, Move, Generating
<1>2. CASE LoopMoves
  <2>1. /\ fileCh # <<>> => 1 \in DOMAIN fileCh
        /\ witnessCh # <<>> => 1 \in DOMAIN witnessCh
    BY ReceiveType DEF FileType, WitnessType
  <2>. QED  BY <1>2, <2>1 DEF LoopMoves, TakenUp, Generating
<1>3. CASE UNCHANGED task
  BY <1>3
<1>4. CASE ExitMoves
  BY <1>4 DEF ExitMoves, Working, Generating
<1>. QED  BY <1>0, <1>1, <1>2, <1>3, <1>4 DEF Steps, otherVars, serverVars

\* Where a job that has a zkey has it from.
Keyed == {"record", "send_proof", "proof_queued", "prove"}

\* The zkey of a job comes from the map or from its message.
LEMMA ZkeyStem ==
    ASSUME TypeOK, [Next]_vars, NEW c \in Calls, task'[c].pc \in Keyed
    PROVE  \/ task[c].pc \in Keyed /\ task'[c].zkey = task[c].zkey
           \/ /\ task[c].circuit \in DOMAIN circuit_zkey_map
              /\ task'[c].zkey = zkey_file_path(task[c].circuit)
           \/ \E i \in DOMAIN proofCh : task'[c].zkey = proofCh[i].zkey
<1>. USE TypeParts DEF TypePart
<1>0. Steps
  BY StepMoves
<1>1. ASSUME NEW d \in Calls, JobMoves(d)
      PROVE  \/ task[c].pc \in Keyed /\ task'[c].zkey = task[c].zkey
             \/ /\ task[c].circuit \in DOMAIN circuit_zkey_map
                /\ task'[c].zkey = zkey_file_path(task[c].circuit)
  BY <1>1 DEF JobMoves, JobFields, Move, Keyed
<1>2. CASE LoopMoves
  <2>1. proofCh # <<>> => 1 \in DOMAIN proofCh
    BY ReceiveType DEF ProofType
  <2>. QED  BY <1>2, <2>1 DEF LoopMoves, TakenUp, Keyed
<1>3. CASE UNCHANGED task
  BY <1>3
<1>4. CASE ExitMoves
  BY <1>4 DEF ExitMoves, Working, Keyed
<1>. QED  BY <1>0, <1>1, <1>2, <1>3, <1>4 DEF Steps, otherVars, serverVars

----------------------------------------------------------------------------
(* The map while jobs are under way *)

\* The map holds the paths whose files were found when the folder was read.
MapVerified ==
    \A n \in DOMAIN circuit_zkey_map :
        circuit_zkey_map[n] = ZkeyPath(n) /\ FileExists(ZkeyPath(n))

\* No handler is at work and nothing is queued before the map is there, and no
\* task is at work before the loops run.
StartedFirst ==
    /\ phase \in {"exited", "scan"} =>
          fileCh = <<>> /\ \A c \in Calls : calls[c].pc \notin Awaits
    /\ phase # "running" =>
          /\ witnessCh = <<>> /\ proofCh = <<>>
          /\ \A c \in Calls : task[c].pc \notin Working

\* What a step does to the map.
LEMMA MapMoves ==
    ASSUME TypeOK, [Next]_vars
    PROVE  \/ UNCHANGED circuit_zkey_map
           \/ ExitMoves
           \/ /\ UNCHANGED serverVars /\ phase = "scan" /\ phase' = "check"
              /\ ~ScanPanics /\ ScanFolder
<1>1. Steps
  BY StepMoves
<1>. QED  BY <1>1 DEF Steps, otherVars, Connect, Serve, ProverFound, ChangeFolder

MapInv == TypeOK /\ MapVerified /\ StartedFirst

\* At first the process has not started,
LEMMA MapInvInit == Init => MapInv
BY InitType DEF Init, RpcInit, ChannelsInit, PipelineInit, StartupInit, IdleCall, NoTask, MapInv,
   MapVerified, StartedFirst, Awaits, HelloAwaits, SubmitAwaits, Working

\* and the map that main makes names files that are there.
LEMMA MapInvStep ==
    ASSUME MapInv, [Next]_vars
    PROVE  MapInv'
<1>0. TypeOK /\ TypeOK' /\ MapVerified /\ StartedFirst /\ Steps
  BY StepType, StepMoves DEF MapInv, StepKept
<1>1. MapVerified'
  <2>1. CASE UNCHANGED circuit_zkey_map
    BY <1>0, <2>1 DEF MapVerified
  <2>2. CASE circuit_zkey_map' = <<>>
    BY <2>2 DEF MapVerified
  <2>3. CASE ~ScanPanics /\ ScanFolder
    BY <2>3 DEF ScanPanics, ScanFolder, Names, MapVerified
  <2>. QED  BY <1>0, <2>1, <2>2, <2>3, MapMoves DEF ExitMoves
<1>2. StartedFirst'
  <2>1. ASSUME NEW c \in Calls, CallMoves(c), At(c, "idle") => Serving, UNCHANGED otherVars
        PROVE  StartedFirst'
    <3>1. calls[c].pc = "idle" \/ calls[c].pc \in Awaits
      BY <2>1 DEF CallMoves, Turns, At, Awaits, HelloAwaits, SubmitAwaits
    <3>2. phase \notin {"exited", "scan"}
      BY <1>0, <2>1, <3>1 DEF StartedFirst, At, Serving
    <3>. QED  BY <1>0, <2>1, <3>2 DEF StartedFirst, otherVars
  <2>2. CASE phase = "running" /\ UNCHANGED phase
    BY <2>2 DEF StartedFirst
  <2>3. CASE ExitMoves
    BY <2>3 DEF ExitMoves, Turns, StartedFirst, Awaits, HelloAwaits, SubmitAwaits, Working
  <2>4. CASE /\ UNCHANGED serverVars
             /\ \/ Connect \/ Serve \/ ProverFound \/ (ChangeFolder /\ UNCHANGED phase)
                \/ UNCHANGED <<phase, circuit_folder, circuit_zkey_map>>
    BY <1>0, <2>4 DEF Connect, Serve, ProverFound, StartedFirst, serverVars
  <2>. QED  BY <1>0, <2>1, <2>2, <2>3, <2>4 DEF Steps
<1>. QED  BY <1>0, <1>1, <1>2 DEF MapInv

----------------------------------------------------------------------------
(* The zkey *)

\* With an absolute zkey folder the path in the map is not joined again.
LEMMA AbsoluteFound ==
    ASSUME ZkeyFolder.absolute, MapVerified, NEW n \in DOMAIN circuit_zkey_map
    PROVE  FileExists(zkey_file_path(n))
<1>1. circuit_zkey_map[n] = ZkeyPath(n) /\ FileExists(ZkeyPath(n))
  BY DEF MapVerified
<1>2. ZkeyPath(n).absolute
  BY DEF ZkeyPath, Join
<1>3. zkey_file_path(n) = ZkeyPath(n)
  BY <1>1, <1>2 DEF zkey_file_path, Join
<1>. QED  BY <1>1, <1>3

\* ZkeyGiven at the stages before the prover.
ZkeyInv ==
    /\ MapInv
    /\ \A c \in Calls : task[c].pc \in Keyed => FileExists(task[c].zkey)
    /\ \A i \in DOMAIN proofCh : FileExists(proofCh[i].zkey)

\* With an absolute zkey folder, whatever is installed or removed in the circuit
\* folder and however often the server is started again, the prover is given a
\* zkey that exists.
THEOREM ZkeyGivenCorrect ==
    ASSUME ZkeyFolder.absolute
    PROVE  Spec => []ZkeyGiven
<1>1. Init => ZkeyInv
  BY MapInvInit DEF Init, RpcInit, ChannelsInit, PipelineInit, NoTask, ZkeyInv, Keyed
<1>2. ASSUME ZkeyInv, [Next]_vars PROVE ZkeyInv'
  <2>0. MapInv /\ MapInv' /\ TypeOK /\ MapVerified
    BY <1>2, MapInvStep DEF ZkeyInv, MapInv
  <2>1. ASSUME NEW c \in Calls, task'[c].pc \in Keyed PROVE FileExists(task'[c].zkey)
    BY <1>2, <2>0, <2>1, ZkeyStem, AbsoluteFound DEF ZkeyInv
  <2>2. ASSUME NEW i \in DOMAIN proofCh' PROVE FileExists(proofCh'[i].zkey)
    BY <1>2, <2>0, <2>2, ContentsStem DEF ZkeyInv, Keyed
  <2>. QED  BY <2>0, <2>1, <2>2 DEF ZkeyInv, FileExists
<1>3. ZkeyInv => ZkeyGiven
  BY DEF ZkeyInv, Keyed, ZkeyGiven, Doing
<1>. QED  BY <1>1, <1>2, <1>3, PTL DEF Spec

----------------------------------------------------------------------------
(* The circuit *)

Known(n) == n \in DOMAIN circuit_zkey_map

\* The circuit of a request that passed the checks, and of its job up to the
\* witness generator, is in the map.
CircuitsKnown ==
    /\ \A c \in Calls : calls[c].pc \in {"create", "send"} => Known(calls[c].body.circuit)
    /\ \A i \in DOMAIN fileCh : Known(fileCh[i].circuit)
    /\ \A i \in DOMAIN witnessCh : Known(witnessCh[i].circuit)
    /\ \A c \in Calls : task[c].pc \in Generating => Known(task[c].circuit)

CircuitInv == MapInv /\ CircuitsKnown

\* At first there is no job,
LEMMA CircuitInvInit == Init => CircuitInv
BY MapInvInit DEF Init, RpcInit, ChannelsInit, PipelineInit, IdleCall, NoTask, CircuitInv,
   CircuitsKnown, Generating

\* and submit_request lets no job pass whose circuit is not in the map.
LEMMA CircuitInvStep ==
    ASSUME CircuitInv, [Next]_vars
    PROVE  CircuitInv'
<1>0. MapInv /\ MapInv' /\ TypeOK /\ StartedFirst /\ CircuitsKnown /\ Steps
  BY MapInvStep, StepMoves DEF CircuitInv, MapInv
<1>1. CASE UNCHANGED circuit_zkey_map
  <2>1. ASSUME NEW c \in Calls, calls'[c].pc \in {"create", "send"}
        PROVE  calls'[c].body.circuit \in DOMAIN circuit_zkey_map
    <3>. DEFINE verdict == Verdict(SharedSecret(calls[c].uuid), calls[c].key, calls[c].body)
    <3>1. \/ calls[c].pc \in {"create", "send"} /\ calls'[c].body = calls[c].body
          \/ verdict = "accepted" /\ calls'[c].body = calls[c].body
      <4>1. CASE CallMoves(c)
        BY <2>1, <4>1 DEF CallMoves, Turns, Same, At, After
      <4>. QED  BY <1>0, <2>1, <4>1 DEF Steps, CallMoves, ExitMoves, Turns, serverVars
    <3>2. verdict = "accepted" => calls[c].body.circuit \in DOMAIN circuit_zkey_map
      BY DEF Verdict
    <3>. HIDE DEF verdict
    <3>. QED  BY <1>0, <3>1, <3>2 DEF CircuitsKnown, Known
  <2>2. ASSUME NEW i \in DOMAIN fileCh' PROVE fileCh'[i].circuit \in DOMAIN circuit_zkey_map
    BY <1>0, <2>2, ContentsStem DEF CircuitsKnown, Known
  <2>3. ASSUME NEW i \in DOMAIN witnessCh' PROVE witnessCh'[i].circuit \in DOMAIN circuit_zkey_map
    BY <1>0, <2>3, ContentsStem DEF CircuitsKnown, Known, Generating
  <2>4. ASSUME NEW c \in Calls, task'[c].pc \in Generating
        PROVE  task'[c].circuit \in DOMAIN circuit_zkey_map
    BY <1>0, <2>4, CircuitStem DEF CircuitsKnown, Known
  <2>. QED  BY <1>0, <1>1, <2>1, <2>2, <2>3, <2>4 DEF CircuitInv, CircuitsKnown, Known
<1>2. CASE phase' \in {"exited", "scan"} \/ (phase = "scan" /\ UNCHANGED serverVars)
  <2>1. /\ fileCh' = <<>> /\ witnessCh' = <<>>
        /\ \A c \in Calls : calls'[c].pc \notin Awaits /\ task'[c].pc \notin Working
    BY <1>0, <1>2 DEF MapInv, StartedFirst, serverVars
  <2>. QED  BY <1>0, <2>1
            DEF CircuitInv, CircuitsKnown, Awaits, SubmitAwaits, Working, Generating
<1>. QED  BY <1>0, <1>1, <1>2, MapMoves DEF ExitMoves

\* So the lookup of the zkey finds it.
LEMMA NoPanicStep ==
    ASSUME "garbled" \notin Faults, CircuitInv, NoTaskPanics, [Next]_vars
    PROVE  NoTaskPanics'
<1>0. TypeOK /\ CircuitsKnown /\ Steps
  BY StepMoves DEF CircuitInv, MapInv
<1>1. ASSUME NEW c \in Calls, task'[c].pc = "panicked" PROVE FALSE
  <2>1. task[c].pc # "panicked"
    BY DEF NoTaskPanics, Doing
  <2>2. ASSUME NEW d \in Calls, JobMoves(d) PROVE FALSE
    <3>1. c = d /\ task[c].pc = "witness" /\ task[c].circuit \notin DOMAIN circuit_zkey_map
      BY <1>1, <2>1, <2>2 DEF JobMoves, JobFields, Move
    <3>. QED  BY <1>0, <3>1 DEF CircuitsKnown, Known, Generating
  <2>. QED  BY <1>0, <1>1, <2>1, <2>2
            DEF Steps, LoopMoves, TakenUp, ExitMoves, otherVars, serverVars
<1>. QED  BY <1>1 DEF NoTaskPanics, Doing

\* Unless a program writes an error that is not UTF-8, no task panics: a job's
\* circuit is in the map, although the server may be started again with other
\* circuits between any two steps.
THEOREM NoTaskPanicsCorrect ==
    ASSUME "garbled" \notin Faults
    PROVE  Spec => []NoTaskPanics
<1>1. Init => CircuitInv /\ NoTaskPanics
  BY CircuitInvInit DEF Init, PipelineInit, NoTask, NoTaskPanics, Doing
<1>2. CircuitInv /\ NoTaskPanics /\ [Next]_vars => CircuitInv' /\ NoTaskPanics'
  BY CircuitInvStep, NoPanicStep
<1>. QED  BY <1>1, <1>2, PTL DEF Spec
=============================================================================
