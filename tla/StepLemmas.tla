----------------------------- MODULE StepLemmas -----------------------------
(***************************************************************************)
(* What one step of the server does, field by field: to the call it is     *)
(* about, to the job it is about, and to the messages the loops take.      *)
(***************************************************************************)
EXTENDS StoredProofs

----------------------------------------------------------------------------
(* What a step does to a job *)

\* The job of c goes from one stage to another and keeps its uuid.
Move(c, from, to) == task[c].pc = from /\ task'[c].pc \in to

\* The reason of a failure and the zkey are set where the job fails, and where
\* its witness was generated.
JobFields(c) ==
    /\ task'[c].uuid = task[c].uuid /\ task'[c].circuit = task[c].circuit
    /\ task'[c].reason # task[c].reason =>
          task'[c].pc = "fail" /\ task[c].pc \notin {"fail", "rm"} \cup Stopped
    /\ task'[c].pc = "fail" /\ task[c].pc # "fail" =>
          task'[c].reason = "storable" \/ (task'[c].reason = "unstorable" /\ "unstorable" \in Faults)
    /\ task'[c].pc = "record" /\ task[c].pc # "record" =>
          /\ task[c].circuit \in DOMAIN circuit_zkey_map
          /\ task'[c].zkey = zkey_file_path(task[c].circuit)
    /\ task'[c].pc # "record" \/ task[c].pc = "record" => task'[c].zkey = task[c].zkey
    /\ task'[c].pc = "panicked" /\ task[c].pc # "panicked" =>
          "garbled" \in Faults \/ task[c].circuit \notin DOMAIN circuit_zkey_map

\* What a task does to its job, to the channels and to the table.
JobMoves(c) ==
    /\ \A d \in Calls \ {c} : task'[d] = task[d]
    /\ JobFields(c)
    /\ UNCHANGED fileCh
    /\ \/ /\ \/ task'[c] = task[c]
             \/ Move(c, "file", {"send_witness", "fail"})
             \/ Move(c, "witness", {"record", "fail", "panicked"})
             \/ Move(c, "prove", {"store", "fail"})
             \/ Move(c, "rm", {"ended"})
          /\ UNCHANGED <<witnessCh, proofCh, proofs, notified>>
       \/ /\ Move(c, "send_witness", {"witness_queued"})
          /\ HasPermit(witnessCh)
          /\ witnessCh' = Append(witnessCh, [id |-> c, uuid |-> task[c].uuid,
                                             circuit |-> task[c].circuit])
          /\ UNCHANGED <<proofCh, proofs, notified>>
       \/ /\ Move(c, "send_proof", {"proof_queued"})
          /\ HasPermit(proofCh)
          /\ proofCh' = Append(proofCh, [id |-> c, uuid |-> task[c].uuid, zkey |-> task[c].zkey])
          /\ UNCHANGED <<witnessCh, proofs, notified>>
       \/ /\ \E ok \in BOOLEAN :
                \/ /\ set_witness_generated(task[c].uuid, ok)
                   /\ Move(c, "record", {IF ok THEN "send_proof" ELSE "fail"})
                \/ /\ update_proof(task[c].uuid, tmp[task[c].uuid].proof, ok)
                   /\ Move(c, "store", {IF ok THEN "rm" ELSE "fail"})
                \/ /\ fail_proof(task[c].uuid, task[c].reason = "storable", ok)
                   /\ Move(c, "fail", {"rm"})
          /\ UNCHANGED <<witnessCh, proofCh>>

\* A job that goes on, one that fails, and one that is given its zkey.
LEMMA ContinueMoves ==
    ASSUME TasksType, NEW c \in Calls, NEW pc, Continue(c, pc), pc \notin {"fail", "record"},
           pc = "panicked" => "garbled" \in Faults \/ task[c].circuit \notin DOMAIN circuit_zkey_map
    PROVE  (\A d \in Calls \ {c} : task'[d] = task[d]) /\ task'[c].pc = pc /\ JobFields(c)
<1>1. /\ \A d \in Calls \ {c} : task'[d] = task[d]
      /\ task'[c].pc = pc /\ task'[c].uuid = task[c].uuid /\ task'[c].circuit = task[c].circuit
      /\ task'[c].zkey = task[c].zkey /\ task'[c].reason = task[c].reason
  BY DEF Continue, TasksType, Task
<1>. QED  BY <1>1 DEF JobFields

LEMMA FailMoves ==
    ASSUME TasksType, NEW c \in Calls, NEW reason \in FailureReasons \cup {"storable"},
           Fail(c, reason), task[c].pc \notin {"fail", "rm"} \cup Stopped
    PROVE  (\A d \in Calls \ {c} : task'[d] = task[d]) /\ task'[c].pc = "fail" /\ JobFields(c)
<1>1. /\ \A d \in Calls \ {c} : task'[d] = task[d]
      /\ task'[c].pc = "fail" /\ task'[c].uuid = task[c].uuid /\ task'[c].circuit = task[c].circuit
      /\ task'[c].zkey = task[c].zkey /\ task'[c].reason = reason
  BY DEF Fail, TasksType, Task
<1>. QED  BY <1>1 DEF JobFields, FailureReasons

LEMMA TakeZkeyMoves ==
    ASSUME TasksType, NEW c \in Calls, TakeZkey(c), task[c].pc = "witness"
    PROVE  /\ \A d \in Calls \ {c} : task'[d] = task[d]
           /\ task'[c].pc \in {"record", "panicked"} /\ JobFields(c)
<1>1. ASSUME NEW path, task' = [task EXCEPT ![c].pc = "record", ![c].zkey = path]
      PROVE  /\ \A d \in Calls \ {c} : task'[d] = task[d]
             /\ task'[c].pc = "record" /\ task'[c].uuid = task[c].uuid
             /\ task'[c].circuit = task[c].circuit /\ task'[c].reason = task[c].reason
             /\ task'[c].zkey = path
  BY <1>1 DEF TasksType, Task
<1>2. CASE task[c].circuit \in DOMAIN circuit_zkey_map
  <2>1. task' = [task EXCEPT ![c].pc = "record", ![c].zkey = zkey_file_path(task[c].circuit)]
    BY <1>2 DEF TakeZkey
  <2>. QED  BY <1>1, <1>2, <2>1 DEF JobFields
<1>3. CASE task[c].circuit \notin DOMAIN circuit_zkey_map
  BY <1>3, ContinueMoves DEF TakeZkey
<1>. QED  BY <1>2, <1>3

\* Every step of a task is one of these.
LEMMA TaskMoves ==
    ASSUME TasksType, NEW c \in Calls, TaskStep(c) \/ FlushInputs(c) \/ RunProver(c)
    PROVE  JobMoves(c)
<1>. USE DEF Doing, Move, Stopped
<1>1. CASE WriteInputs(c)
  <2>1. /\ task[c].pc = "file"
        /\ UNCHANGED <<fileCh, witnessCh, proofCh, proofs, notified>>
        /\ Continue(c, "send_witness") \/ Fail(c, "storable")
    BY <1>1 DEF WriteInputs
  <2>. QED  BY <2>1, ContinueMoves, FailMoves DEF JobMoves
<1>2. CASE FlushInputs(c)
  BY <1>2 DEF FlushInputs, JobMoves, JobFields
<1>3. CASE SendWitness(c)
  BY <1>3, ContinueMoves DEF SendWitness, JobMoves
<1>4. CASE RunWitness(c)
  <2>1. /\ task[c].pc = "witness"
        /\ UNCHANGED <<fileCh, witnessCh, proofCh, proofs, notified>>
        /\ \/ TakeZkey(c)
           \/ "garbled" \in Faults /\ Continue(c, "panicked")
           \/ \E reason \in FailureReasons \cup {"storable"} : Fail(c, reason)
    BY <1>4 DEF RunWitness
  <2>. QED  BY <2>1, ContinueMoves, FailMoves, TakeZkeyMoves DEF JobMoves
<1>5. CASE RecordWitness(c)
  <2>1. PICK ok \in BOOLEAN : set_witness_generated(task[c].uuid, ok) /\ Proceed(c, ok, "send_proof")
    BY <1>5 DEF RecordWitness
  <2>2. task[c].pc = "record"
    BY <1>5 DEF RecordWitness
  <2>3. /\ \A d \in Calls \ {c} : task'[d] = task[d]
        /\ task'[c].pc = (IF ok THEN "send_proof" ELSE "fail") /\ JobFields(c)
    BY <2>1, <2>2, ContinueMoves, FailMoves DEF Proceed
  <2>. QED  BY <1>5, <2>1, <2>2, <2>3 DEF RecordWitness, JobMoves
<1>6. CASE SendProof(c)
  BY <1>6, ContinueMoves DEF SendProof, JobMoves
<1>7. CASE RunProver(c)
  <2>1. /\ task[c].pc = "prove"
        /\ UNCHANGED <<fileCh, witnessCh, proofCh, proofs, notified>>
        /\ \/ Continue(c, "store")
           \/ \E reason \in FailureReasons \cup {"storable"} : Fail(c, reason)
    BY <1>7 DEF RunProver
  <2>. QED  BY <2>1, ContinueMoves, FailMoves DEF JobMoves
<1>8. CASE StoreProof(c)
  <2>1. PICK ok \in BOOLEAN : /\ update_proof(task[c].uuid, tmp[task[c].uuid].proof, ok)
                              /\ Proceed(c, ok, "rm")
    BY <1>8 DEF StoreProof
  <2>2. task[c].pc = "store"
    BY <1>8 DEF StoreProof
  <2>3. /\ \A d \in Calls \ {c} : task'[d] = task[d]
        /\ task'[c].pc = (IF ok THEN "rm" ELSE "fail") /\ JobFields(c)
    BY <2>1, <2>2, ContinueMoves, FailMoves DEF Proceed
  <2>. QED  BY <1>8, <2>1, <2>2, <2>3 DEF StoreProof, JobMoves
<1>9. CASE FailProof(c)
  BY <1>9, ContinueMoves DEF FailProof, JobMoves
<1>10. CASE RemoveTmpFolder(c)
  BY <1>10, ContinueMoves DEF RemoveTmpFolder, JobMoves
<1>. QED  BY <1>1, <1>2, <1>3, <1>4, <1>5, <1>6, <1>7, <1>8, <1>9, <1>10 DEF TaskStep

----------------------------------------------------------------------------
(* What a step does to a call *)

Same(c) ==
    /\ calls'[c].uuid = calls[c].uuid /\ calls'[c].key = calls[c].key
    /\ calls'[c].body = calls[c].body /\ calls'[c].used = calls[c].used

Turns(c, from, to, reply) ==
    At(c, from) /\ calls'[c].pc = to /\ calls'[c].reply = reply /\ Same(c)

\* The answers of calls that are refused before they look at any state.
Refusals == {"BadPubkeyLength", "InvalidPubkey", "BadNonceLength", "BadTagLength"}

\* What a client or a handler does to its call, the store, the table and the
\* file channel.
CallMoves(c) ==
    LET u == calls[c].uuid
        secret == SharedSecret(u)
        verdict == Verdict(secret, calls[c].key, calls[c].body)
    IN  /\ \A d \in Calls \ {c} : calls'[d] = calls[d]
        /\ \/ /\ \/ \E r \in Refusals : Turns(c, "idle", "replied", r)
                 \/ /\ At(c, "idle") /\ calls'[c].pc = "attest" /\ calls'[c].uuid \in Uuids
                    /\ calls'[c].key = calls[c].key /\ calls'[c].body = calls[c].body
                    /\ calls'[c].used = calls[c].used /\ calls'[c].reply = calls[c].reply
                 \/ /\ At(c, "idle") /\ calls'[c].pc = "lookup" /\ calls'[c].uuid \in Uuids
                    /\ calls'[c].key \in KeysKnown /\ calls'[c].body \in Bodies
                    /\ calls'[c].used = calls[c].used /\ calls'[c].reply = calls[c].reply
                 \/ \E r \in {"attested", "unattested"} : Turns(c, "attest", "insert", r)
                 \/ Turns(c, "attest", "replied", "AttestationError")
                 \/ /\ "disconnect" \in Faults /\ calls[c].pc \in Awaits
                    /\ Turns(c, calls[c].pc, "dropped", calls[c].reply)
              /\ UNCHANGED <<ecdh_store, proofs, notified, fileCh>>
           \/ /\ \E ok \in BOOLEAN :
                    /\ insert_new_agreement(u, c, ok)
                    /\ Turns(c, "insert", "replied", IF ok THEN calls[c].reply ELSE "UuidExists")
              /\ UNCHANGED <<proofs, notified, fileCh>>
           \/ /\ At(c, "lookup") /\ get_shared_secret(u)
              /\ calls'[c].pc = After(verdict, "create") /\ calls'[c].reply = verdict
              /\ calls'[c].used = secret /\ calls'[c].uuid = u
              /\ calls'[c].key = calls[c].key /\ calls'[c].body = calls[c].body
              /\ UNCHANGED <<proofs, notified, fileCh>>
           \/ /\ \E ok \in BOOLEAN :
                    /\ create_proof_status(u, c, metadata(calls[c].body), calls[c].body.fits, ok)
                    /\ IF ok THEN Turns(c, "create", "send", "accepted")
                             ELSE Turns(c, "create", "remove", "CouldNotCreate")
              /\ UNCHANGED <<ecdh_store, fileCh>>
           \/ /\ HasPermit(fileCh)
              /\ fileCh' = Append(fileCh, [id |-> c, uuid |-> u, circuit |-> calls[c].body.circuit,
                                           inputs |-> calls[c].body.inputs])
              /\ Turns(c, "send", "remove", calls[c].reply)
              /\ UNCHANGED <<ecdh_store, proofs, notified>>
           \/ /\ remove_agreement(u)
              /\ Turns(c, "remove", "replied", calls[c].reply)
              /\ UNCHANGED <<proofs, notified, fileCh>>

\* A call that goes on keeps everything but its place and its reply.
LEMMA GotoMoves ==
    ASSUME CallsType, NEW c \in Calls, NEW pc, NEW reply, Goto(c, pc, reply)
    PROVE  /\ \A d \in Calls \ {c} : calls'[d] = calls[d]
           /\ calls'[c].pc = pc /\ calls'[c].reply = reply /\ Same(c)
BY DEF Goto, CallsType, Call, Same

\* Every step of a client or a handler is one of these.
LEMMA CallStepMoves ==
    ASSUME CallsType, NEW c \in Calls, ClientStep(c) \/ HandlerStep(c)
    PROVE  CallMoves(c)
<1>. USE DEF At
<1>0. calls \in [Calls -> Call] /\ calls[c] \in Call
  BY DEF CallsType
<1>1. ASSUME NEW r \in Refusals, HelloRefused(c, r) \/ SubmitRefused(c, r) PROVE CallMoves(c)
  BY <1>1, GotoMoves DEF HelloRefused, SubmitRefused, CallMoves, Turns
<1>2. ASSUME NEW w \in Uuids, Hello(c, w) PROVE CallMoves(c)
  <2>1. /\ \A d \in Calls \ {c} : calls'[d] = calls[d]
        /\ calls'[c].pc = "attest" /\ calls'[c].uuid = w
        /\ calls'[c].key = calls[c].key /\ calls'[c].body = calls[c].body
        /\ calls'[c].used = calls[c].used /\ calls'[c].reply = calls[c].reply
    BY <1>0, <1>2 DEF Hello, Call
  <2>. QED  BY <1>2, <2>1 DEF Hello, CallMoves
<1>3. ASSUME NEW w \in Uuids, NEW k \in KeysKnown, NEW b \in Bodies, Submit(c, w, k, b)
      PROVE  CallMoves(c)
  <2>1. /\ \A d \in Calls \ {c} : calls'[d] = calls[d]
        /\ calls'[c].pc = "lookup" /\ calls'[c].uuid = w /\ calls'[c].key = k
        /\ calls'[c].body = b /\ calls'[c].used = calls[c].used /\ calls'[c].reply = calls[c].reply
    BY <1>0, <1>3 DEF Submit, Call
  <2>. QED  BY <1>3, <2>1 DEF Submit, CallMoves
<1>4. CASE Disconnect(c)
  BY <1>4, GotoMoves DEF Disconnect, CallMoves, Turns
<1>5. CASE Attest(c)
  BY <1>5, GotoMoves DEF Attest, get_custom_token_bytes, CallMoves, Turns
<1>6. CASE InsertAgreement(c)
  BY <1>6, GotoMoves DEF InsertAgreement, CallMoves, Turns
<1>7. CASE Lookup(c)
  <2>1. ASSUME NEW pc, NEW reply, NEW secret,
               calls' = [calls EXCEPT ![c].pc = pc, ![c].reply = reply, ![c].used = secret]
        PROVE  /\ \A d \in Calls \ {c} : calls'[d] = calls[d]
               /\ calls'[c].pc = pc /\ calls'[c].reply = reply /\ calls'[c].used = secret
               /\ calls'[c].uuid = calls[c].uuid /\ calls'[c].key = calls[c].key
               /\ calls'[c].body = calls[c].body
    BY <1>0, <2>1 DEF Call
  <2>. DEFINE secret == SharedSecret(calls[c].uuid)
              verdict == Verdict(secret, calls[c].key, calls[c].body)
              pc == After(verdict, "create")
  <2>2. /\ calls' = [calls EXCEPT ![c].pc = pc, ![c].reply = verdict, ![c].used = secret]
        /\ calls[c].pc = "lookup" /\ get_shared_secret(calls[c].uuid)
        /\ UNCHANGED <<proofs, notified, fileCh>>
    BY <1>7 DEF Lookup
  <2>3. /\ \A d \in Calls \ {c} : calls'[d] = calls[d]
        /\ calls'[c].pc = pc /\ calls'[c].reply = verdict /\ calls'[c].used = secret
        /\ calls'[c].uuid = calls[c].uuid /\ calls'[c].key = calls[c].key
        /\ calls'[c].body = calls[c].body
    <3>. HIDE DEF pc, verdict, secret
    <3>. QED  BY <2>1, <2>2
  <2>. QED  BY <2>2, <2>3 DEF CallMoves
<1>8. CASE CreateRow(c)
  <2>1. PICK ok \in BOOLEAN :
           /\ create_proof_status(calls[c].uuid, c, metadata(calls[c].body), calls[c].body.fits, ok)
           /\ Goto(c, After(IF ok THEN "accepted" ELSE "CouldNotCreate", "send"),
                   IF ok THEN "accepted" ELSE "CouldNotCreate")
    BY <1>8 DEF CreateRow
  <2>2. Goto(c, IF ok THEN "send" ELSE "remove", IF ok THEN "accepted" ELSE "CouldNotCreate")
    BY <2>1 DEF After
  <2>3. /\ \A d \in Calls \ {c} : calls'[d] = calls[d]
        /\ IF ok THEN Turns(c, "create", "send", "accepted")
                 ELSE Turns(c, "create", "remove", "CouldNotCreate")
    BY <1>8, <2>2, GotoMoves DEF CreateRow, Turns
  <2>. QED  BY <1>8, <2>1, <2>3 DEF CreateRow, CallMoves
<1>9. CASE SendJob(c)
  BY <1>9, GotoMoves DEF SendJob, CallMoves, Turns
<1>10. CASE RemoveAgreement(c)
  BY <1>10, GotoMoves DEF RemoveAgreement, CallMoves, Turns
<1>. QED  BY <1>1, <1>2, <1>3, <1>4, <1>5, <1>6, <1>7, <1>8, <1>9, <1>10
          DEF ClientStep, HandlerStep, Refusals

----------------------------------------------------------------------------
(* What the loops do *)

\* The loop takes up the job of message m at stage pc.
TakenUp(m, pc) ==
    /\ m.id \in Calls /\ m.uuid \in Uuids
    /\ \A d \in Calls \ {m.id} : task'[d] = task[d]
    /\ task'[m.id].pc = pc /\ task'[m.id].uuid = m.uuid

LoopMoves ==
    /\ UNCHANGED <<proofs, notified, tmp, writes>>
    /\ \/ /\ fileCh # <<>> /\ fileCh' = Tail(fileCh) /\ UNCHANGED <<witnessCh, proofCh, prover>>
          /\ TakenUp(fileCh[1], "file") /\ task'[fileCh[1].id].circuit = fileCh[1].circuit
          /\ task'[fileCh[1].id].reason = "none"
       \/ /\ witnessCh # <<>> /\ witnessCh' = Tail(witnessCh) /\ UNCHANGED <<fileCh, proofCh, prover>>
          /\ TakenUp(witnessCh[1], "witness")
          /\ task'[witnessCh[1].id].circuit = witnessCh[1].circuit
          /\ task'[witnessCh[1].id].reason = task[witnessCh[1].id].reason
       \/ /\ proofCh # <<>> /\ proofCh' = Tail(proofCh) /\ UNCHANGED <<fileCh, witnessCh>>
          /\ TakenUp(proofCh[1], "prove") /\ task'[proofCh[1].id].zkey = proofCh[1].zkey
          /\ task'[proofCh[1].id].reason = task[proofCh[1].id].reason

\* Every step of a loop is one of these.
LEMMA LoopStepMoves ==
    ASSUME FileType, WitnessType, ProofType, TasksType, LoopStep
    PROVE  LoopMoves
<1>0. task \in [Calls -> Task]
  BY DEF TasksType
<1>1. CASE FileLoop
  <2>. DEFINE m == fileCh[1]
              new == [pc |-> "file", uuid |-> m.uuid, circuit |-> m.circuit,
                      inputs |-> m.inputs, zkey |-> None, reason |-> "none"]
  <2>1. m \in FileGenerator /\ Head(fileCh) = m /\ fileCh # <<>>
    BY <1>1, ReceiveType DEF FileLoop, FileType
  <2>2. m.id \in Calls /\ m.uuid \in Uuids
    BY <2>1 DEF FileGenerator
  <2>3. task' = [task EXCEPT ![m.id] = new]
    BY <1>1, <2>1 DEF FileLoop
  <2>4. new.pc = "file" /\ new.uuid = m.uuid /\ new.circuit = m.circuit /\ new.reason = "none"
    OBVIOUS
  <2>. HIDE DEF new, m
  <2>5. TakenUp(m, "file") /\ task'[m.id].circuit = m.circuit /\ task'[m.id].reason = "none"
    BY <1>0, <2>2, <2>3, <2>4 DEF TakenUp
  <2>. QED  BY <1>1, <2>1, <2>5 DEF FileLoop, LoopMoves, m
<1>2. CASE WitnessLoop
  <2>. DEFINE m == witnessCh[1]
              new == [task[m.id] EXCEPT !.pc = "witness", !.uuid = m.uuid, !.circuit = m.circuit]
  <2>1. m \in WitnessGenerator /\ Head(witnessCh) = m /\ witnessCh # <<>>
    BY <1>2, ReceiveType DEF WitnessLoop, WitnessType
  <2>2. m.id \in Calls /\ m.uuid \in Uuids /\ task[m.id] \in Task
    BY <1>0, <2>1 DEF WitnessGenerator
  <2>3. task' = [task EXCEPT ![m.id] = new]
    BY <1>0, <1>2, <2>1, <2>2 DEF WitnessLoop
  <2>4. /\ new.pc = "witness" /\ new.uuid = m.uuid /\ new.circuit = m.circuit
        /\ new.reason = task[m.id].reason
    BY <2>2 DEF Task
  <2>. HIDE DEF new, m
  <2>5. /\ TakenUp(m, "witness") /\ task'[m.id].circuit = m.circuit
        /\ task'[m.id].reason = task[m.id].reason
    BY <1>0, <2>2, <2>3, <2>4 DEF TakenUp
  <2>. QED  BY <1>2, <2>1, <2>5 DEF WitnessLoop, LoopMoves, m
<1>3. CASE ProofLoop
  <2>. DEFINE m == proofCh[1]
              new == [task[m.id] EXCEPT !.pc = "prove", !.uuid = m.uuid, !.zkey = m.zkey]
  <2>1. m \in ProofGenerator /\ Head(proofCh) = m /\ proofCh # <<>>
    BY <1>3, ReceiveType DEF ProofLoop, ProofType
  <2>2. m.id \in Calls /\ m.uuid \in Uuids /\ task[m.id] \in Task
    BY <1>0, <2>1 DEF ProofGenerator
  <2>3. task' = [task EXCEPT ![m.id] = new]
    BY <1>0, <1>3, <2>1, <2>2 DEF ProofLoop
  <2>4. new.pc = "prove" /\ new.uuid = m.uuid /\ new.zkey = m.zkey /\ new.reason = task[m.id].reason
    BY <2>2 DEF Task
  <2>. HIDE DEF new, m
  <2>5. /\ TakenUp(m, "prove") /\ task'[m.id].zkey = m.zkey
        /\ task'[m.id].reason = task[m.id].reason
    BY <1>0, <2>2, <2>3, <2>4 DEF TakenUp
  <2>. QED  BY <1>3, <2>1, <2>5 DEF ProofLoop, LoopMoves, m
<1>. QED  BY <1>1, <1>2, <1>3 DEF LoopStep

----------------------------------------------------------------------------
(* What the end of the process does *)

ExitMoves ==
    /\ \/ phase = "scan"
       \/ phase = "check" /\ "noprover" \in Faults
       \/ phase # "exited" /\ "crash" \in Faults
    /\ phase' = "exited" /\ ecdh_store' = <<>> /\ UNCHANGED <<proofs, notified>>
    /\ fileCh' = <<>> /\ witnessCh' = <<>> /\ proofCh' = <<>> /\ circuit_zkey_map' = <<>>
    /\ \A c \in Calls :
          /\ \/ calls[c].pc \notin Awaits /\ calls'[c] = calls[c]
             \/ /\ calls[c].pc \in Awaits
                /\ Turns(c, calls[c].pc, "dropped", calls[c].reply)
          /\ \/ task[c].pc \notin Working /\ task'[c] = task[c]
             \/ /\ task[c].pc \in Working /\ task'[c].pc = "lost"
                /\ task'[c].uuid = task[c].uuid /\ task'[c].reason = task[c].reason

\* The end of the process is one of these.
LEMMA ExitStepMoves ==
    ASSUME CallsType, TasksType, Exit
    PROVE  ExitMoves
<1>1. \A c \in Calls : calls[c] \in Call /\ task[c] \in Task
  BY DEF CallsType, TasksType
<1>2. ASSUME NEW c \in Calls, calls[c].pc \in Awaits
      PROVE  Turns(c, calls[c].pc, "dropped", calls[c].reply)
  BY <1>1, <1>2 DEF Exit, Turns, Same, At, Call
<1>3. ASSUME NEW c \in Calls, task[c].pc \in Working
      PROVE  /\ task'[c].pc = "lost" /\ task'[c].uuid = task[c].uuid
             /\ task'[c].reason = task[c].reason
  BY <1>1, <1>3 DEF Exit, Task
<1>4. \A c \in Calls : /\ calls[c].pc \notin Awaits => calls'[c] = calls[c]
                       /\ task[c].pc \notin Working => task'[c] = task[c]
  BY DEF Exit
<1>5. /\ phase' = "exited" /\ circuit_zkey_map' = <<>>
      /\ \/ phase = "scan"
         \/ phase = "check" /\ "noprover" \in Faults
         \/ phase # "exited" /\ "crash" \in Faults
  BY DEF Exit, MainEnds
<1>6. /\ ecdh_store' = <<>> /\ UNCHANGED <<proofs, notified>>
      /\ fileCh' = <<>> /\ witnessCh' = <<>> /\ proofCh' = <<>>
  BY DEF Exit
<1>7. \A c \in Calls :
         /\ \/ calls[c].pc \notin Awaits /\ calls'[c] = calls[c]
            \/ calls[c].pc \in Awaits /\ Turns(c, calls[c].pc, "dropped", calls[c].reply)
         /\ \/ task[c].pc \notin Working /\ task'[c] = task[c]
            \/ /\ task[c].pc \in Working /\ task'[c].pc = "lost"
               /\ task'[c].uuid = task[c].uuid /\ task'[c].reason = task[c].reason
  BY <1>2, <1>3, <1>4
<1>. QED  BY <1>5, <1>6, <1>7 DEF ExitMoves

----------------------------------------------------------------------------
(* Every step *)

otherVars == <<witnessCh, proofCh, task, tmp, writes, prover, phase, circuit_folder,
               circuit_zkey_map>>

Steps ==
    \/ /\ \E c \in Calls : CallMoves(c) /\ (At(c, "idle") => Serving)
       /\ UNCHANGED otherVars
    \/ /\ LoopMoves \/ \E c \in Calls : JobMoves(c)
       /\ phase = "running"
       /\ UNCHANGED <<calls, ecdh_store, phase, circuit_folder, circuit_zkey_map>>
    \/ ExitMoves
    \/ /\ UNCHANGED serverVars
       /\ \/ Connect \/ Serve \/ ProverFound \/ (ChangeFolder /\ UNCHANGED phase)
          \/ UNCHANGED <<phase, circuit_folder, circuit_zkey_map>>

\* Every step of the server is one of these.
LEMMA StepMoves ==
    ASSUME TypeOK, [Next]_vars
    PROVE  Steps
<1>. USE TypeParts DEF TypePart
<1>1. ASSUME NEW c \in Calls, Client(c) \/ Handler(c) PROVE Steps
  <2>1. CallMoves(c) /\ UNCHANGED otherVars
    BY <1>1, CallStepMoves DEF Client, Handler, otherVars, pipelineVars, startupVars
  <2>2. At(c, "idle") => Serving
    <3>1. ASSUME At(c, "idle"), Handler(c) PROVE FALSE
      BY <3>1 DEF Handler, HandlerStep, Attest, InsertAgreement, Lookup, CreateRow, SendJob,
         RemoveAgreement, At
    <3>. QED  BY <1>1, <3>1 DEF Client
  <2>. QED  BY <2>1, <2>2 DEF Steps
<1>2. CASE Pipe
  <2>1. LoopMoves \/ \E c \in Calls : JobMoves(c)
    BY <1>2, LoopStepMoves, TaskMoves DEF Pipe, Loops, PipelineStep
  <2>2. phase = "running" /\ UNCHANGED <<calls, ecdh_store, phase, circuit_folder, circuit_zkey_map>>
    BY <1>2 DEF Pipe, Loops, handlerVars, startupVars
  <2>. QED  BY <2>1, <2>2 DEF Steps
<1>3. CASE Exit
  BY <1>3, ExitStepMoves DEF Steps
<1>4. CASE Starting \/ Install
  BY <1>4, MainSteps DEF Steps
<1>5. CASE UNCHANGED vars
  BY <1>5 DEF Steps, vars, handlerVars, pipelineVars, startupVars, serverVars
<1>. QED  BY <1>1, <1>2, <1>3, <1>4, <1>5 DEF Next, Quiet
=============================================================================
