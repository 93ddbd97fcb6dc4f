---------------------------- MODULE ProofsTable ----------------------------
(***************************************************************************)
(* src/db: the rows of the proofs table, the four statements the server    *)
(* executes on it, and the trigger of setup.sql that notifies listeners.   *)
(***************************************************************************)
EXTENDS ProofRequest

CONSTANT Columns   \* the columns the deployed table has

VARIABLES
    proofs,    \* uuid -> row (request_id is the primary key)
    notified   \* uuid -> the statuses sent on channel status_update, in order

Absent == -1   \* no row
Pending == 0
WitnessGenerated == 1
ProofGenererated == 2
Failed == 3

\* The row of a request: "request" holds the columns create_proof_status fills
\* in, "owner" is the call that did, "proof" the call whose inputs the stored
\* proof is about.
Row == [status : {Absent, Pending, WitnessGenerated, ProofGenererated, Failed},
        owner : Calls \cup {None}, request : Metadata \cup {None},
        witness_generated_at : BOOLEAN, proof : Calls \cup {None}, reason : BOOLEAN]

NoRow == [status |-> Absent, owner |-> None, request |-> None,
          witness_generated_at |-> FALSE, proof |-> None, reason |-> FALSE]

TableInit ==
    /\ proofs = [u \in Uuids |-> NoRow]
    /\ notified = [u \in Uuids |-> <<>>]

SetupSqlColumns ==
    {"request_id", "proof_type", "status", "circuit_name", "onchain", "created_at",
     "witness_generated_at", "proof_generated_at", "proof", "endpoint_type",
     "endpoint", "public_inputs", "reason", "identifier"}

\* Mutant: the statement names a column that no table has.
InsertColumnsDrifted == {"request_id", "status", "proof_type_name"}

InsertColumns ==
    {"proof_type", "request_id", "status", "created_at", "circuit_name", "onchain",
     "endpoint_type", "endpoint", "version", "user_defined_data", "self_defined_data"}

Exists(u) == proofs[u].status # Absent

\* Write a row and run trigger status_update_notify: an INSERT, and an UPDATE
\* that changes the status, send one notification.
Write(u, row) ==
    /\ proofs' = [proofs EXCEPT ![u] = row]
    /\ notified' = [notified EXCEPT ![u] =
                       IF row.status # proofs[u].status THEN Append(@, row.status) ELSE @]

\* One statement executed and answered.  PostgreSQL refuses an invalid one; a
\* valid one may fail before it has an effect, or after.
Execute(valid, u, row, ok) ==
    \/ ok /\ valid /\ Write(u, row)
    \/ ~ok /\ (~valid \/ "db" \in Faults) /\ UNCHANGED <<proofs, notified>>
    \/ ~ok /\ valid /\ "unknown" \in Faults /\ Write(u, row)

\* UPDATE ... WHERE request_id = u: without such a row nothing happens.
Update(u, row) == IF Exists(u) THEN row ELSE NoRow

\* Mutant: INSERT ... ON CONFLICT DO UPDATE.
create_proof_status_Upsert(u, c, request, fits, ok) ==
    Execute(fits, u, [NoRow EXCEPT !.status = Pending, !.owner = c, !.request = request], ok)

create_proof_status(u, c, request, fits, ok) ==
    Execute(~Exists(u) /\ fits /\ InsertColumns \subseteq Columns, u,
            [NoRow EXCEPT !.status = Pending, !.owner = c, !.request = request], ok)

set_witness_generated(u, ok) ==
    Execute(TRUE, u, Update(u, [proofs[u] EXCEPT !.status = WitnessGenerated,
                                                 !.witness_generated_at = TRUE]), ok)

\* p is what proof.json and public_inputs.json hold, None when one of them
\* cannot be read or deserialized; then no statement is executed at all.
update_proof(u, p, ok) ==
    Execute(p # None, u, Update(u, [proofs[u] EXCEPT !.status = ProofGenererated,
                                                     !.proof = p]), ok)

\* A reason with a NUL, or too long for pg_notify in the trigger, is refused.
fail_proof(u, storable, ok) ==
    Execute(storable, u, Update(u, [proofs[u] EXCEPT !.status = Failed,
                                                     !.reason = TRUE]), ok)
=============================================================================
