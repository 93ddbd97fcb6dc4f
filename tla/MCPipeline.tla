----------------------------- MODULE MCPipeline -----------------------------
(* Small instances of PipelineAlone for TLC. *)
EXTENDS PipelineAlone

\* The columns of setup.sql and the ones create_proof_status also needs.
DeployedColumns == SetupSqlColumns \cup {"version", "user_defined_data", "self_defined_data"}

\* A circuit with its binary, and an entry that is no folder of a circuit but has
\* a zkey for the name that is left of it.
Installed == {[name |-> "a", kind |-> "cpp", binary |-> TRUE]}
WithStray == Installed \cup {[name |-> "b", kind |-> "other", binary |-> FALSE]}

AbsoluteZkeys == [absolute |-> TRUE, parts |-> <<"zkeys">>]

\* Any call may come with any uuid, circuit and size of inputs.
AllJobs == [id : Calls, uuid : Uuids, circuit : {"a", "b"}, inputs : {"small", "large"}]

\* Each call has a uuid of its own: calls that double as uuids.
OwnUuids == {[id |-> c, uuid |-> c, circuit |-> "a", inputs |-> "small"] : c \in Calls}
=============================================================================
