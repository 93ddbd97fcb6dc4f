---------------------------- MODULE MCTeeServer ----------------------------
(* Small instances of TeeServer for TLC. *)
EXTENDS TeeServer

\* The columns of setup.sql and the ones create_proof_status also needs.
DeployedColumns == SetupSqlColumns \cup {"version", "user_defined_data", "self_defined_data"}

Circuit1 == [name |-> "vc_and_disclose", kind |-> "cpp", binary |-> TRUE]
Installed == {Circuit1}

\* ... and a circuit whose zkey is missing.
WithNew == {Circuit1, [name |-> "new", kind |-> "cpp", binary |-> TRUE]}

AbsoluteZkeys == [absolute |-> TRUE, parts |-> <<"zkeys">>]

Good == [form |-> "request", type |-> "disclose", circuit |-> "vc_and_disclose",
         inputs |-> "small", endpoint |-> TRUE, version |-> None, fits |-> TRUE]

GoodBodies == {Good}
MoreBodies == {Good, [Good EXCEPT !.circuit = "new"]}

Symmetry == Permutations(Calls) \cup Permutations(Uuids)
=============================================================================
