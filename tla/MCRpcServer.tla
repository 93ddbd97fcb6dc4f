---------------------------- MODULE MCRpcServer ----------------------------
(* Small instances of RpcServer for TLC. *)
EXTENDS RpcServer

\* The columns of setup.sql and the ones create_proof_status also needs.
DeployedColumns == SetupSqlColumns \cup {"version", "user_defined_data", "self_defined_data"}

Folder1 == [name |-> "vc_and_disclose", kind |-> "cpp", binary |-> TRUE]
Installed == {Folder1}
AbsoluteZkeys == [absolute |-> TRUE, parts |-> <<"zkeys">>]

Good == [form |-> "request", type |-> "disclose", circuit |-> "vc_and_disclose",
         inputs |-> "small", endpoint |-> TRUE, version |-> None, fits |-> TRUE]

\* One plaintext for each way a submission can be refused after decryption, and
\* one for a request with other columns and the largest version.
AllBodies == {Good, [Good EXCEPT !.form = "binary"], [Good EXCEPT !.form = "text"],
              [Good EXCEPT !.endpoint = FALSE], [Good EXCEPT !.type = "dsc"],
              [Good EXCEPT !.fits = FALSE],
              [Good EXCEPT !.type = "disclose_kyc", !.version = 2 * I32Max + 1],
              [Good EXCEPT !.type = "register_id", !.endpoint = FALSE]}

GoodBodies == {Good}

Symmetry == Permutations(Calls) \cup Permutations(Uuids)
=============================================================================
