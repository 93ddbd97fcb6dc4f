------------------------------- MODULE Common -------------------------------
(***************************************************************************)
(* Parameters shared by every module of the prover server's model.         *)
(***************************************************************************)
EXTENDS Integers, Sequences

CONSTANTS
    Uuids,   \* session / request identifiers, chosen by the clients
    Calls,   \* RPC calls; each is made at most once.  A hello's ephemeral key
             \* pair, hence its shared secret, is identified with the call; a
             \* job of the pipeline with the submit_request that queued it
    None,    \* "no call", "no value"
    Faults   \* the kinds of failure that may happen in this instance

(***************************************************************************)
(* attestation  the launcher's socket fails or answers with an error body  *)
(* disconnect   a client goes away and its handler's future is dropped     *)
(* db           a statement fails and has no effect                        *)
(* unknown      a statement takes effect but its answer is lost            *)
(* io           a file operation fails                                     *)
(* program      chmod, witness binary or prover fails or writes no output  *)
(* unstorable   ... and its stderr is a reason PostgreSQL refuses          *)
(* garbled      ... and its stderr is not UTF-8                            *)
(* rm           remove_dir_all fails                                       *)
(* folder       the contents of the circuit folder change at any time      *)
(* noprover     rapidsnark is not found when the server starts             *)
(* crash        the process dies                                           *)
(***************************************************************************)
FaultKinds == {"attestation", "disconnect", "db", "unknown", "io", "program",
               "unstorable", "garbled", "rm", "folder", "noprover", "crash"}

ASSUME CommonAssumption == None \notin Calls \cup Uuids /\ Faults \subseteq FaultKinds
=============================================================================
