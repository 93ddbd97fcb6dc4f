------------------------------ MODULE Startup ------------------------------
(***************************************************************************)
(* main of src/main.rs up to its select!, and how the process ends.  What  *)
(* fails on the way panics, which ends the process; whoever runs it starts *)
(* it again.                                                               *)
(***************************************************************************)
EXTENDS CircuitFolder

VARIABLE phase   \* where main is

\* exited    the process is not running
\* scan      the secret was fetched, the arguments parsed, the address bound and
\*           the database connected, the circuit folder opened
\* check     the circuits were read and requests are being served
\* running   the prover was found and the three loops run
Phases == {"exited", "scan", "check", "running"}

\* Handlers run from server.start on, before main has looked for the prover.
Serving == phase \in {"check", "running"}

startupVars == <<phase, circuit_folder, circuit_zkey_map>>

StartupInit ==
    /\ phase = "exited"
    /\ circuit_folder \in SUBSET Entries
    /\ circuit_zkey_map = <<>>

StartupTypeOK == phase \in Phases /\ FolderTypeOK

\* The process is started and gets as far as opening the circuit folder.  An
\* attempt that panics before leaves the process as it was: not running.
Connect ==
    /\ phase = "exited"
    /\ phase' = "scan"
    /\ UNCHANGED <<circuit_folder, circuit_zkey_map>>

Serve ==
    /\ phase = "scan"
    /\ ~ScanPanics
    /\ ScanFolder
    /\ phase' = "check"
    /\ UNCHANGED circuit_folder

ProverFound ==
    /\ phase = "check"
    /\ phase' = "running"
    /\ UNCHANGED <<circuit_folder, circuit_zkey_map>>

\* main panics, or the process is killed.
MainEnds ==
    /\ \/ phase = "scan" /\ ScanPanics
       \/ phase = "check" /\ "noprover" \in Faults
       \/ phase # "exited" /\ "crash" \in Faults
    /\ phase' = "exited"
    /\ circuit_zkey_map' = <<>>
    /\ UNCHANGED circuit_folder
=============================================================================
