--------------------------- MODULE CircuitFolder ---------------------------
(***************************************************************************)
(* The circuit folder, the zkey folder and circuit_zkey_map, which         *)
(* src/main.rs builds from them once, when the server starts, and which    *)
(* the handlers and the pipeline share.                                    *)
(***************************************************************************)
EXTENDS Common

CONSTANTS
    Entries,     \* what can lie in the circuit folder
    Zkeys,       \* the circuits with a file <circuit>.zkey in the zkey folder
    ZkeyFolder   \* Config::zkey_folder, a path

VARIABLES
    circuit_folder,    \* the entries that are in the circuit folder
    circuit_zkey_map   \* circuit -> path of its zkey; empty before the scan

Path == [absolute : BOOLEAN, parts : Seq(STRING)]

\* An entry by what is left of its name without the last four bytes.  "cpp":
\* these were "_cpp"; "other": they were not; "unusable": there are no four
\* bytes to cut off, the cut is inside a character, or the name is not UTF-8.
\* binary: <name>_cpp/<name> exists.
Entry == [name : STRING, kind : {"cpp", "other", "unusable"}, binary : BOOLEAN]

ASSUME FolderAssumption ==
    Entries \subseteq Entry /\ Zkeys \subseteq STRING /\ ZkeyFolder \in Path

\* Path::join: an absolute path replaces what it is joined to.
Join(p, q) ==
    IF q.absolute THEN q ELSE [absolute |-> p.absolute, parts |-> p.parts \o q.parts]

\* The default of Config::zkey_folder, "./zkeys".
default_zkey_folder == [absolute |-> FALSE, parts |-> <<"zkeys">>]

ZkeyPath(circuit) == Join(ZkeyFolder, [absolute |-> FALSE, parts |-> <<circuit>>])

FileExists(path) == \E z \in Zkeys : path = ZkeyPath(z)

Names == {e.name : e \in circuit_folder}

\* The loop over the folder panics at a name it cannot cut and at a circuit
\* without a zkey.
ScanPanics ==
    \E e \in circuit_folder : e.kind = "unusable" \/ ~FileExists(ZkeyPath(e.name))

ScanFolder == circuit_zkey_map' = [n \in Names |-> ZkeyPath(n)]

\* Mutant: the paths are put together as strings, "{}/{}".
zkey_file_path_Formatted(circuit) ==
    [absolute |-> ZkeyFolder.absolute,
     parts |-> ZkeyFolder.parts \o circuit_zkey_map[circuit].parts]

\* The path a witness task hands to the prover: the path in the map, which
\* contains the zkey folder, joined to the zkey folder once more.
zkey_file_path(circuit) == Join(ZkeyFolder, circuit_zkey_map[circuit])

\* The witness generator looks for <circuit>_cpp/<circuit>, now and not when
\* the server started.
HasBinary(circuit) ==
    \E e \in circuit_folder : e.name = circuit /\ e.kind = "cpp" /\ e.binary

\* Somebody installs or removes circuits.
ChangeFolder ==
    /\ "folder" \in Faults
    /\ circuit_folder' \in SUBSET Entries
    /\ UNCHANGED circuit_zkey_map

FolderTypeOK ==
    /\ circuit_folder \subseteq Entries
    /\ DOMAIN circuit_zkey_map \subseteq {e.name : e \in Entries}
    /\ circuit_zkey_map \in [DOMAIN circuit_zkey_map -> Path]

\* The state once the server has started, for the components on their own.
ScannedInit ==
    /\ circuit_folder \in SUBSET Entries
    /\ ~ScanPanics
    /\ circuit_zkey_map = [n \in Names |-> ZkeyPath(n)]
=============================================================================
