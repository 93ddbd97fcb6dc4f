------------------------------ MODULE Channels ------------------------------
(***************************************************************************)
(* The three bounded tokio mpsc channels main.rs creates.  Messages carry  *)
(* the uuid; "id" is the call they stem from, which the program does not   *)
(* store but which tells apart two jobs of one uuid.                       *)
(***************************************************************************)
EXTENDS CircuitFolder

CONSTANT ChannelCapacity   \* 10 in main.rs

ASSUME ChannelAssumption == ChannelCapacity \in Nat \ {0}

VARIABLES fileCh, witnessCh, proofCh

FileGenerator == [id : Calls, uuid : Uuids, circuit : STRING, inputs : {"small", "large"}]
WitnessGenerator == [id : Calls, uuid : Uuids, circuit : STRING \cup {None}]
ProofGenerator == [id : Calls, uuid : Uuids, zkey : Path \cup {None}]

ChannelsInit == fileCh = <<>> /\ witnessCh = <<>> /\ proofCh = <<>>

\* Mutants: one permit too many, one too few.
HasPermitOneMore(ch) == Len(ch) <= ChannelCapacity
HasPermitOneLess(ch) == Len(ch) + 1 < ChannelCapacity

\* send().await completes only while the channel has a free permit.
HasPermit(ch) == Len(ch) < ChannelCapacity

ChannelsTypeOK ==
    /\ fileCh \in Seq(FileGenerator)
    /\ witnessCh \in Seq(WitnessGenerator)
    /\ proofCh \in Seq(ProofGenerator)
    /\ \A ch \in {Len(fileCh), Len(witnessCh), Len(proofCh)} : ch <= ChannelCapacity
=============================================================================
