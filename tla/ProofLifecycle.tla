--------------------------- MODULE ProofLifecycle ---------------------------
(***************************************************************************)
(* What the server promises to whoever watches the table: the status of a  *)
(* request only moves forward, each move is announced once, and Failed is  *)
(* the end.  The README tells clients to poll, or listen for, just this.   *)
(***************************************************************************)
EXTENDS Integers, Sequences

CONSTANT Requests

VARIABLES
    status,   \* request -> its status, -1 before it has a row
    told      \* request -> the statuses announced, in order

lifecycleVars == <<status, told>>

LifecycleInit ==
    /\ status = [r \in Requests |-> -1]
    /\ told = [r \in Requests |-> <<>>]

Become(r, from, to) ==
    /\ status[r] \in from
    /\ status' = [status EXCEPT ![r] = to]
    /\ told' = [told EXCEPT ![r] = Append(@, to)]

Receive(r) == Become(r, {-1}, 0)
Witness(r) == Become(r, {0}, 1)
Prove(r) == Become(r, {1}, 2)

\* A proof that was stored may still be declared failed, when the answer of
\* the database is lost.
Break(r) == Become(r, {0, 1, 2}, 3)

LifecycleNext == \E r \in Requests : Receive(r) \/ Witness(r) \/ Prove(r) \/ Break(r)

LifecycleSpec == LifecycleInit /\ [][LifecycleNext]_lifecycleVars
=============================================================================
