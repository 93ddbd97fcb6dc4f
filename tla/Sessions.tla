------------------------------ MODULE Sessions ------------------------------
(***************************************************************************)
(* What the server promises to clients about their key agreements: a name  *)
(* has at most one session, a session ends when it is used or, if there    *)
(* are too many, early, and its secret serves nobody afterwards.           *)
(***************************************************************************)
EXTENDS Integers, FiniteSets

CONSTANTS Names, Secrets, Limit, Nothing

VARIABLES
    session,   \* name -> the secret of its session, Nothing without one
    spent      \* the secrets of the sessions that are over

sessionVars == <<session, spent>>

Live == {n \in Names : session[n] # Nothing}

SessionsInit ==
    /\ session = [n \in Names |-> Nothing]
    /\ spent = {}

\* A new session ends another one only when there are as many as there may be.
Open(n, secret) ==
    /\ session[n] = Nothing
    /\ secret \notin spent /\ \A m \in Names : session[m] # secret
    /\ \E over \in SUBSET Live :
          /\ Cardinality(over) = IF Cardinality(Live) = Limit THEN 1 ELSE 0
          /\ session' = [m \in Names |-> IF m = n THEN secret
                                         ELSE IF m \in over THEN Nothing ELSE session[m]]
          /\ spent' = spent \cup {session[m] : m \in over}

Close(n) ==
    /\ n \in Live
    /\ session' = [session EXCEPT ![n] = Nothing]
    /\ spent' = spent \cup {session[n]}

SessionsNext == \E n \in Names : Close(n) \/ \E s \in Secrets : Open(n, s)

SessionsSpec == SessionsInit /\ [][SessionsNext]_sessionVars
=============================================================================
