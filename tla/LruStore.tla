------------------------------ MODULE LruStore ------------------------------
(***************************************************************************)
(* src/store.rs: the key agreements between hello and submit_request, an   *)
(* LRU cache behind one tokio Mutex.  No operation awaits while it holds   *)
(* the lock, so each is one step.  The cache is the sequence of its        *)
(* entries, the most recently used first.                                  *)
(***************************************************************************)
EXTENDS Common, SequencesExt

CONSTANT StoreSize   \* capacity of the cache (1000 in main.rs)

ASSUME StoreSizeAssumption == StoreSize \in Nat \ {0}

VARIABLE ecdh_store

Agreement == [uuid : Uuids, secret : Calls]

StoreInit == ecdh_store = <<>>

Holds(u) == \E i \in DOMAIN ecdh_store : ecdh_store[i].uuid = u

Slot(u) == CHOOSE i \in DOMAIN ecdh_store : ecdh_store[i].uuid = u

SharedSecret(u) == IF Holds(u) THEN ecdh_store[Slot(u)].secret ELSE None

\* Mutant: a cache that never gives anything up.
RoomUnbounded == ecdh_store

\* What is left of the cache once LruCache::put has made room for one entry:
\* a full cache gives up its last, least recently used, entry.
Room == IF Len(ecdh_store) >= StoreSize THEN Front(ecdh_store) ELSE ecdh_store

\* Mutant: without the test, put replaces the entry stored under the same uuid.
insert_new_agreement_Replacing(u, s, ok) ==
    /\ ok
    /\ ecdh_store' = <<[uuid |-> u, secret |-> s]>>
                     \o (IF Holds(u) THEN RemoveAt(ecdh_store, Slot(u)) ELSE Room)

\* A new agreement never replaces the one stored under the same uuid.
insert_new_agreement(u, s, ok) ==
    /\ ok = ~Holds(u)
    /\ ecdh_store' = IF ok THEN <<[uuid |-> u, secret |-> s]>> \o Room
                           ELSE ecdh_store

\* Mutant: the entry found is put first but stays in its old place as well.
get_shared_secret_Doubling(u) ==
    ecdh_store' = IF Holds(u) THEN <<ecdh_store[Slot(u)]>> \o ecdh_store ELSE ecdh_store

\* LruCache::get makes the entry the most recently used one.
get_shared_secret(u) ==
    ecdh_store' = IF Holds(u)
                  THEN <<ecdh_store[Slot(u)]>> \o RemoveAt(ecdh_store, Slot(u))
                  ELSE ecdh_store

remove_agreement(u) ==
    ecdh_store' = IF Holds(u) THEN RemoveAt(ecdh_store, Slot(u)) ELSE ecdh_store
=============================================================================
