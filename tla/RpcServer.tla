----------------------------- MODULE RpcServer -----------------------------
(***************************************************************************)
(* src/server.rs: the handlers of hello and submit_request.  Handlers of   *)
(* many connections run concurrently; the steps of one are the stretches   *)
(* of code between its await points.  health keeps no state.               *)
(***************************************************************************)
EXTENDS LruStore, ProofsTable, Channels

CONSTANT Bodies   \* the plaintexts clients send

ASSUME BodiesAssumption == Bodies \subseteq Body /\ None \notin Bodies

VARIABLE calls   \* the state of every RPC call

\* Error answers, named after their messages, and the three good ones:
\* attested    hello: the uuid and the launcher's attestation token
\* unattested  hello: the uuid and the body of the launcher's error response
\* accepted    submit_request: the uuid
Replies == {"none", "BadPubkeyLength", "InvalidPubkey", "AttestationError", "UuidExists",
            "BadNonceLength", "BadTagLength", "UuidNotFound", "DecryptFailed",
            "ParseFailed", "TypeNotAllowed", "CircuitNotFound", "CouldNotCreate",
            "attested", "unattested", "accepted"}

\* The await point a handler is at; "dropped" when its future was dropped.
HelloAwaits == {"attest", "insert"}
SubmitAwaits == {"lookup", "create", "send", "remove"}
Awaits == HelloAwaits \cup SubmitAwaits

\* key is the secret the client encrypted under (None: not one of ours), used
\* the agreement get_shared_secret returned, reply the answer decided so far.
Call == [pc : Awaits \cup {"idle", "replied", "dropped"}, uuid : Uuids \cup {None},
         key : Calls \cup {None}, body : Bodies \cup {None},
         used : Calls \cup {None}, reply : Replies]

IdleCall == [pc |-> "idle", uuid |-> None, key |-> None, body |-> None,
             used |-> None, reply |-> "none"]

RpcInit ==
    /\ StoreInit
    /\ TableInit
    /\ ChannelsInit
    /\ calls = [c \in Calls |-> IdleCall]

\* Every variable has its type, and a handler has the values it works with.
RpcTypeOK ==
    /\ ecdh_store \in Seq(Agreement)
    /\ Len(ecdh_store) <= StoreSize
    /\ proofs \in [Uuids -> Row]
    /\ notified \in [Uuids -> Seq(Pending..Failed)]
    /\ calls \in [Calls -> Call]
    /\ \A c \in Calls : /\ calls[c].pc = "idle" => calls[c].uuid = None
                        /\ calls[c].pc \in Awaits => calls[c].uuid \in Uuids
                        /\ calls[c].pc \in SubmitAwaits => calls[c].body \in Bodies

At(c, pc) == calls[c].pc = pc
Goto(c, pc, reply) == calls' = [calls EXCEPT ![c].pc = pc, ![c].reply = reply]
Answered(c, reply) == At(c, "replied") /\ calls[c].reply = reply

----------------------------------------------------------------------------
(* hello *)

\* A public key of the wrong length, or one that is no point of the curve.
HelloRefused(c, refusal) ==
    /\ At(c, "idle")
    /\ Goto(c, "replied", refusal)
    /\ UNCHANGED <<ecdh_store, proofs, notified, fileCh>>

\* A good public key; the handler asks the launcher for an attestation token.
Hello(c, u) ==
    /\ At(c, "idle")
    /\ calls' = [calls EXCEPT ![c].pc = "attest", ![c].uuid = u]
    /\ UNCHANGED <<ecdh_store, proofs, notified, fileCh>>

\* What asking the launcher can come to.  The HTTP status of its answer is not
\* looked at, so the body of an error is returned like a token.
get_custom_token_bytes ==
    {"attested"} \cup (IF "attestation" \in Faults THEN {"unattested", "AttestationError"} ELSE {})

Attest(c) ==
    /\ At(c, "attest")
    /\ \E result \in get_custom_token_bytes :
          Goto(c, IF result = "AttestationError" THEN "replied" ELSE "insert", result)
    /\ UNCHANGED <<ecdh_store, proofs, notified, fileCh>>

InsertAgreement(c) ==
    /\ At(c, "insert")
    /\ \E ok \in BOOLEAN :
          /\ insert_new_agreement(calls[c].uuid, c, ok)
          /\ Goto(c, "replied", IF ok THEN calls[c].reply ELSE "UuidExists")
    /\ UNCHANGED <<proofs, notified, fileCh>>

----------------------------------------------------------------------------
(* submit_request *)

\* A client can encrypt under an agreed secret once it has the server's public
\* key, which only an attestation token gives it.
KeysKnown == {h \in Calls : Answered(h, "attested")} \cup {None}

\* A nonce or an authentication tag of the wrong length: the agreement stays.
SubmitRefused(c, refusal) ==
    /\ At(c, "idle")
    /\ Goto(c, "replied", refusal)
    /\ UNCHANGED <<ecdh_store, proofs, notified, fileCh>>

Submit(c, u, key, body) ==
    /\ At(c, "idle")
    /\ calls' = [calls EXCEPT ![c].pc = "lookup", ![c].uuid = u, ![c].key = key,
                              ![c].body = body]
    /\ UNCHANGED <<ecdh_store, proofs, notified, fileCh>>

\* AES-GCM opens only what was sealed under the same key, and the plaintext has
\* to be UTF-8.
decrypt(secret, key, body) == secret = key /\ body.form # "binary"

\* Mutants: a plaintext whose authentication failed is used all the same, and a
\* circuit is not looked up in the map.
VerdictUnauthenticated(secret, key, body) ==
    IF secret = None THEN "UuidNotFound" ELSE "accepted"
VerdictAnyCircuit(secret, key, body) ==
    IF secret = None \/ secret # key THEN "DecryptFailed" ELSE "accepted"

\* Decryption, parsing and the checks on the request.  The secret always has
\* 32 bytes, so the conversion to [u8; 32] cannot fail.
Verdict(secret, key, body) ==
    IF secret = None THEN "UuidNotFound"
    ELSE IF ~decrypt(secret, key, body) THEN "DecryptFailed"
    ELSE IF ~Parses(body) THEN "ParseFailed"
    ELSE IF ~Allowed(body.type) THEN "TypeNotAllowed"
    ELSE IF body.circuit \notin DOMAIN circuit_zkey_map THEN "CircuitNotFound"
    ELSE "accepted"

\* Mutant: a refusal returns without removing the agreement.
AfterKeeping(verdict, next) == IF verdict = "accepted" THEN next ELSE "replied"

\* Where the handler goes on once a result is known: every refusal after the
\* lookup, and the success, first removes the agreement.
After(verdict, next) == IF verdict = "accepted" THEN next ELSE "remove"

Lookup(c) ==
    LET secret == SharedSecret(calls[c].uuid)
        verdict == Verdict(secret, calls[c].key, calls[c].body)
    IN  /\ At(c, "lookup")
        /\ get_shared_secret(calls[c].uuid)
        /\ calls' = [calls EXCEPT ![c].pc = After(verdict, "create"), ![c].reply = verdict,
                                  ![c].used = secret]
        /\ UNCHANGED <<proofs, notified, fileCh>>

\* Mutant: the result of create_proof_status is ignored.
CreateRowIgnored(c) ==
    /\ At(c, "create")
    /\ \E ok \in BOOLEAN : create_proof_status(calls[c].uuid, c, metadata(calls[c].body),
                                               calls[c].body.fits, ok)
    /\ Goto(c, "send", "accepted")
    /\ UNCHANGED <<ecdh_store, fileCh>>

CreateRow(c) ==
    /\ At(c, "create")
    /\ \E ok \in BOOLEAN :
          LET verdict == IF ok THEN "accepted" ELSE "CouldNotCreate"
          IN  /\ create_proof_status(calls[c].uuid, c, metadata(calls[c].body),
                                     calls[c].body.fits, ok)
              /\ Goto(c, After(verdict, "send"), verdict)
    /\ UNCHANGED <<ecdh_store, fileCh>>

\* Mutants: try_send, with its error answered to the client or ignored.
TrySend(c, reply) ==
    /\ At(c, "send")
    /\ fileCh' = IF HasPermit(fileCh)
                 THEN Append(fileCh, [id |-> c, uuid |-> calls[c].uuid,
                                      circuit |-> calls[c].body.circuit,
                                      inputs |-> calls[c].body.inputs])
                 ELSE fileCh
    /\ Goto(c, "remove", IF HasPermit(fileCh) THEN "accepted" ELSE reply)
    /\ UNCHANGED <<ecdh_store, proofs, notified>>
SendJobTry(c) == TrySend(c, "CouldNotCreate")
SendJobDropped(c) == TrySend(c, "accepted")

\* The receiver lives as long as the process, so send only ever waits.
SendJob(c) ==
    /\ At(c, "send")
    /\ HasPermit(fileCh)
    /\ fileCh' = Append(fileCh, [id |-> c, uuid |-> calls[c].uuid,
                                 circuit |-> calls[c].body.circuit,
                                 inputs |-> calls[c].body.inputs])
    /\ Goto(c, "remove", calls[c].reply)
    /\ UNCHANGED <<ecdh_store, proofs, notified>>

RemoveAgreement(c) ==
    /\ At(c, "remove")
    /\ remove_agreement(calls[c].uuid)
    /\ Goto(c, "replied", calls[c].reply)
    /\ UNCHANGED <<proofs, notified, fileCh>>

----------------------------------------------------------------------------
\* The connection closes: the handler's future is dropped where it awaits.
Disconnect(c) ==
    /\ "disconnect" \in Faults
    /\ calls[c].pc \in Awaits
    /\ Goto(c, "dropped", calls[c].reply)
    /\ UNCHANGED <<ecdh_store, proofs, notified, fileCh>>

\* What clients do.
ClientStep(c) ==
    \/ \E r \in {"BadPubkeyLength", "InvalidPubkey"} : HelloRefused(c, r)
    \/ \E u \in Uuids : Hello(c, u)
    \/ \E r \in {"BadNonceLength", "BadTagLength"} : SubmitRefused(c, r)
    \/ \E u \in Uuids, k \in KeysKnown, b \in Bodies : Submit(c, u, k, b)
    \/ Disconnect(c)

\* What the handlers do.
HandlerStep(c) ==
    \/ Attest(c)
    \/ InsertAgreement(c)
    \/ Lookup(c)
    \/ CreateRow(c)
    \/ SendJob(c)
    \/ RemoveAgreement(c)

----------------------------------------------------------------------------
(* The handlers on their own: the file loop only takes jobs off its channel. *)

restOfServer == <<witnessCh, proofCh, circuit_folder, circuit_zkey_map>>

rpcVars == <<ecdh_store, proofs, notified, fileCh, calls, restOfServer>>

RpcAloneInit == RpcInit /\ ScannedInit

Drain ==
    /\ fileCh # <<>>
    /\ fileCh' = Tail(fileCh)
    /\ UNCHANGED <<ecdh_store, proofs, notified, calls>>

\* No client calls any more and every handler has returned.
RpcQuiet ==
    /\ fileCh = <<>>
    /\ \A c \in Calls : calls[c].pc \in {"replied", "dropped"}
    /\ UNCHANGED <<ecdh_store, proofs, notified, calls, fileCh>>

RpcNext ==
    /\ \/ \E c \in Calls : ClientStep(c)
       \/ \E c \in Calls : HandlerStep(c)
       \/ Drain
       \/ RpcQuiet
    /\ UNCHANGED restOfServer

\* Clients may stay silent; the runtime polls every handler that can go on.
RpcFairness ==
    /\ \A c \in Calls : WF_rpcVars(HandlerStep(c) /\ UNCHANGED restOfServer)
    /\ WF_rpcVars(Drain /\ UNCHANGED restOfServer)

RpcSpec == RpcAloneInit /\ [][RpcNext]_rpcVars /\ RpcFairness

----------------------------------------------------------------------------
(* Properties *)

Inserted(h) == Answered(h, "attested") \/ Answered(h, "unattested")

\* The agreements in the store behave as Sessions promises: no hello puts its
\* own in the place of another's, although it learns only after the attestation
\* that the uuid is taken; one is given up early only for want of room; and one
\* that is gone does not come back.
Agreements == INSTANCE Sessions WITH
    Names <- Uuids, Secrets <- Calls, Limit <- StoreSize, Nothing <- None,
    session <- [u \in Uuids |-> SharedSecret(u)],
    spent <- {h \in Calls : Inserted(h) /\ \A i \in DOMAIN ecdh_store : ecdh_store[i].secret # h}

AgreementsAreSessions == Agreements!SessionsSpec

\* A client that encrypts under its own agreement is not understood only when
\* somebody else submitted under its uuid, who then used up or removed the
\* agreement, or when as many other clients said hello as the store has room for.
OwnSessionUnderstood ==
    \A c \in Calls : Answered(c, "UuidNotFound") \/ Answered(c, "DecryptFailed") =>
        LET u == calls[c].uuid
            h == calls[c].key
        IN  h # None /\ calls[h].uuid = u /\ calls[c].body.form # "binary" =>
              \/ \E d \in Calls \ {c} : calls[d].uuid = u /\ calls[d].body # None
              \/ Cardinality({g \in Calls : Inserted(g) /\ calls[g].uuid # u}) >= StoreSize

\* Once submit_request has answered, the agreement it decrypted with is gone
\* from the store: no later call can be served with the same secret, even when
\* other handlers of the uuid inserted or removed agreements meanwhile.
AgreementConsumed ==
    \A c \in Calls : At(c, "replied") =>
        \A i \in DOMAIN ecdh_store : ecdh_store[i].secret # calls[c].used

\* A row exists only for a request that was encrypted under the secret agreed
\* by a hello for the very same uuid whose client got the attestation token.
RowHasAgreement ==
    \A u \in Uuids : Exists(u) =>
        LET c == proofs[u].owner
            h == calls[c].key
        IN  calls[c].uuid = u /\ h # None /\ calls[h].uuid = u /\ Answered(h, "attested")

\* Whoever reads a row finds in it what the client of the call that created it
\* asked for: codes and the reinterpreted version can be turned back, and
\* submissions that race for the uuid do not mix.
RowDescribesRequest ==
    \A u \in Uuids : Exists(u) =>
        LET body == calls[proofs[u].owner].body
            row == proofs[u].request
        IN  /\ try_from(row.proof_type) = body.type
            /\ row.endpoint = body.endpoint
            /\ Discloses(body.type) => as_u32(row.version) = Version(body)

\* An accepted submission is the one whose request is in the table: of several
\* racing submissions for a uuid at most one is told it was accepted.
AcceptedOwnsRow ==
    \A c \in Calls : Answered(c, "accepted") => proofs[calls[c].uuid].owner = c

\* A client that is told its submission was refused left no row behind.
RefusedLeavesNoRow ==
    \A c \in Calls : At(c, "replied") /\ calls[c].reply # "accepted" =>
        \A u \in Uuids : proofs[u].owner # c

\* While the database works, a request whose values fit the columns is refused
\* by create_proof_status only because its uuid was submitted before.
RefusedOnlyOnReuse ==
    \A c \in Calls : Answered(c, "CouldNotCreate") /\ calls[c].body.fits =>
        Exists(calls[c].uuid) /\ proofs[calls[c].uuid].owner # c

\* Every handler returns as long as the file loop takes jobs off its channel.
HandlersReturn ==
    \A c \in Calls : calls[c].pc \in Awaits ~> calls[c].pc \in {"replied", "dropped"}
=============================================================================
