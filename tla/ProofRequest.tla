---------------------------- MODULE ProofRequest ----------------------------
(***************************************************************************)
(* src/types.rs, the build-feature gate of submit_request and what it      *)
(* copies from a request into the row.                                     *)
(***************************************************************************)
EXTENDS Common

CONSTANTS
    Features,   \* the cargo features the server was built with
    I32Max      \* the largest i32, 2^31 - 1 in the code

ASSUME RequestAssumption ==
    /\ Features \subseteq {"register", "dsc", "disclose", "cherrypick"}
    /\ I32Max \in Nat \ {0}

\* The variants of ProofRequest by the feature that admits them.
Variants == [register |-> {"register", "register_id", "register_aadhaar", "register_kyc"},
             dsc      |-> {"dsc", "dsc_id"},
             disclose |-> {"disclose", "disclose_id", "disclose_aadhaar", "disclose_kyc"}]

ProofTypes == UNION {Variants[f] : f \in DOMAIN Variants}

Discloses(type) == type \in Variants["disclose"]

Allowed(type) ==
    \E f \in DOMAIN Variants : type \in Variants[f] /\ Features \cap {f, "cherrypick"} # {}

U32 == 0..(2 * I32Max + 1)
I32 == (-I32Max - 1)..I32Max

\* What decryption can yield: bytes that are not UTF-8, text that is not a
\* SubmitRequest, or a request.  endpoint tells whether it names an endpoint,
\* version is None when it is left out, "fits" tells whether the values fit the
\* columns of the table, "inputs" whether the circuit inputs fit in one write
\* of tokio's file buffer (2 MiB).
Body == [form : {"binary", "text", "request"}, type : ProofTypes, circuit : STRING,
         inputs : {"small", "large"}, endpoint : BOOLEAN, version : U32 \cup {None},
         fits : BOOLEAN]

\* serde: a request to disclose must name its endpoint, the others may.
Parses(body) == body.form = "request" /\ (Discloses(body.type) => body.endpoint)

\* ... and may leave out its version, for which default_version stands in.
default_version == 1
Version(body) == IF body.version = None THEN default_version ELSE body.version

\* The code of a proof type in the table, and what a reader takes it for.
into_i32 == [register |-> 0, dsc |-> 1, disclose |-> 2, register_id |-> 3, dsc_id |-> 4,
             disclose_id |-> 5, register_aadhaar |-> 6, disclose_aadhaar |-> 7,
             register_kyc |-> 8, disclose_kyc |-> 9]

try_from(code) ==
    <<"register", "dsc", "disclose", "register_id", "dsc_id", "disclose_id",
      "register_aadhaar", "disclose_aadhaar", "register_kyc", "disclose_kyc">>[code + 1]

\* Mutant: a conversion that stops at the largest i32.
as_i32_Saturating(v) == IF v <= I32Max THEN v ELSE I32Max

\* "as" keeps the bits: the upper half of u32 becomes the negative i32.
as_i32(v) == IF v <= I32Max THEN v ELSE v - 2 * (I32Max + 1)
as_u32(v) == IF v >= 0 THEN v ELSE v + 2 * (I32Max + 1)

\* The columns submit_request fills in from the request; only a request to
\* disclose has a version of its own.
Metadata == [proof_type : 0..9, version : I32, endpoint : BOOLEAN]

metadata(body) ==
    [proof_type |-> into_i32[body.type],
     version |-> IF Discloses(body.type) THEN as_i32(Version(body)) ELSE 1,
     endpoint |-> body.endpoint]
=============================================================================
