---------------------------- MODULE VerifiedFetch ----------------------------
(***************************************************************************)
(* swarm/src/index.js: verified reads from a Swarm gateway that may answer *)
(* with anything.  A hash is an injective function and is written as the   *)
(* tuple of what is hashed; a signature is the record of who signed what.  *)
(* The gateway may cut a chunk apart and recombine it, but not sign.       *)
(***************************************************************************)
EXTENDS FiniteSets

CONSTANTS
    Owner,       \* holders of a signing key
    Nobody,      \* what ecrecover yields for a signature over something else
    Identifier,  \* 32-byte identifiers of single-owner chunks
    Payload,     \* contents
    NotJson,     \* those of them that JSON.parse refuses
    NoResult     \* nothing read yet, or the read threw

ASSUME FetchAssumption == Nobody \notin Owner /\ NotJson \subseteq Payload

VARIABLES
    pinned,   \* payloads uploaded with pinImmutable
    signed,   \* signatures made by pinSoc: [by, identifier, payload]
    read      \* the last verified result, with what was asked for

fetchVars == <<pinned, signed, read>>

FetchInit == pinned = {} /\ signed = {} /\ read = NoResult

(***************************************************************************)
(* References.                                                             *)
(***************************************************************************)
\* The spellings of a reference, and those parseBzzRef throws on.
Spelling == {"bare", "bzz://", "https gateway", "0x", "encrypted", "short"}
Root(p)  == <<"bmt", p>>
parseBzzRef(spelling, root) ==
    IF spelling \in {"encrypted", "short"} THEN NoResult ELSE root

pinImmutable(p) == pinned' = pinned \cup {p} /\ UNCHANGED <<signed, read>>

VerifyCac(root, bytes) == Root(bytes) = root

Parses(json, bytes) == json => bytes \notin NotJson

\* verifyAndFetch and verifyAndFetchJson; the gateway answers with `bytes`.
verifyAndFetch(spelling, p, bytes, json) ==
    /\ LET root == parseBzzRef(spelling, Root(p))
       IN  read' = IF root # NoResult /\ VerifyCac(root, bytes) /\ Parses(json, bytes)
                   THEN [kind |-> "cac", asked |-> Root(p), payload |-> bytes]
                   ELSE NoResult
    /\ UNCHANGED <<pinned, signed>>

(***************************************************************************)
(* Single-owner chunks.                                                    *)
(***************************************************************************)
SocAddress(identifier, owner) == <<"soc", identifier, owner>>

\* Any chunk the gateway can put together from the signatures it has seen.
Chunk == [identifier : Identifier, signature : signed, payload : Payload]

Recovered(c) ==
    IF c.signature.identifier = c.identifier /\ c.signature.payload = c.payload
    THEN c.signature.by ELSE Nobody

pinSoc(o, i, p) ==
    /\ signed' = signed \cup {[by |-> o, identifier |-> i, payload |-> p]}
    /\ UNCHANGED <<pinned, read>>

\* Faulty variant of verifySocChunk: the address is made of the claimed identifier
\* and of the key in the signature, without recovering the key from the payload.
ClaimedSigner(c, expected) == SocAddress(c.identifier, c.signature.by) = expected
verifySocChunk(c, expected) == SocAddress(c.identifier, Recovered(c)) = expected

\* verifyAndFetchSoc, ...SocJson: the chunk, then the owner it recovers to.
verifyAndFetchSoc(o, i, c, json) ==
    /\ read' = IF verifySocChunk(c, SocAddress(i, o)) /\ Parses(json, c.payload)
               THEN [kind |-> "soc", asked |-> SocAddress(i, o), payload |-> c.payload]
               ELSE NoResult
    /\ UNCHANGED <<pinned, signed>>

\* The gateway answers with a failure, or the request does not come through.
GatewayFails == read' = NoResult /\ UNCHANGED <<pinned, signed>>

FetchNext ==
    \/ \E p \in Payload : pinImmutable(p)
    \/ \E o \in Owner, i \in Identifier, p \in Payload : pinSoc(o, i, p)
    \/ \E s \in Spelling, p \in pinned, b \in Payload, json \in BOOLEAN :
          verifyAndFetch(s, p, b, json)
    \/ \E o \in Owner, i \in Identifier, c \in Chunk, json \in BOOLEAN :
          verifyAndFetchSoc(o, i, c, json)
    \/ GatewayFails

FetchSpec == FetchInit /\ [][FetchNext]_fetchVars

\* Types of what was pinned, signed and read.
FetchTypeOK ==
    /\ pinned \subseteq Payload
    /\ signed \subseteq [by : Owner, identifier : Identifier, payload : Payload]
    /\ read = NoResult \/ read.payload \in Payload

\* Whatever the gateway answers (index.js:90-108, 199-282), a read that returns
\* returns the payload of the reference asked for, or one that the owner asked for
\* signed for the identifier asked for -- though not always its latest.
VerifiedIsAuthentic ==
    read # NoResult =>
        \/ read.kind = "cac" /\ read.payload \in pinned /\ read.asked = Root(read.payload)
        \/ /\ read.kind = "soc"
           /\ \E s \in signed : /\ s.payload = read.payload
                                /\ read.asked = SocAddress(s.identifier, s.by)
=============================================================================
