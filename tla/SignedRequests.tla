---------------------------- MODULE SignedRequests ----------------------------
(***************************************************************************)
(* verify_request of verification.py with its MemoryNonceStore, called by   *)
(* several verifiers of one process.  A caller reads the clock, hands the   *)
(* reading to verify_request, and the nonce is reserved later under that    *)
(* same reading, while the clock moves on and other verifiers purge.        *)
(*                                                                          *)
(* Identifiers and nonces are sequences of characters, because the key of   *)
(* the store is their concatenation.  A signature is the key that made it   *)
(* and the canonical fields it covers: Ed25519 and the injectivity of the   *)
(* canonical JSON are assumed.                                              *)
(***************************************************************************)
EXTENDS Integers, Sequences

CONSTANTS
    Verifier,           \* concurrent calls of verify_request
    Raw,                \* JSON objects presented as requests, any number of times
    Credential,         \* credentials a caller may pass
    NoCredential,       \* None
    NoCall,             \* a verifier without a call
    Character,          \* the characters of identifiers and nonces
    Colon,              \* the separator of a nonce key
    MaxIdentifier,      \* MAX_IDENTIFIER_LENGTH
    MinNonce, MaxNonce, \* MIN_NONCE_LENGTH, MAX_NONCE_LENGTH
    MaxArguments,       \* MAX_ARGUMENT_BYTES
    Skew,               \* max_skew_seconds
    TTL,                \* nonce_ttl_seconds
    Lateness,           \* the longest a call takes from its clock reading to its reservation
    MaxTime             \* bound on the clock

\* verify_request raises unless the lifetime covers twice the skew.
ASSUME TimingAssumption ==
    /\ Skew \in Nat /\ TTL \in Nat /\ Lateness \in Nat /\ MaxTime \in Nat
    /\ TTL >= 2 * Skew

VARIABLES
    clock,          \* the time callers read
    expirations,    \* the nonce store: key to expiry
    call,           \* call[v]: the request, credential and clock reading of v's
                    \* call, and its answer ("" while the nonce is not reserved)
    verified        \* requests answered "verified" by this process

vars == <<clock, expirations, call, verified>>

------------------------------------------------------------------------------
RequestFields == {"agent_id", "session_id", "tool_name", "tool_args", "timestamp",
                  "nonce", "signature"}

\* SignedToolRequest.from_dict: the exact fields, within their bounds
Parses(raw) ==
    /\ DOMAIN raw = RequestFields
    /\ raw.timestamp >= 0
    /\ Len(raw.agent_id) \in 1..MaxIdentifier
    /\ Len(raw.nonce) \in MinNonce..MaxNonce
    /\ Len(raw.tool_args) <= MaxArguments

Request == {raw \in Raw : Parses(raw)}

\* from_dict's types
ASSUME RequestAssumption ==
    \A r \in Request : /\ r.timestamp \in Nat
                       /\ r.agent_id \in Seq(Character) /\ r.nonce \in Seq(Character)

Answer == {"", "verified", "replay_detected", "unknown_agent", "agent_not_active",
           "stale_timestamp", "invalid_signature"}

Call == [request : Request, credential : Credential \cup {NoCredential},
         now : 0..MaxTime, answer : Answer]

ASSUME NoCallAssumption == NoCall \notin Call

\* AgentCredential.from_dict
CredentialParses(c) ==
    /\ DOMAIN c = {"agent_id", "status", "public_key", "key_version"}
    /\ c.key_version >= 1
    /\ Len(c.agent_id) \in 1..MaxIdentifier

\* canonical_request: every field but the signature
Canonical(r) == [field \in RequestFields \ {"signature"} |-> r[field]]

\* Mutated form: the signature is not checked against the arguments.
SignatureIgnoringArguments(r, credential) ==
    r.signature.key = credential.public_key

\* _verified_signature
VerifiedSignature(r, credential) ==
    r.signature = [key |-> credential.public_key, over |-> Canonical(r)]

WithinSkew(r, now) == now - r.timestamp <= Skew /\ r.timestamp - now <= Skew

\* The checks of verify_request before the nonce, in their order; "" passes.
Refusal(r, credential, now) ==
    IF credential = NoCredential \/ credential.agent_id # r.agent_id THEN "unknown_agent"
    ELSE IF credential.status # "active" THEN "agent_not_active"
    ELSE IF ~ WithinSkew(r, now) THEN "stale_timestamp"
    ELSE IF ~ VerifiedSignature(r, credential) THEN "invalid_signature"
    ELSE ""

\* Mutated form: the nonce alone is the key.
KeyWithoutAgent(r) == r.nonce

NonceKey(r) == r.agent_id \o <<Colon>> \o r.nonce

\* Mutated form: an entry is purged one second early.
PurgedEarly(now) ==
    [k \in {k \in DOMAIN expirations : expirations[k] > now + 1} |-> expirations[k]]

\* The entries that reserve keeps
Unexpired(now) ==
    [k \in {k \in DOMAIN expirations : expirations[k] > now} |-> expirations[k]]

Expiry(now) == now + TTL

Init ==
    /\ clock = 0
    /\ expirations = << >>
    /\ call = [v \in Verifier |-> NoCall]
    /\ verified = {}

------------------------------------------------------------------------------
\* A caller reads the clock and calls verify_request, which checks everything
\* but the nonce; an object that does not parse raises and leaves no call.
Receive(v, r, credential) ==
    /\ call[v] = NoCall
    /\ Parses(r)
    /\ credential # NoCredential => CredentialParses(credential)
    /\ call' = [call EXCEPT ![v] =
                  [request |-> r, credential |-> credential, now |-> clock,
                   answer |-> Refusal(r, credential, clock)]]
    /\ UNCHANGED <<clock, expirations, verified>>

Pending(v) == call[v] # NoCall /\ call[v].answer = ""

\* Mutated form: a key still present is not refused.
ReserveUnconditionally(v) ==
    /\ Pending(v)
    /\ LET r == call[v].request
           kept == Unexpired(call[v].now)
       IN  /\ call' = [call EXCEPT ![v].answer = "verified"]
           /\ expirations' = [k \in DOMAIN kept \cup {NonceKey(r)} |->
                                IF k = NonceKey(r) THEN Expiry(call[v].now) ELSE kept[k]]
           /\ verified' = verified \cup {r}
    /\ UNCHANGED clock

\* reserve: purge under this call's reading, refuse a key still present, else
\* keep it until reading + lifetime.
Reserve(v) ==
    /\ Pending(v)
    /\ LET r == call[v].request
           kept == Unexpired(call[v].now)
       IN  IF NonceKey(r) \in DOMAIN kept
           THEN /\ call' = [call EXCEPT ![v].answer = "replay_detected"]
                /\ expirations' = kept
                /\ UNCHANGED verified
           ELSE /\ call' = [call EXCEPT ![v].answer = "verified"]
                /\ expirations' = [k \in DOMAIN kept \cup {NonceKey(r)} |->
                                     IF k = NonceKey(r) THEN Expiry(call[v].now) ELSE kept[k]]
                /\ verified' = verified \cup {r}
    /\ UNCHANGED clock

\* verify_request returns
Return(v) ==
    /\ call[v] # NoCall /\ ~ Pending(v)
    /\ call' = [call EXCEPT ![v] = NoCall]
    /\ UNCHANGED <<clock, expirations, verified>>

\* Time passes, but no further than Lateness beyond the reading of a call that
\* has yet to reserve.
Tick ==
    /\ clock < MaxTime
    /\ \A v \in Verifier : Pending(v) => clock + 1 <= call[v].now + Lateness
    /\ clock' = clock + 1
    /\ UNCHANGED <<expirations, call, verified>>

\* The process is started again with a new MemoryNonceStore; what it remembers
\* of earlier requests is gone and this history with it.
Restart ==
    /\ expirations' = << >>
    /\ call' = [v \in Verifier |-> NoCall]
    /\ verified' = {}
    /\ UNCHANGED clock

Next ==
    \/ \E v \in Verifier :
         \/ \E r \in Raw, credential \in Credential \cup {NoCredential} :
              Receive(v, r, credential)
         \/ Reserve(v)
         \/ Return(v)
    \/ Tick
    \/ Restart

Spec == Init /\ [][Next]_vars

------------------------------------------------------------------------------
\* Within one process a request is answered "verified" once, however often and
\* by whichever verifiers it is presented: no purge makes its nonce usable
\* again while its timestamp is still accepted (verification.py:173, 238, 248).
VerifiedOnce ==
    [][\A v \in Verifier :
         Pending(v) /\ call'[v] # NoCall /\ call'[v].answer = "verified"
             => call[v].request \notin verified]_vars

\* A request is called a replay only when this process has verified one of the
\* same agent with the same nonce (identifiers without the separator: with it,
\* two agents may share a key).
ReplayHasOriginal ==
    \A v \in Verifier :
      call[v] # NoCall /\ call[v].answer = "replay_detected" =>
         \E r \in verified : /\ r.agent_id = call[v].request.agent_id
                             /\ r.nonce = call[v].request.nonce
==============================================================================
