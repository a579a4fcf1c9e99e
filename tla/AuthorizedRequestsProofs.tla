----------------------- MODULE AuthorizedRequestsProofs -----------------------
(***************************************************************************)
(* From a signed request to its decision and to the record of it, for every *)
(* set of requests and every number of concurrent calls.                    *)
(*                                                                          *)
(* Verification: a lifetime that exceeds twice the skew by more than a call *)
(* may be late is enough for a request to be verified once.  Its            *)
(* composition with the policy engines: the steps of a call are those of    *)
(* SignedRequests, a request reaches an engine once, and an "allow" rests   *)
(* on the whole chain of checks.                                            *)
(*                                                                          *)
(* The audit chain, for logs and copies of every length and after any       *)
(* number of changes to the copy: the verifier walks forward, and the       *)
(* argument walks with it.  A checked record of the copy that has the       *)
(* digest of a record of the log is that record, and so, by the link both   *)
(* digests cover, is everything before it.  It stays so while the log grows.*)
(***************************************************************************)
EXTENDS AuthorizedRequests, ToolPolicyProofs, AuditChain, SequenceTheorems, TLAPS

------------------------------------------------------------------------------
(***************************************************************************)
(* Verification (SignedRequests)                                           *)
(***************************************************************************)
\* What verify_request requires is TTL >= 2 * Skew, which is one second and the
\* lateness of a call short of this (signed_requests_edge).
LifetimeCovers == TTL > 2 * Skew + Lateness

------------------------------------------------------------------------------
(* The inductive invariant                                                  *)

TypeOK ==
    /\ clock \in Nat /\ clock <= MaxTime
    /\ expirations \in [DOMAIN expirations -> Int]
    /\ call \in [Verifier -> Call \cup {NoCall}]
    /\ verified \subseteq Request

\* A call that has yet to reserve is no later than it may be, and its request is
\* still within the skew of its own reading of the clock.
InTime(v) ==
    Pending(v) => /\ call[v].now <= clock /\ clock <= call[v].now + Lateness
                  /\ WithinSkew(call[v].request, call[v].now)

\* Readings are of the past.
ReadBefore(v) == call[v] # NoCall => call[v].now <= clock

\* The earliest expiry that the nonce of r can have been given
Until(r) == r.timestamp - Skew + TTL

\* The store holds the nonce of every verified request until then.
Held(r) ==
    \/ NonceKey(r) \in DOMAIN expirations /\ expirations[NonceKey(r)] >= Until(r)
    \/ clock >= Until(r)

\* A nonce in the store is that of a verified request, ...
Owned(k) == \E r \in verified : NonceKey(r) = k

\* ... a replay was refused because of it, and an answer "verified" is remembered.
Answered(v) ==
    call[v] # NoCall =>
      /\ call[v].answer = "replay_detected" => Owned(NonceKey(call[v].request))
      /\ call[v].answer = "verified" => call[v].request \in verified

IInv ==
    /\ TypeOK
    /\ \A v \in Verifier : InTime(v) /\ ReadBefore(v) /\ Answered(v)
    /\ \A r \in verified : Held(r)
    /\ \A k \in DOMAIN expirations : Owned(k)

------------------------------------------------------------------------------
\* Refusal answers one of the answers, passes only a timestamp within the skew,
\* and never answers what only the nonce store can.
LEMMA RefusalChecks ==
    ASSUME NEW r, NEW credential, NEW now
    PROVE  /\ Refusal(r, credential, now) \in Answer \ {"verified", "replay_detected"}
           /\ Refusal(r, credential, now) = "" => WithinSkew(r, now)
  BY DEF Refusal, Answer

\* A purge keeps exactly what has not expired at its reading.
LEMMA UnexpiredKeeps ==
    ASSUME NEW now, TypeOK
    PROVE  /\ DOMAIN Unexpired(now) = {k \in DOMAIN expirations : expirations[k] > now}
           /\ \A k \in DOMAIN Unexpired(now) : Unexpired(now)[k] = expirations[k]
  BY DEF Unexpired, TypeOK

LEMMA InitIInv == Init => IInv
  BY TimingAssumption DEF Init, IInv, TypeOK, InTime, ReadBefore, Answered, Pending

\* A call begins with a reading of the present and a request that parses.
LEMMA ReceiveStep ==
    ASSUME IInv, NEW v \in Verifier, NEW r \in Raw,
           NEW credential \in Credential \cup {NoCredential}, Receive(v, r, credential)
    PROVE  IInv'
  <1> DEFINE c == [request |-> r, credential |-> credential, now |-> clock,
                   answer |-> Refusal(r, credential, clock)]
  <1>1. c \in Call /\ c # NoCall
    <2>1. r \in Request  BY DEF Receive, Request
    <2>2. Refusal(r, credential, clock) \in Answer  BY RefusalChecks
    <2>3. clock \in 0..MaxTime  BY TimingAssumption DEF IInv, TypeOK
    <2> QED  BY <2>1, <2>2, <2>3, NoCallAssumption DEF Call
  <1>2. /\ call'[v] = c /\ \A w \in Verifier \ {v} : call'[w] = call[w]
        /\ call' \in [Verifier -> Call \cup {NoCall}]
    BY <1>1 DEF Receive, IInv, TypeOK
  <1>3. TypeOK'  BY <1>2 DEF Receive, IInv, TypeOK
  <1>4. ASSUME NEW w \in Verifier PROVE (InTime(w) /\ ReadBefore(w) /\ Answered(w))'
    <2>1. CASE w = v
      <3>1. c.answer \notin {"verified", "replay_detected"}
        BY RefusalChecks
      <3>2. c.answer = "" => WithinSkew(r, clock)
        BY RefusalChecks
      <3>3. clock \in Nat /\ clock' = clock  BY DEF Receive, IInv, TypeOK
      <3>4. InTime(w)'
        <4>1. /\ call'[w].request = r /\ call'[w].now = clock
              /\ call'[w].answer = Refusal(r, credential, clock)
          BY <1>2, <2>1
        <4>2. clock <= clock /\ clock <= clock + Lateness  BY <3>3, TimingAssumption
        <4> QED  BY <3>2, <3>3, <4>1, <4>2 DEF InTime, Pending, WithinSkew
      <3>5. (ReadBefore(w) /\ Answered(w))'
        BY <1>1, <1>2, <2>1, <3>1, <3>3 DEF ReadBefore, Answered
      <3> QED  BY <3>4, <3>5
    <2>2. CASE w # v
      BY <1>2, <2>2 DEF InTime, ReadBefore, Answered, Pending, Owned, Receive, IInv
    <2> QED  BY <2>1, <2>2
  <1> QED
    BY <1>3, <1>4 DEF IInv, Held, Owned, Receive

\* A reservation purges nothing that is still needed, and what it adds is held
\* long enough, because its reading is within the skew of the timestamp.
LEMMA ReserveStep ==
    ASSUME IInv, NEW v \in Verifier, Reserve(v)
    PROVE  IInv'
  <1> DEFINE r == call[v].request
             now == call[v].now
             kept == Unexpired(now)
             accepted == NonceKey(r) \notin DOMAIN kept
             added == [k \in DOMAIN kept \cup {NonceKey(r)} |->
                         IF k = NonceKey(r) THEN Expiry(now) ELSE kept[k]]
             answer == IF accepted THEN "verified" ELSE "replay_detected"
  <1>1. /\ call[v] \in Call /\ call[v] # NoCall /\ r \in Request /\ now \in Int
        /\ r.timestamp \in Nat /\ clock \in Nat /\ Expiry(now) \in Int
    <2>1. call[v] # NoCall  BY DEF Reserve, Pending
    <2>2. call[v] \in Call  BY <2>1 DEF IInv, TypeOK
    <2>3. r \in Request /\ now \in Int  BY <2>2, TimingAssumption DEF Call
    <2>4. r.timestamp \in Nat  BY <2>3, RequestAssumption
    <2>5. clock \in Nat /\ Expiry(now) \in Int
      BY <2>3, TimingAssumption DEF IInv, TypeOK, Expiry
    <2> QED  BY <2>1, <2>2, <2>3, <2>4, <2>5
  <1>2. now <= clock /\ WithinSkew(r, now)
    BY DEF Reserve, IInv, InTime
  <1>3. /\ call' = [call EXCEPT ![v].answer = answer]
        /\ expirations' = IF accepted THEN added ELSE kept
        /\ verified' = IF accepted THEN verified \cup {r} ELSE verified
        /\ clock' = clock
    BY DEF Reserve
  <1>4. /\ DOMAIN kept = {k \in DOMAIN expirations : expirations[k] > now}
        /\ \A k \in DOMAIN kept : kept[k] = expirations[k]
    BY UnexpiredKeeps DEF IInv
  <1> HIDE DEF kept
  <1>5. /\ call'[v] = [call[v] EXCEPT !.answer = answer]
        /\ \A w \in Verifier \ {v} : call'[w] = call[w]
    BY <1>3 DEF IInv, TypeOK
  <1>6. /\ call'[v] \in Call /\ call'[v].answer = answer
        /\ call'[v].request = r /\ call'[v].now = now
    BY <1>1, <1>5 DEF Call, Answer
  <1>7. call' \in [Verifier -> Call \cup {NoCall}]
    BY <1>3, <1>5, <1>6 DEF IInv, TypeOK
  <1>8. TypeOK'
    <2>1. expirations' \in [DOMAIN expirations' -> Int]
      <3>1. expirations \in [DOMAIN expirations -> Int]  BY DEF IInv, TypeOK
      <3>2. kept = [k \in DOMAIN kept |-> kept[k]]  BY DEF kept, Unexpired
      <3>3. \A k \in DOMAIN kept : kept[k] \in Int  BY <1>4, <3>1
      <3>4. kept \in [DOMAIN kept -> Int]  BY <3>2, <3>3
      <3>5. added \in [DOMAIN added -> Int]  BY <1>1, <3>3
      <3> QED  BY <1>3, <3>4, <3>5
    <2> QED  BY <1>1, <1>3, <1>7, <2>1 DEF IInv, TypeOK
  <1>9. ASSUME NEW q \in verified' PROVE Held(q)'
    <2>1. /\ q \in Request /\ q.timestamp \in Nat /\ Until(q) \in Int
          /\ Held(q)' <=> \/ NonceKey(q) \in DOMAIN expirations'
                             /\ expirations'[NonceKey(q)] >= Until(q)
                          \/ clock >= Until(q)
      BY <1>3, <1>8, <1>9, RequestAssumption, TimingAssumption DEF TypeOK, Held, Until, NonceKey
    <2>2. CASE q \in verified /\ NonceKey(q) \in DOMAIN kept
      <3>1. expirations'[NonceKey(q)] = expirations[NonceKey(q)] \/ NonceKey(q) = NonceKey(r)
        BY <1>3, <1>4, <2>2
      <3>2. accepted => NonceKey(q) # NonceKey(r)  BY <2>2
      <3>3. /\ NonceKey(q) \in DOMAIN expirations'
            /\ expirations'[NonceKey(q)] = expirations[NonceKey(q)]
        BY <1>3, <1>4, <2>2, <3>2
      <3> QED  BY <2>1, <2>2, <3>3 DEF IInv, Held
    <2>3. CASE q \in verified /\ NonceKey(q) \notin DOMAIN kept
      <3>1. NonceKey(q) \notin DOMAIN expirations
              \/ (expirations[NonceKey(q)] \in Int /\ expirations[NonceKey(q)] <= now)
        BY <1>1, <1>4, <2>3 DEF IInv, TypeOK
      <3> QED  BY <1>1, <1>2, <2>1, <2>3, <3>1 DEF IInv, Held
    <2>4. CASE q \notin verified
      <3>1. q = r /\ accepted  BY <1>3, <1>9, <2>4
      <3>2. /\ NonceKey(q) \in DOMAIN expirations'
            /\ expirations'[NonceKey(q)] = Expiry(now)
        BY <1>3, <3>1
      <3>3. Expiry(now) >= Until(q)
        BY <1>1, <1>2, <3>1, TimingAssumption DEF Expiry, Until, WithinSkew
      <3> QED  BY <2>1, <3>2, <3>3
    <2> QED  BY <2>2, <2>3, <2>4
  <1>10. ASSUME NEW k \in DOMAIN expirations' PROVE Owned(k)'
    BY <1>3, <1>4, <1>10 DEF IInv, Owned
  <1>11. ASSUME NEW w \in Verifier PROVE (InTime(w) /\ ReadBefore(w) /\ Answered(w))'
    <2>1. CASE w = v
      <3>1. ~ accepted => Owned(NonceKey(r))'
        BY <1>3, <1>4 DEF IInv, Owned
      <3>2. accepted => r \in verified'  BY <1>3
      <3>3. answer # "" /\ (answer = "verified" <=> accepted)  OBVIOUS
      <3>4. (InTime(w) /\ ReadBefore(w))'
        BY <1>2, <1>3, <1>6, <2>1, <3>3 DEF InTime, ReadBefore, Pending
      <3>5. Answered(w)'
        BY <1>6, <2>1, <3>1, <3>2, <3>3 DEF Answered, Owned, NonceKey
      <3> QED  BY <3>4, <3>5
    <2>2. CASE w # v
      <3>1. verified \subseteq verified'  BY <1>3
      <3>2. call'[w] = call[w] /\ InTime(w) /\ ReadBefore(w) /\ Answered(w)
        BY <1>5, <2>2 DEF IInv
      <3>3. (InTime(w) /\ ReadBefore(w))'
        BY <1>3, <3>2 DEF InTime, ReadBefore, Pending
      <3>4. Answered(w)'
        BY <3>1, <3>2 DEF Answered, Owned, NonceKey
      <3> QED  BY <3>3, <3>4
    <2> QED  BY <2>1, <2>2
  <1> QED  BY <1>8, <1>9, <1>10, <1>11 DEF IInv

\* Nothing is lost when a call returns, and time passes only as far as the
\* pending calls allow.
LEMMA ReturnStep == ASSUME IInv, NEW v \in Verifier, Return(v) PROVE IInv'
  <1>1. TypeOK'  BY DEF Return, IInv, TypeOK
  <1>2. ASSUME NEW w \in Verifier PROVE (InTime(w) /\ ReadBefore(w) /\ Answered(w))'
    BY DEF Return, IInv, TypeOK, InTime, ReadBefore, Answered, Pending, Owned
  <1> QED  BY <1>1, <1>2 DEF IInv, Return, Held, Owned

LEMMA TickStep == ASSUME IInv, Tick PROVE IInv'
  <1>1. TypeOK' /\ clock' = clock + 1 /\ clock \in Nat
    BY TimingAssumption DEF Tick, IInv, TypeOK
  <1>2. ASSUME NEW w \in Verifier PROVE (InTime(w) /\ ReadBefore(w) /\ Answered(w))'
    <2>1. call[w] # NoCall => call[w].now \in Int
      BY DEF IInv, TypeOK, Call
    <2> QED
      <3>1. InTime(w) /\ ReadBefore(w) /\ Answered(w)  BY DEF IInv
      <3>2. (InTime(w) /\ ReadBefore(w))'
        <4>1. call'[w] = call[w]  BY DEF Tick
        <4>2. Pending(w) => clock + 1 <= call[w].now + Lateness  BY DEF Tick
        <4>3. call[w] # NoCall /\ call[w].now <= clock => call[w].now <= clock + 1
          BY <1>1, <2>1
        <4> QED
          BY <1>1, <3>1, <4>1, <4>2, <4>3 DEF InTime, ReadBefore, Pending, WithinSkew
      <3>3. Answered(w)'
        BY <3>1 DEF Tick, Answered, Owned, NonceKey
      <3> QED  BY <3>2, <3>3
  <1>3. ASSUME NEW q \in verified PROVE Held(q)'
    <2>1. Until(q) \in Int
      BY RequestAssumption, TimingAssumption DEF IInv, TypeOK, Until
    <2> QED  BY <1>1, <2>1 DEF Tick, IInv, Held, Until, NonceKey
  <1> QED  BY <1>1, <1>2, <1>3 DEF IInv, Tick, Owned

LEMMA RestartStep == ASSUME IInv, Restart PROVE IInv'
  <1>1. /\ expirations' = << >> /\ verified' = {} /\ clock' = clock
        /\ \A v \in Verifier : call'[v] = NoCall
        /\ call' \in [Verifier -> Call \cup {NoCall}]
    BY DEF Restart
  <1>2. DOMAIN expirations' = {} /\ expirations' \in [DOMAIN expirations' -> Int]
    BY <1>1
  <1>3. TypeOK'  BY <1>1, <1>2 DEF IInv, TypeOK
  <1> QED
    BY <1>1, <1>2, <1>3 DEF IInv, InTime, ReadBefore, Answered, Pending
\* The whole next-state relation, as the other modules that refine it use it
LEMMA NextStep == ASSUME IInv, [Next]_vars PROVE IInv'
  <1>1. CASE Next
    BY <1>1, ReceiveStep, ReserveStep, ReturnStep, TickStep, RestartStep DEF Next
  <1>2. CASE UNCHANGED vars
    <2>1. TypeOK'  BY <1>2 DEF vars, IInv, TypeOK
    <2> QED
      BY <1>2, <2>1 DEF vars, IInv, InTime, ReadBefore, Answered, Pending, Held, Owned,
           NonceKey, Until, WithinSkew
  <1> QED  BY <1>1, <1>2

------------------------------------------------------------------------------
(* The properties of one step                                               *)

\* Only a reservation turns a pending call into a verified one.
LEMMA OnlyReserveVerifies ==
    ASSUME [Next]_vars, NEW v \in Verifier, TypeOK, Pending(v),
           call'[v] # NoCall, call'[v].answer = "verified"
    PROVE  Reserve(v)
  <1>1. call[v] # NoCall /\ call[v].answer = ""  BY DEF Pending
  <1>2. call'[v] # call[v]  BY <1>1
  <1>3. ~ UNCHANGED vars /\ ~ Tick /\ ~ Restart
    BY <1>2 DEF vars, Tick, Restart
  <1>4. ASSUME NEW w \in Verifier, NEW r \in Raw,
               NEW credential \in Credential \cup {NoCredential}, Receive(w, r, credential)
        PROVE  FALSE
    BY <1>1, <1>2, <1>4 DEF Receive, TypeOK
  <1>5. ASSUME NEW w \in Verifier, Return(w) PROVE FALSE
    BY <1>1, <1>2, <1>5 DEF Return, Pending, TypeOK
  <1>6. ASSUME NEW w \in Verifier, Reserve(w) PROVE w = v
    BY <1>2, <1>6 DEF Reserve, TypeOK
  <1> QED  BY <1>3, <1>4, <1>5, <1>6 DEF Next

\* A reservation of a verified request is refused: either the store holds its nonce
\* past this call's reading, or the call is later than a call may be.
LEMMA VerifiedIsNotReserved ==
    ASSUME LifetimeCovers, IInv, NEW v \in Verifier, Reserve(v), call'[v].answer = "verified"
    PROVE  call[v].request \notin verified
  <1> DEFINE r == call[v].request
             now == call[v].now
  <1> SUFFICES ASSUME r \in verified PROVE FALSE  OBVIOUS
  <1>1. /\ r \in Request /\ now \in Int /\ clock \in Int /\ r.timestamp \in Nat
    <2>1. call[v] \in Call  BY DEF Reserve, Pending, IInv, TypeOK
    <2> QED  BY <2>1, RequestAssumption, TimingAssumption DEF Call, IInv, TypeOK
  <1>2. /\ now <= clock /\ clock <= now + Lateness /\ WithinSkew(r, now)
    BY DEF Reserve, IInv, InTime
  <1>3. Until(r) \in Int /\ Until(r) > now /\ Until(r) > clock
    BY <1>1, <1>2, TimingAssumption DEF Until, WithinSkew, LifetimeCovers
  <1>4. NonceKey(r) \in DOMAIN expirations /\ expirations[NonceKey(r)] >= Until(r)
    BY <1>1, <1>3 DEF IInv, Held
  <1>5. expirations[NonceKey(r)] > now
    BY <1>1, <1>3, <1>4 DEF IInv, TypeOK
  <1>6. NonceKey(r) \in DOMAIN Unexpired(now)
    BY <1>4, <1>5 DEF Unexpired
  <1>7. call'[v].answer = "replay_detected"
    BY <1>6 DEF Reserve, Pending, IInv, TypeOK, Call
  <1> QED  BY <1>7

\* The parts of a sequence that is joined with a separator
LEMMA Joined ==
    ASSUME NEW C, NEW sep \in C, NEW a \in Seq(C), NEW m \in Seq(C)
    PROVE  LET s == a \o <<sep>> \o m
           IN  /\ Len(s) = Len(a) + 1 + Len(m)
               /\ s[Len(a) + 1] = sep
               /\ \A i \in 1..Len(a) : s[i] = a[i]
               /\ \A i \in 1..Len(m) : s[Len(a) + 1 + i] = m[i]
  <1> DEFINE h == a \o <<sep>>
  <1>1. h \in Seq(C) /\ Len(h) = Len(a) + 1 /\ Len(a) \in Nat /\ Len(m) \in Nat
    OBVIOUS
  <1>2. h[Len(a) + 1] = sep /\ \A i \in 1..Len(a) : h[i] = a[i]
    OBVIOUS
  <1> HIDE DEF h
  <1>3. Len(h \o m) = Len(h) + Len(m)  BY <1>1
  <1>4. \A i \in 1..Len(h) : (h \o m)[i] = h[i]  BY <1>1
  <1>5. \A i \in 1..Len(m) : (h \o m)[Len(h) + i] = m[i]  BY <1>1
  <1> QED  BY <1>1, <1>2, <1>3, <1>4, <1>5 DEF h

\* Two requests share a nonce key only if agent and nonce are the same: the
\* identifiers end at the first separator.
LEMMA KeysIdentify ==
    ASSUME NEW q \in Request, NEW r \in Request, NonceKey(q) = NonceKey(r),
           \A i \in DOMAIN q.agent_id : q.agent_id[i] # Colon,
           \A i \in DOMAIN r.agent_id : r.agent_id[i] # Colon
    PROVE  q.agent_id = r.agent_id /\ q.nonce = r.nonce
  <1> DEFINE C == Character \cup {Colon}
             a == q.agent_id
             b == r.agent_id
             m == q.nonce
             n == r.nonce
             s == NonceKey(q)
  <1>1. /\ a \in Seq(C) /\ b \in Seq(C) /\ m \in Seq(C) /\ n \in Seq(C)
        /\ Len(a) \in Nat /\ Len(b) \in Nat /\ Len(m) \in Nat /\ Len(n) \in Nat
    BY RequestAssumption
  <1> HIDE DEF a, b, m, n
  <1>2. /\ \A i \in 1..Len(a) : a[i] # Colon
        /\ \A i \in 1..Len(b) : b[i] # Colon
    BY <1>1 DEF a, b
  <1>3. s = a \o <<Colon>> \o m /\ s = b \o <<Colon>> \o n
    BY DEF NonceKey, a, b, m, n
  <1> HIDE DEF s, C
  <1>4. /\ Len(s) = Len(a) + 1 + Len(m) /\ Len(s) = Len(b) + 1 + Len(n)
        /\ s[Len(a) + 1] = Colon /\ s[Len(b) + 1] = Colon
        /\ \A i \in 1..Len(a) : s[i] = a[i]
        /\ \A i \in 1..Len(b) : s[i] = b[i]
        /\ \A i \in 1..Len(m) : s[Len(a) + 1 + i] = m[i]
        /\ \A i \in 1..Len(n) : s[Len(b) + 1 + i] = n[i]
    <2>1. Colon \in C  BY DEF C
    <2>2. a \in Seq(C) /\ m \in Seq(C) /\ s = a \o <<Colon>> \o m  BY <1>1, <1>3
    <2>3. b \in Seq(C) /\ n \in Seq(C) /\ s = b \o <<Colon>> \o n  BY <1>1, <1>3
    <2>4. /\ Len(s) = Len(a) + 1 + Len(m) /\ s[Len(a) + 1] = Colon
          /\ \A i \in 1..Len(a) : s[i] = a[i]
          /\ \A i \in 1..Len(m) : s[Len(a) + 1 + i] = m[i]
      BY ONLY <2>2, <2>1, Joined
    <2>5. /\ Len(s) = Len(b) + 1 + Len(n) /\ s[Len(b) + 1] = Colon
          /\ \A i \in 1..Len(b) : s[i] = b[i]
          /\ \A i \in 1..Len(n) : s[Len(b) + 1 + i] = n[i]
      BY ONLY <2>3, <2>1, Joined
    <2> QED  BY <2>4, <2>5
  <1>5. Len(a) = Len(b)
    <2>1. ~ (Len(a) < Len(b))
      <3> SUFFICES ASSUME Len(a) < Len(b) PROVE FALSE  OBVIOUS
      <3>1. Len(a) + 1 \in 1..Len(b)  BY <1>1
      <3> QED  BY <1>2, <1>4, <3>1
    <2>2. ~ (Len(b) < Len(a))
      <3> SUFFICES ASSUME Len(b) < Len(a) PROVE FALSE  OBVIOUS
      <3>1. Len(b) + 1 \in 1..Len(a)  BY <1>1
      <3> QED  BY <1>2, <1>4, <3>1
    <2> QED  BY <1>1, <2>1, <2>2
  <1>6. a = b  BY <1>1, <1>4, <1>5, SeqEqual
  <1>7. Len(m) = Len(n) /\ \A i \in 1..Len(m) : m[i] = n[i]
    BY <1>1, <1>4, <1>5
  <1>8. m = n  BY <1>1, <1>7, SeqEqual
  <1> QED  BY <1>6, <1>8 DEF a, b, m, n

------------------------------------------------------------------------------
(* The theorems                                                             *)

\* The inductive invariant: the store holds every verified request's nonce for as
\* long as its timestamp may be accepted (verification.py:164-181, 238-250).
THEOREM StoreInvariant == Spec => []IInv
  <1>1. IInv /\ [Next]_vars => IInv'  BY NextStep
  <1> QED  BY <1>1, InitIInv, PTL DEF Spec

\* Within one process no request is verified twice, however many verifiers are
\* presented with it and however often, when the lifetime exceeds twice the skew by
\* more than the lateness of a call (verification.py:173-178, 211-212, 248).
THEOREM RequestsVerifiedOnce == LifetimeCovers => (Spec => VerifiedOnce)
  <1> SUFFICES ASSUME LifetimeCovers PROVE Spec => VerifiedOnce  OBVIOUS
  <1>1. IInv /\ [Next]_vars =>
          [\A v \in Verifier :
             Pending(v) /\ call'[v] # NoCall /\ call'[v].answer = "verified"
               => call[v].request \notin verified]_vars
    BY OnlyReserveVerifies, VerifiedIsNotReserved DEF IInv
  <1> QED  BY <1>1, StoreInvariant, PTL DEF Spec, VerifiedOnce

\* No identifier contains the separator of a nonce key.
Separable == \A r \in Request : \A i \in DOMAIN r.agent_id : r.agent_id[i] # Colon

\* Then a request is called a replay only if one of the same agent with the same
\* nonce was verified: no agent can use up the nonces of another
\* (verification.py:173-178, 248).
LEMMA InvReplay == Separable /\ IInv => ReplayHasOriginal
  <1> SUFFICES ASSUME Separable, IInv, NEW v \in Verifier, call[v] # NoCall,
                      call[v].answer = "replay_detected"
               PROVE  \E r \in verified : /\ r.agent_id = call[v].request.agent_id
                                          /\ r.nonce = call[v].request.nonce
    BY DEF ReplayHasOriginal
  <1>1. call[v].request \in Request  BY DEF IInv, TypeOK, Call
  <1>2. PICK r \in verified : NonceKey(r) = NonceKey(call[v].request)
    BY DEF IInv, Answered, Owned
  <1>3. r \in Request  BY <1>2 DEF IInv, TypeOK
  <1> QED  BY <1>1, <1>2, <1>3, KeysIdentify DEF Separable

THEOREM ReplaysHaveOriginals == Separable => (Spec => []ReplayHasOriginal)
  <1> SUFFICES ASSUME Separable PROVE Spec => []ReplayHasOriginal  OBVIOUS
  <1>1. IInv => ReplayHasOriginal  BY InvReplay
  <1> QED  BY <1>1, StoreInvariant, PTL

------------------------------------------------------------------------------
(***************************************************************************)
(* Authorization (AuthorizedRequests)                                      *)
(***************************************************************************)
\* Every step of a call is a step of its verification.
LEMMA AuthorizeIsVerification == [AuthorizeNext]_allVars => [Next]_vars
  BY DEF AuthorizeNext, Step, allVars, Begin, Verify, DenyAtVerification, EvaluateOracle,
     EvaluateOpa, FailOpa, EvaluationEnds, AuthorizeRestart, Next

\* The inductive invariant of SignedRequests holds of authorization's calls.
THEOREM AuthorizeStoreInvariant == AuthorizeSpec => []IInv
  <1>1. AuthorizeInit => IInv  BY InitIInv DEF AuthorizeInit
  <1>2. IInv /\ [AuthorizeNext]_allVars => IInv'  BY AuthorizeIsVerification, NextStep
  <1> QED  BY <1>1, <1>2, PTL DEF AuthorizeSpec

\* A request is verified once in this composition too (verification.py:173-178,
\* authorization.py:60-77).
THEOREM AuthorizedVerifiedOnce == LifetimeCovers => (AuthorizeSpec => VerifiedOnce)
  <1> SUFFICES ASSUME LifetimeCovers PROVE AuthorizeSpec => VerifiedOnce  OBVIOUS
  <1>1. IInv /\ [AuthorizeNext]_allVars =>
          [\A v \in Verifier :
             Pending(v) /\ call'[v] # NoCall /\ call'[v].answer = "verified"
               => call[v].request \notin verified]_vars
    BY AuthorizeIsVerification, OnlyReserveVerifies, VerifiedIsNotReserved DEF IInv
  <1> QED  BY <1>1, AuthorizeStoreInvariant, PTL DEF AuthorizeSpec, VerifiedOnce

\* ... and a refused replay has its original.
THEOREM AuthorizedReplays == Separable => (AuthorizeSpec => []ReplayHasOriginal)
  <1> SUFFICES ASSUME Separable PROVE AuthorizeSpec => []ReplayHasOriginal  OBVIOUS
  <1>1. IInv => ReplayHasOriginal  BY InvReplay
  <1> QED  BY <1>1, AuthorizeStoreInvariant, PTL

------------------------------------------------------------------------------
(* A request reaches a policy engine once.                                  *)

Verified(v) == call[v] # NoCall /\ call[v].answer = "verified"

\* A verified call has not been evaluated, and no other call is about its request.
Sole(v) ==
    Verified(v) => /\ call[v].request \notin evaluated
                   /\ \A w \in Verifier \ {v} :
                        Verified(w) => call[w].request # call[v].request

OnceInv == evaluated \subseteq verified /\ \A v \in Verifier : Sole(v)

\* How a step of verification changes the calls: the others stay, and a call gets
\* the answer "verified" only when its request was not.
LEMMA AnswersOnce ==
    ASSUME LifetimeCovers, IInv, [AuthorizeNext]_allVars, OnceInv
    PROVE  OnceInv'
  <1>1. [Next]_vars /\ IInv'  BY AuthorizeIsVerification, NextStep
  <1>2. CASE AuthorizeRestart
    BY <1>2 DEF AuthorizeRestart, Restart, OnceInv, Sole, Verified
  <1>3. ASSUME NEW v \in Verifier, NEW r \in Raw,
               NEW credential \in Credential \cup {NoCredential}, NEW in \in RiskInput,
               Begin(v, r, credential, in)
        PROVE  OnceInv'
    <2>1. /\ \A w \in Verifier \ {v} : call'[w] = call[w]
          /\ call'[v].answer # "verified"
          /\ evaluated' = evaluated /\ verified' = verified
      BY <1>3, RefusalChecks DEF Begin, Receive, IInv, TypeOK
    <2> QED  BY <2>1 DEF OnceInv, Sole, Verified
  <1>4. ASSUME NEW v \in Verifier, Verify(v) PROVE OnceInv'
    <2>1. /\ \A w \in Verifier \ {v} : call'[w] = call[w]
          /\ call'[v].request = call[v].request
          /\ evaluated' = evaluated /\ verified \subseteq verified'
      BY <1>4 DEF Verify, Reserve, Pending, policyVars, IInv, TypeOK, Call
    <2>2. call'[v].answer = "verified" => call[v].request \notin verified
      BY <1>4, VerifiedIsNotReserved DEF Verify
    <2>3. \A w \in Verifier \ {v} : Verified(w) => call[w].request \in verified
      BY DEF IInv, Answered, Verified
    <2>4. ASSUME NEW w \in Verifier PROVE Sole(w)'
      BY <2>1, <2>2, <2>3 DEF OnceInv, Sole, Verified
    <2> QED  BY <2>1, <2>4 DEF OnceInv
  <1>5. ASSUME NEW v \in Verifier,
               \/ DenyAtVerification(v)
               \/ EvaluateOracle(v) \/ EvaluateOpa(v) \/ FailOpa(v)
        PROVE  OnceInv'
    <2>1. /\ \A w \in Verifier \ {v} : call'[w] = call[w]
          /\ call'[v] = NoCall /\ verified' = verified
          /\ \/ evaluated' = evaluated
             \/ Verified(v) /\ evaluated' = evaluated \cup {call[v].request}
      BY <1>5 DEF DenyAtVerification, EvaluateOracle, EvaluateOpa, FailOpa, EvaluationEnds,
           Evaluating, Return, Verified, IInv, TypeOK
    <2>2. Verified(v) => call[v].request \in verified
      BY DEF IInv, Answered, Verified
    <2>3. ASSUME NEW w \in Verifier PROVE Sole(w)'
      BY <2>1 DEF OnceInv, Sole, Verified
    <2> QED  BY <2>1, <2>2, <2>3 DEF OnceInv
  <1>6. CASE Tick /\ UNCHANGED policyVars
    BY <1>6 DEF Tick, policyVars, OnceInv, Sole, Verified
  <1>7. CASE UNCHANGED allVars
    BY <1>7 DEF allVars, vars, policyVars, OnceInv, Sole, Verified
  <1> QED  BY <1>2, <1>3, <1>4, <1>5, <1>6, <1>7 DEF AuthorizeNext, Step

\* Whatever becomes of it there, a request reaches a policy engine once
\* (authorization.py:60-77; README.md:126-127).
THEOREM RequestsEvaluatedOnce == LifetimeCovers => (AuthorizeSpec => EvaluatedOnce)
  <1> SUFFICES ASSUME LifetimeCovers PROVE AuthorizeSpec => EvaluatedOnce  OBVIOUS
  <1>1. AuthorizeInit => OnceInv
    BY DEF AuthorizeInit, Init, OnceInv, Sole, Verified
  <1>2. IInv /\ OnceInv /\ [AuthorizeNext]_allVars => OnceInv'
    BY AnswersOnce
  <1>3. OnceInv /\ [AuthorizeNext]_allVars =>
          [\A v \in Verifier :
             Evaluating(v, input[v].engine) /\ call'[v] = NoCall /\ evaluated' # {}
               => call[v].request \notin evaluated]_allVars
    BY DEF OnceInv, Sole, Verified, Evaluating
  <1> QED  BY <1>1, <1>2, <1>3, AuthorizeStoreInvariant, PTL DEF AuthorizeSpec, EvaluatedOnce
------------------------------------------------------------------------------
(* An "allow" rests on the whole chain of checks.                           *)

\* What an active agent's own key signed
Backed(r, c) ==
    /\ c \in Credential /\ c.agent_id = r.agent_id /\ c.status = "active"
    /\ r.signature = [key |-> c.public_key, over |-> Canonical(r)]

\* What the policy asks of an input that it allows
Permitted(r, in) ==
    LET policy == PolicyData(PolicyDoc)
    IN  /\ r.tool_name \in DOMAIN policy.tools
        /\ RolesOf(policy, r.agent_id) \cap policy.tools[r.tool_name].roles # {}
        /\ policy.tools[r.tool_name].sensitivity = "high" =>
             in.step_up_token_valid \/ in.risk_score < policy.step_up_risk

\* A call that was not refused is backed by the credential it was checked against.
Accepted(v) ==
    call[v] # NoCall =>
      /\ input[v].risk_score \in Int
      /\ call[v].answer \in {"", "verified"} => Backed(call[v].request, call[v].credential)

Allowed(v) ==
    outcome[v] # NoCall /\ outcome[v].effect = "allow" =>
      /\ outcome[v].request \in verified \cap evaluated
      /\ \E c \in Credential : Backed(outcome[v].request, c)
      /\ Permitted(outcome[v].request, outcome[v].input)

AllowInv ==
    /\ input \in [Verifier -> RiskInput \cup {NoCall}]
    /\ outcome \in [Verifier -> {outcome[v] : v \in Verifier}]
    /\ \A v \in Verifier : Accepted(v) /\ Allowed(v)

\* A request that passes every check before the nonce is backed.
LEMMA RefusalBacks ==
    ASSUME NEW r, NEW credential \in Credential \cup {NoCredential}, NEW now,
           Refusal(r, credential, now) = ""
    PROVE  Backed(r, credential)
  BY DEF Refusal, Backed, VerifiedSignature

\* Only what the policy permits is allowed by the oracle, ...
LEMMA OracleAllows ==
    ASSUME NEW v \in Verifier, input[v].risk_score \in Int,
           Decide(PolicyData(PolicyDoc), PolicyInput(v)).effect = "allow"
    PROVE  Permitted(call[v].request, input[v])
  <1> DEFINE policy == PolicyData(PolicyDoc)
             r == call[v].request
             in == PolicyInput(v)
  <1>1. /\ in.agent_id = r.agent_id /\ in.tool_name = r.tool_name
        /\ in.risk_score = input[v].risk_score
        /\ in.step_up_token_valid = input[v].step_up_token_valid
    BY DEF PolicyInput
  <1>2. policy.step_up_risk \in Int
    <2>1. PolicyDoc.step_up_risk \in 0..100  BY PolicyAssumption DEF PolicyAccepted
    <2>2. policy.step_up_risk = PolicyDoc.step_up_risk  BY DEF PolicyData
    <2> QED  BY <2>1, <2>2
  <1> HIDE DEF policy, in, r
  <1>3. /\ in.tool_name \in DOMAIN policy.tools
        /\ RolesOf(policy, in.agent_id) \cap policy.tools[in.tool_name].roles # {}
        /\ ~ (/\ policy.tools[in.tool_name].sensitivity = "high"
              /\ in.risk_score >= policy.step_up_risk
              /\ ~ in.step_up_token_valid)
    BY DEF Decide, Decision, policy, in
  <1> QED  BY <1>1, <1>2, <1>3 DEF Permitted, policy, r

\* ... and by OPA, which answers the same.
LEMMA OpaAllows ==
    ASSUME PlainPolicy(PolicyDoc), NEW v \in Verifier, input[v].risk_score \in Int, NEW d,
           RegoAnswers(RawData(PolicyDoc), PolicyInput(v), d), d.effect = "allow"
    PROVE  Permitted(call[v].request, input[v])
  BY EnginesAgree, OracleAllows

\* A call whose decision is "allow" has passed every check.
LEMMA DecisionStep ==
    ASSUME PlainPolicy(PolicyDoc), IInv, AllowInv, NEW v \in Verifier,
           EvaluateOracle(v) \/ EvaluateOpa(v)
    PROVE  AllowInv'
  <1> DEFINE r == call[v].request
  <1>1. /\ call' = [call EXCEPT ![v] = NoCall] /\ input' = input
        /\ verified' = verified /\ evaluated' = evaluated \cup {r}
        /\ Verified(v)
    BY DEF EvaluateOracle, EvaluateOpa, EvaluationEnds, Evaluating, Return, Verified
  <1>2. PICK d : /\ Decided(v, d, "policy")
                 /\ d.effect = "allow" => Permitted(r, input[v])
    <2>1. input[v].risk_score \in Int  BY <1>1 DEF AllowInv, Accepted, Verified
    <2> QED  BY <2>1, OracleAllows, OpaAllows DEF EvaluateOracle, EvaluateOpa
  <1>3. r \in verified /\ \E c \in Credential : Backed(r, c)
    BY <1>1 DEF IInv, Answered, AllowInv, Accepted, Verified, Backed
  <1>4. /\ outcome'[v].effect = d.effect /\ outcome'[v].request = r
        /\ outcome'[v].input = input[v]
        /\ \A w \in Verifier \ {v} : outcome'[w] = outcome[w]
    BY <1>2 DEF Decided, AllowInv
  <1>5. ASSUME NEW w \in Verifier PROVE (Accepted(w) /\ Allowed(w))'
    <2>1. CASE w = v
      <3>1. Accepted(w)'  BY <1>1, <2>1 DEF Accepted, IInv, TypeOK
      <3>2. Allowed(w)'
        BY <1>1, <1>2, <1>3, <1>4, <2>1 DEF Allowed, Backed, Permitted
      <3> QED  BY <3>1, <3>2
    <2>2. CASE w # v
      <3>1. Accepted(w)'  BY <1>1, <2>2 DEF Accepted, IInv, TypeOK, AllowInv, Backed
      <3>2. Allowed(w)'
        BY <1>1, <1>4, <2>2 DEF Allowed, AllowInv, Backed, Permitted
      <3> QED  BY <3>1, <3>2
    <2> QED  BY <2>1, <2>2
  <1>6. outcome' \in [Verifier -> {outcome'[w] : w \in Verifier}]
    BY <1>2 DEF Decided, AllowInv
  <1> QED  BY <1>1, <1>5, <1>6 DEF AllowInv

\* The other steps allow nothing.
LEMMA OtherSteps ==
    ASSUME IInv, AllowInv, NEW v \in Verifier,
           Verify(v) \/ DenyAtVerification(v) \/ FailOpa(v)
    PROVE  AllowInv'
  <1>1. ASSUME NEW w \in Verifier
        PROVE  /\ \/ call'[w] = call[w] \/ call'[w] = NoCall
                  \/ /\ call[w] # NoCall /\ call[w].answer = ""
                     /\ call'[w].request = call[w].request
                     /\ call'[w].credential = call[w].credential
               /\ outcome'[w] = outcome[w] \/ outcome'[w].effect = "deny"
               /\ input' = input
               /\ verified \subseteq verified' /\ evaluated \subseteq evaluated'
    <2>1. CASE Verify(v)
      <3>1. /\ outcome' = outcome /\ input' = input /\ evaluated' = evaluated
            /\ verified \subseteq verified'
        BY <2>1 DEF Verify, Reserve, policyVars
      <3>2. w # v => call'[w] = call[w]
        BY <2>1 DEF Verify, Reserve, IInv, TypeOK
      <3>3. /\ call[v] # NoCall /\ call[v].answer = "" /\ call[v] \in Call
        BY <2>1 DEF Verify, Reserve, Pending, IInv, TypeOK
      <3>4. PICK a : call'[v] = [call[v] EXCEPT !.answer = a]
        BY <2>1 DEF Verify, Reserve, IInv, TypeOK
      <3>5. call'[v].request = call[v].request /\ call'[v].credential = call[v].credential
        BY <3>3, <3>4 DEF Call
      <3> QED  BY <3>1, <3>2, <3>3, <3>5
    <2>2. CASE DenyAtVerification(v)
      <3>1. call'[w] = call[w] \/ call'[w] = NoCall
        BY <2>2 DEF DenyAtVerification, Return, IInv, TypeOK
      <3>2. outcome'[w] = outcome[w] \/ outcome'[w].effect = "deny"
        BY <2>2 DEF DenyAtVerification, Decided, Decision, AllowInv
      <3> QED  BY <2>2, <3>1, <3>2 DEF DenyAtVerification, Return
    <2>3. CASE FailOpa(v)
      BY <2>3 DEF FailOpa, EvaluationEnds, Return, IInv, TypeOK
    <2> QED  BY <2>1, <2>2, <2>3
  <1>2. ASSUME NEW w \in Verifier PROVE (Accepted(w) /\ Allowed(w))'
    <2>1. Accepted(w) /\ Allowed(w)  BY DEF AllowInv
    <2>2. Accepted(w)'  BY <1>1, <2>1 DEF Accepted, Backed
    <2>3. Allowed(w)'
      BY <1>1, <2>1 DEF Allowed, Backed, Permitted
    <2> QED  BY <2>2, <2>3
  <1>3. outcome' \in [Verifier -> {outcome'[w] : w \in Verifier}]
    BY DEF Verify, DenyAtVerification, FailOpa, Decided, policyVars, AllowInv
  <1> QED  BY <1>1, <1>2, <1>3 DEF AllowInv

LEMMA BeginStep ==
    ASSUME IInv, AllowInv, NEW v \in Verifier, NEW r \in Raw,
           NEW credential \in Credential \cup {NoCredential}, NEW in \in RiskInput,
           Begin(v, r, credential, in)
    PROVE  AllowInv'
  <1>1. /\ call'[v].request = r /\ call'[v].credential = credential
        /\ call'[v].answer = Refusal(r, credential, clock)
        /\ input'[v] = in /\ outcome'[v] = NoCall /\ in.risk_score \in Int
        /\ verified' = verified /\ evaluated' = evaluated
        /\ \A w \in Verifier \ {v} : /\ call'[w] = call[w] /\ input'[w] = input[w]
                                     /\ outcome'[w] = outcome[w]
    BY DEF Begin, Receive, IInv, TypeOK, AllowInv
  <1>2. call'[v].answer \in {"", "verified"} => Backed(r, credential)
    BY <1>1, RefusalChecks, RefusalBacks
  <1>3. ASSUME NEW w \in Verifier PROVE (Accepted(w) /\ Allowed(w))'
    <2>1. CASE w = v
      BY <1>1, <1>2, <2>1 DEF Accepted, Allowed, Backed
    <2>2. CASE w # v
      <3>1. Accepted(w) /\ Allowed(w)  BY DEF AllowInv
      <3>2. call'[w] = call[w] /\ input'[w] = input[w] /\ outcome'[w] = outcome[w]
        BY <1>1, <2>2
      <3>3. Accepted(w)'  BY <3>1, <3>2 DEF Accepted, Backed
      <3>4. Allowed(w)'  BY <1>1, <3>1, <3>2 DEF Allowed, Backed, Permitted
      <3> QED  BY <3>3, <3>4
    <2> QED  BY <2>1, <2>2
  <1>4. /\ input' \in [Verifier -> RiskInput \cup {NoCall}]
        /\ outcome' \in [Verifier -> {outcome'[w] : w \in Verifier}]
    BY DEF Begin, AllowInv
  <1> QED  BY <1>3, <1>4 DEF AllowInv

\* An "allow", of either engine, is of a request that this process verified, signed
\* with these arguments by an active agent's own key, for a tool that one of the
\* agent's roles has, with a step-up token when the policy asks for one
\* (authorization.py:52-83, policy.py:181-196).
THEOREM AllowsAreAuthorized ==
    PlainPolicy(PolicyDoc) => (AuthorizeSpec => []AllowIsAuthorized)
  <1> SUFFICES ASSUME PlainPolicy(PolicyDoc) PROVE AuthorizeSpec => []AllowIsAuthorized
    OBVIOUS
  <1>1. AuthorizeInit => AllowInv
    BY DEF AuthorizeInit, Init, AllowInv, Accepted, Allowed
  <1>2. IInv /\ AllowInv /\ [AuthorizeNext]_allVars => AllowInv'
    <2> SUFFICES ASSUME IInv, AllowInv, [AuthorizeNext]_allVars PROVE AllowInv'
      OBVIOUS
    <2>1. CASE AuthorizeRestart
      BY <2>1 DEF AuthorizeRestart, Restart, AllowInv, Accepted, Allowed
    <2>2. CASE Tick /\ UNCHANGED policyVars
      BY <2>2 DEF Tick, policyVars, AllowInv, Accepted, Allowed, Backed, Permitted
    <2>3. CASE UNCHANGED allVars
      BY <2>3 DEF allVars, vars, policyVars, AllowInv, Accepted, Allowed, Backed, Permitted
    <2> QED
      BY <2>1, <2>2, <2>3, BeginStep, DecisionStep, OtherSteps DEF AuthorizeNext, Step
  <1>3. AllowInv => AllowIsAuthorized
    BY DEF AllowInv, Allowed, AllowIsAuthorized, Backed, Permitted
  <1> QED  BY <1>1, <1>2, <1>3, AuthorizeStoreInvariant, PTL DEF AuthorizeSpec
------------------------------------------------------------------------------
(***************************************************************************)
(* The record of the decisions (AuditChain)                                *)
(***************************************************************************)
(* The inductive invariant                                                  *)

IsSequence(s) == s \in Seq({s[i] : i \in DOMAIN s})

\* A record has these fields and no other, and an instant of its clock.
IsRecord(r) ==
    /\ r = [sequence |-> r.sequence, recorded_at |-> r.recorded_at,
            request_id |-> r.request_id, decision |-> r.decision,
            previous_hash |-> r.previous_hash, record_hash |-> r.record_hash]
    /\ r.recorded_at \in Instant

AuditTypeOK ==
    /\ IsSequence(log) /\ \A n \in DOMAIN log : IsRecord(log[n])
    /\ IsSequence(copy) /\ \A i \in DOMAIN copy : IsRecord(copy[i])
    /\ changes \in Nat
    /\ phase \in {"none", "taken", "parsed", "accepted", "rejected"}
    /\ position \in 0..Len(copy)

\* The recorder numbers, digests and links what it appends.
LogLinked ==
    \A n \in DOMAIN log :
       /\ log[n].sequence = n
       /\ log[n].record_hash = Hash(log[n])
       /\ n > 1 => log[n].previous_hash = log[n - 1].record_hash

\* What parsing and the walk have established of the copy
Checked ==
    /\ phase \in {"none", "taken"} => position = 0
    /\ phase \in {"parsed", "accepted"} =>
         copy # << >> /\ \A i \in DOMAIN copy : copy[i].record_hash = Hash(copy[i])
    /\ position > 0 => \A i \in DOMAIN copy : copy[i].record_hash = Hash(copy[i])
    /\ phase = "accepted" => position = Len(copy)
    /\ \A i \in 1..position :
         copy[i].sequence = i /\ (i > 1 => copy[i].previous_hash = copy[i - 1].record_hash)

\* A checked record with the digest of a record of the log
Agrees ==
    \A i \in 1..position, n \in DOMAIN log :
       copy[i].record_hash = log[n].record_hash =>
          i = n /\ \A k \in 1..i : copy[k] = log[k]

InOrder ==
    \A i, j \in 1..position :
       i <= j => copy[i].recorded_at.second <= copy[j].recorded_at.second

ChainInv == AuditTypeOK /\ LogLinked /\ Checked /\ Agrees /\ InOrder

------------------------------------------------------------------------------
(* Sequences and digests                                                    *)

LEMMA SequenceOf ==
    ASSUME NEW S, NEW s \in Seq(S)
    PROVE  IsSequence(s)
  <1>1. Len(s) \in Nat /\ DOMAIN s = 1..Len(s) /\ s \in [1..Len(s) -> S]
    BY LenProperties
  <1>2. s \in [1..Len(s) -> {s[i] : i \in DOMAIN s}]
    BY <1>1
  <1> QED  BY <1>1, <1>2, SeqDef DEF IsSequence

LEMMA SequenceLength ==
    ASSUME NEW s, IsSequence(s)
    PROVE  Len(s) \in Nat /\ DOMAIN s = 1..Len(s)
  BY LenProperties DEF IsSequence

\* Equal digests are of equal contents (the digest is what it covers).
LEMMA DigestCovers ==
    ASSUME NEW r, NEW s, IsRecord(r), IsRecord(s),
           r.record_hash = Hash(r), s.record_hash = Hash(s), r.record_hash = s.record_hash
    PROVE  /\ r = s
           /\ r.sequence = s.sequence
           /\ r.previous_hash = s.previous_hash
  <1>1. Unsigned(r) = Unsigned(s)
    BY DEF Hash
  <1>2. /\ r.sequence = s.sequence /\ r.recorded_at = s.recorded_at
        /\ r.request_id = s.request_id /\ r.decision = s.decision
        /\ r.previous_hash = s.previous_hash
    BY <1>1 DEF Unsigned
  <1> QED  BY <1>2 DEF IsRecord

\* A record that build_audit_record builds
LEMMA RecordBuilt ==
    ASSUME NEW sequence, NEW t \in Instant, NEW id, NEW d, NEW h
    PROVE  LET r == Record(sequence, t, id, d, h)
           IN  /\ IsRecord(r)
               /\ r.sequence = sequence /\ r.previous_hash = h /\ r.record_hash = Hash(r)
  BY DEF Record, IsRecord, Hash, Unsigned
------------------------------------------------------------------------------
(* The steps                                                                *)

LEMMA ChainInit == AuditInit => ChainInv
  <1> SUFFICES ASSUME AuditInit PROVE ChainInv
    OBVIOUS
  <1>1. DOMAIN log = {} /\ DOMAIN copy = {} /\ Len(copy) = 0 /\ log = << >> /\ copy = << >>
    BY EmptySeq DEF AuditInit
  <1>2. IsSequence(log) /\ IsSequence(copy)
    BY <1>1, EmptySeq DEF IsSequence
  <1> QED
    BY <1>1, <1>2 DEF AuditInit, ChainInv, AuditTypeOK, LogLinked, Checked, Agrees, InOrder

\* The log grows by a record that is linked to its head.  A checked record of the
\* copy with the new digest has a predecessor, with the head's digest.
LEMMA AppendStep ==
    ASSUME ChainInv, NEW t \in Instant, NEW id, NEW d, AppendRecord(t, id, d)
    PROVE  ChainInv'
  <1> DEFINE N == Len(log) + 1
             r == Record(N, t, id, d, HeadHash(log))
  <1>1. Len(log) \in Nat /\ DOMAIN log = 1..Len(log) /\ Len(copy) \in Nat /\ DOMAIN copy = 1..Len(copy)
    BY SequenceLength DEF ChainInv, AuditTypeOK
  <1>2. /\ IsRecord(r) /\ r.sequence = N /\ r.previous_hash = HeadHash(log)
        /\ r.record_hash = Hash(r)
    BY RecordBuilt
  <1>3. log' = Append(log, r)
    BY DEF AppendRecord
  <1> HIDE DEF r
  <1>4. /\ IsSequence(log') /\ Len(log') = N /\ DOMAIN log' = 1..N
        /\ log'[N] = r /\ \A n \in 1..Len(log) : log'[n] = log[n]
    <2> DEFINE S == {log[n] : n \in DOMAIN log} \cup {r}
    <2>1. log \in Seq(S)
      BY SeqMonotonic DEF ChainInv, AuditTypeOK, IsSequence
    <2>2. log' \in Seq(S)
      BY <1>3, <2>1, AppendProperties
    <2>3. Len(log') = N /\ log'[N] = r /\ \A n \in 1..Len(log) : log'[n] = log[n]
      BY <1>1, <1>3, <2>1, AppendProperties
    <2>4. DOMAIN log' = 1..Len(log')
      BY <2>2, LenProperties
    <2>5. IsSequence(log')
      BY <2>2, SequenceOf
    <2> QED  BY <2>3, <2>4, <2>5
  <1>5. AuditTypeOK'
    BY <1>1, <1>2, <1>4 DEF ChainInv, AuditTypeOK, AppendRecord
  <1>6. LogLinked'
    <2> SUFFICES ASSUME NEW n \in 1..N
                 PROVE  /\ log'[n].sequence = n
                        /\ log'[n].record_hash = Hash(log'[n])
                        /\ n > 1 => log'[n].previous_hash = log'[n - 1].record_hash
      BY <1>4 DEF LogLinked
    <2>1. CASE n <= Len(log)
      <3>1. n \in DOMAIN log /\ log'[n] = log[n] /\ (n > 1 => log'[n - 1] = log[n - 1])
        BY <1>1, <1>4, <2>1
      <3> QED  BY <3>1 DEF ChainInv, LogLinked
    <2>2. CASE n = N
      <3>1. n > 1 => log # << >> /\ HeadHash(log) = log'[n - 1].record_hash
        BY <1>1, <1>4, <2>2, EmptySeq DEF HeadHash
      <3> QED  BY <1>2, <1>4, <2>2, <3>1
    <2> QED  BY <1>1, <2>1, <2>2
  <1>7. Checked' /\ InOrder'
    BY DEF ChainInv, Checked, InOrder, AppendRecord
  <1>8. Agrees'
    <2>1. copy' = copy /\ position' = position
      BY DEF AppendRecord
    <2> SUFFICES ASSUME NEW i \in 1..position, NEW n \in 1..N,
                        copy[i].record_hash = log'[n].record_hash
                 PROVE  i = n /\ \A k \in 1..i : copy[k] = log'[k]
      BY <1>4, <2>1 DEF Agrees
    <2>2. CASE n <= Len(log)
      BY <1>1, <1>4, <2>2 DEF ChainInv, Agrees
    <2>3. CASE n = N
      <3>1. i \in DOMAIN copy /\ IsRecord(copy[i]) /\ copy[i].record_hash = Hash(copy[i])
            /\ copy[i].sequence = i
        <4>1. position \in 0..Len(copy) /\ \A k \in DOMAIN copy : IsRecord(copy[k])
          BY DEF ChainInv, AuditTypeOK
        <4>2. i \in DOMAIN copy /\ position > 0
          BY <1>1, <4>1
        <4> QED  BY <4>1, <4>2 DEF ChainInv, Checked
      <3>2. copy[i] = r /\ i = N /\ copy[i].previous_hash = HeadHash(log)
        BY <1>2, <1>4, <2>3, <3>1, DigestCovers
      <3>3. \A k \in 1..(N - 1) : copy[k] = log[k]
        <4>1. CASE N = 1
          BY <4>1
        <4>2. CASE N > 1
          <5>1. HeadHash(log) = log[N - 1].record_hash /\ N - 1 \in DOMAIN log /\ N - 1 \in 1..position
            <6>1. log # << >>
              BY <1>1, <4>2, EmptySeq
            <6>2. HeadHash(log) = log[N - 1].record_hash
              BY <1>1, <6>1 DEF HeadHash
            <6>3. position \in Nat
              BY <1>1 DEF ChainInv, AuditTypeOK
            <6> QED  BY <1>1, <3>2, <4>2, <6>2, <6>3
          <5>2. copy[N - 1].record_hash = log[N - 1].record_hash
            BY <3>2, <4>2, <5>1 DEF ChainInv, Checked
          <5> QED  BY <5>1, <5>2 DEF ChainInv, Agrees
        <4> QED  BY <1>1, <4>1, <4>2
      <3> QED  BY <1>1, <1>4, <2>3, <3>2, <3>3
    <2> QED  BY <1>1, <2>2, <2>3
  <1> QED  BY <1>5, <1>6, <1>7, <1>8 DEF ChainInv

LEMMA TakeCopyStep ==
    ASSUME ChainInv, TakeCopy
    PROVE  ChainInv'
  <1>1. position = 0 /\ position' = 0 /\ copy' = log /\ log' = log /\ phase' = "taken" /\ changes' = changes
    BY DEF ChainInv, Checked, TakeCopy
  <1>2. Len(log) \in Nat /\ DOMAIN log = 1..Len(log)
    BY SequenceLength DEF ChainInv, AuditTypeOK
  <1>3. AuditTypeOK'
    BY <1>1, <1>2 DEF ChainInv, AuditTypeOK
  <1> QED
    BY <1>1, <1>3 DEF ChainInv, LogLinked, Checked, Agrees, InOrder

\* No change leaves anything that is not a sequence of records.
LEMMA ChangeStep ==
    ASSUME ChainInv, Change
    PROVE  ChainInv'
  <1>1. position = 0 /\ position' = 0 /\ log' = log /\ phase' = "taken" /\ changes' = changes + 1
    BY DEF ChainInv, Checked, Change
  <1>2. Len(copy) \in Nat /\ DOMAIN copy = 1..Len(copy)
    BY SequenceLength DEF ChainInv, AuditTypeOK
  <1>3. PICK i \in DOMAIN copy :
         \/ copy' = Removed(i)
         \/ \E j \in DOMAIN copy : copy' = [copy EXCEPT ![i] = copy[j], ![j] = copy[i]]
         \/ \E d \in AuditDecision : copy' = [copy EXCEPT ![i].decision = d]
         \/ \E t \in Instant, id \in RequestId, d \in AuditDecision, h \in {NoHash, copy[i].previous_hash} :
              copy' = [copy EXCEPT ![i] = Record(copy[i].sequence, t, id, d, h)]
    BY DEF Change
  <1>4. \A k \in DOMAIN copy : IsRecord(copy[k])
    BY DEF ChainInv, AuditTypeOK
  <1>5. \E n \in Nat : DOMAIN copy' = 1..n /\ copy' = [k \in 1..n |-> copy'[k]] /\ \A k \in 1..n : IsRecord(copy'[k])
    <2> DEFINE Records(n) == DOMAIN copy' = 1..n /\ copy' = [k \in 1..n |-> copy'[k]]
                             /\ \A k \in 1..n : IsRecord(copy'[k])
    <2>1. CASE copy' = Removed(i)
      <3>1. copy' = [k \in 1..(Len(copy) - 1) |-> IF k < i THEN copy[k] ELSE copy[k + 1]]
        BY <2>1 DEF Removed
      <3>2. Len(copy) - 1 \in Nat /\ \A k \in 1..(Len(copy) - 1) : k \in DOMAIN copy /\ k + 1 \in DOMAIN copy
        BY <1>2, <1>3
      <3>3. Records(Len(copy) - 1)
        BY <1>4, <3>1, <3>2
      <3> QED  BY <3>2, <3>3
    <2>2. ASSUME NEW j \in DOMAIN copy, copy' = [copy EXCEPT ![i] = copy[j], ![j] = copy[i]]
          PROVE  Records(Len(copy))
      BY <1>2, <1>3, <1>4, <2>2
    <2>3. ASSUME NEW d \in AuditDecision, copy' = [copy EXCEPT ![i].decision = d]
          PROVE  Records(Len(copy))
      <3>1. IsRecord([copy[i] EXCEPT !.decision = d])
        BY <1>4 DEF IsRecord
      <3> QED  BY <1>2, <1>3, <1>4, <2>3, <3>1
    <2>4. ASSUME NEW t \in Instant, NEW id \in RequestId, NEW d \in AuditDecision, NEW h,
                 copy' = [copy EXCEPT ![i] = Record(copy[i].sequence, t, id, d, h)]
          PROVE  Records(Len(copy))
      <3>1. IsRecord(Record(copy[i].sequence, t, id, d, h))
        BY RecordBuilt
      <3> QED  BY <1>2, <1>3, <1>4, <2>4, <3>1
    <2> QED  BY <1>2, <1>3, <2>1, <2>2, <2>3, <2>4
  <1>6. IsSequence(copy') /\ Len(copy') \in Nat
    <2>1. PICK n \in Nat : DOMAIN copy' = 1..n /\ copy' = [k \in 1..n |-> copy'[k]]
      BY <1>5
    <2>2. copy' \in [1..n -> {copy'[k] : k \in DOMAIN copy'}]
      BY <2>1
    <2>3. IsSequence(copy')
      BY <2>2, SeqDef DEF IsSequence
    <2> QED  BY <2>3, SequenceLength
  <1>7. AuditTypeOK'
    BY <1>1, <1>5, <1>6 DEF ChainInv, AuditTypeOK
  <1> QED
    BY <1>1, <1>7 DEF ChainInv, LogLinked, Checked, Agrees, InOrder

LEMMA ParseStep ==
    ASSUME ChainInv, Parse
    PROVE  ChainInv'
  <1>1. position = 0 /\ position' = 0 /\ log' = log /\ copy' = copy /\ changes' = changes
    BY DEF ChainInv, Checked, Parse
  <1>2. /\ phase' \in {"parsed", "rejected"}
        /\ phase' = "parsed" => copy # << >> /\ \A i \in DOMAIN copy : copy[i].record_hash = Hash(copy[i])
    BY DEF Parse, RecordParses
  <1> QED
    BY <1>1, <1>2 DEF ChainInv, AuditTypeOK, LogLinked, Checked, Agrees, InOrder

\* The walk: a record that links agrees with the log as its predecessor does.
LEMMA LinkStep ==
    ASSUME ChainInv, Link
    PROVE  ChainInv'
  <1>1. log' = log /\ copy' = copy /\ changes' = changes /\ phase = "parsed"
    BY DEF Link
  <1>2. CASE ~ Links(position + 1)
    <2>1. phase' = "rejected" /\ position' = position
      BY <1>2 DEF Link
    <2> QED
      BY <1>1, <2>1 DEF ChainInv, AuditTypeOK, LogLinked, Checked, Agrees, InOrder
  <1>3. CASE Links(position + 1)
    <2> DEFINE p == position + 1
    <2>1. phase' = phase /\ position' = p /\ position < Len(copy)
      BY <1>3 DEF Link
    <2>2. /\ Len(copy) \in Nat /\ DOMAIN copy = 1..Len(copy)
          /\ position \in Nat /\ p \in DOMAIN copy
          /\ Len(log) \in Nat /\ DOMAIN log = 1..Len(log)
      BY <2>1, SequenceLength DEF ChainInv, AuditTypeOK
    <2>3. /\ copy[p].sequence = p /\ copy[p].record_hash = Hash(copy[p]) /\ IsRecord(copy[p])
          /\ p > 1 => /\ copy[p].previous_hash = copy[p - 1].record_hash
                      /\ ~ TextBefore(copy[p].recorded_at, copy[p - 1].recorded_at)
      BY <1>1, <1>3, <2>2 DEF ChainInv, AuditTypeOK, Checked, Links, LinkedToPrevious, NotBackward
    <2>4. AuditTypeOK' /\ LogLinked'
      BY <1>1, <2>1, <2>2 DEF ChainInv, AuditTypeOK, LogLinked
    <2>5. Checked'
      BY <1>1, <2>1, <2>2, <2>3 DEF ChainInv, Checked
    <2>6. Agrees'
      <3> SUFFICES ASSUME NEW n \in DOMAIN log, copy[p].record_hash = log[n].record_hash
                   PROVE  p = n /\ \A k \in 1..p : copy[k] = log[k]
        BY <1>1, <2>1, <2>2 DEF ChainInv, Agrees
      <3>1. IsRecord(log[n]) /\ log[n].record_hash = Hash(log[n]) /\ log[n].sequence = n
            /\ (n > 1 => log[n].previous_hash = log[n - 1].record_hash)
        BY DEF ChainInv, AuditTypeOK, LogLinked
      <3>2. copy[p] = log[n] /\ p = n
        BY <2>3, <3>1, DigestCovers
      <3>3. \A k \in 1..position : copy[k] = log[k]
        <4>1. CASE position = 0
          BY <4>1
        <4>2. CASE position > 0
          <5>1. copy[position].record_hash = log[position].record_hash
            BY <2>2, <2>3, <3>1, <3>2, <4>2
          <5>2. position \in 1..position /\ position \in DOMAIN log
            BY <2>2, <3>2, <4>2
          <5> QED  BY <5>1, <5>2 DEF ChainInv, Agrees
        <4> QED  BY <2>2, <4>1, <4>2
      <3> QED  BY <2>2, <3>2, <3>3
    <2>7. InOrder'
      <3>1. p > 1 => copy[p - 1].recorded_at.second <= copy[p].recorded_at.second
        <4>1. p > 1 => /\ copy[p].recorded_at.second \in Nat
                       /\ copy[p - 1].recorded_at.second \in Nat
          BY <2>2, InstantAssumption DEF ChainInv, AuditTypeOK, IsRecord
        <4> QED  BY <2>3, <4>1 DEF TextBefore
      <3>2. \A k \in 1..p : copy[k].recorded_at.second \in Nat
        BY <2>2, InstantAssumption DEF ChainInv, AuditTypeOK, IsRecord
      <3>3. \A k \in 1..position : copy[k].recorded_at.second <= copy[p].recorded_at.second
        <4> SUFFICES ASSUME NEW k \in 1..position
                     PROVE  copy[k].recorded_at.second <= copy[p].recorded_at.second
          OBVIOUS
        <4>1. copy[k].recorded_at.second <= copy[p - 1].recorded_at.second
          BY <2>2 DEF ChainInv, InOrder
        <4> QED  BY <2>2, <3>1, <3>2, <4>1
      <3>4. SUFFICES ASSUME NEW i \in 1..p, NEW j \in 1..p, i <= j
                     PROVE  copy[i].recorded_at.second <= copy[j].recorded_at.second
        BY <1>1, <2>1 DEF InOrder
      <3>5. CASE j \in 1..position
        BY <2>2, <3>4, <3>5 DEF ChainInv, InOrder
      <3>6. CASE j = p
        BY <2>2, <3>2, <3>3, <3>6
      <3> QED  BY <2>2, <3>5, <3>6
    <2> QED  BY <2>4, <2>5, <2>6, <2>7 DEF ChainInv
  <1> QED  BY <1>2, <1>3

LEMMA AcceptStep ==
    ASSUME ChainInv, Accept
    PROVE  ChainInv'
  BY DEF ChainInv, AuditTypeOK, LogLinked, Checked, Agrees, InOrder, Accept

LEMMA ChainNext == ChainInv /\ [AuditNext]_auditVars => ChainInv'
  <1> SUFFICES ASSUME ChainInv, [AuditNext]_auditVars PROVE ChainInv'
    OBVIOUS
  <1>1. CASE UNCHANGED auditVars
    BY <1>1 DEF auditVars, ChainInv, AuditTypeOK, LogLinked, Checked, Agrees, InOrder
  <1> QED
    BY <1>1, AppendStep, TakeCopyStep, ChangeStep, ParseStep, LinkStep, AcceptStep DEF AuditNext

------------------------------------------------------------------------------
(* The theorems                                                             *)

\* The log is linked, what was checked of the copy is linked and in order, and
\* where it has a digest of the log it is the log (audit_chain.py:203-236).
THEOREM ChainInvariant == AuditSpec => []ChainInv
  BY ChainInit, ChainNext, PTL DEF AuditSpec

\* An accepted copy whose head digest is one of the log's is the log up to that
\* record, whatever was done to the copy and however far the log has grown
\* (audit_chain.py:211-220).
THEOREM KnownHeadIdentifiesLog == AuditSpec => []HeadIdentifiesLog
  <1>1. ChainInv => HeadIdentifiesLog
    <2> SUFFICES ASSUME ChainInv, phase = "accepted", NEW n \in DOMAIN log,
                        log[n].record_hash = HeadHash(copy)
                 PROVE  copy = SubSeq(log, 1, n)
      BY DEF HeadIdentifiesLog
    <2> DEFINE S == {log[k] : k \in DOMAIN log} \cup {copy[k] : k \in DOMAIN copy}
    <2>1. /\ Len(log) \in Nat /\ DOMAIN log = 1..Len(log)
          /\ Len(copy) \in Nat /\ DOMAIN copy = 1..Len(copy)
      BY SequenceLength DEF ChainInv, AuditTypeOK
    <2>2. copy \in Seq(S) /\ log \in Seq(S)
      BY SeqMonotonic DEF ChainInv, AuditTypeOK, IsSequence
    <2>3. position = Len(copy) /\ copy # << >> /\ Len(copy) > 0
      BY <2>1, <2>2, EmptySeq DEF ChainInv, Checked
    <2>4. copy[Len(copy)].record_hash = log[n].record_hash
      BY <2>3 DEF HeadHash
    <2>5. n = Len(copy) /\ \A k \in 1..n : copy[k] = log[k]
      BY <2>1, <2>3, <2>4 DEF ChainInv, Agrees
    <2>6. /\ SubSeq(log, 1, n) \in Seq(S) /\ Len(SubSeq(log, 1, n)) = n
          /\ \A k \in 1..n : SubSeq(log, 1, n)[k] = log[k]
      BY <2>1, <2>2, <2>3, <2>5, SubSeqProperties, ElementOfSeq
    <2> QED  BY <2>2, <2>5, <2>6, SeqEqual
  <1> QED  BY <1>1, ChainInvariant, PTL

\* The seconds of an accepted chain never decrease, though its instants are
\* compared as text (audit_chain.py:223).
THEOREM AcceptedChainsInTimeOrder == AuditSpec => []AcceptedInTimeOrder
  <1>1. ChainInv => AcceptedInTimeOrder
    <2> SUFFICES ASSUME ChainInv, phase = "accepted"
                 PROVE  \A i, j \in DOMAIN copy :
                           i < j => copy[i].recorded_at.second <= copy[j].recorded_at.second
      BY DEF AcceptedInTimeOrder
    <2>1. DOMAIN copy = 1..position /\ position \in Nat
      BY SequenceLength DEF ChainInv, AuditTypeOK, Checked
    <2> QED  BY <2>1 DEF ChainInv, InOrder
  <1> QED  BY <1>1, ChainInvariant, PTL
==============================================================================
