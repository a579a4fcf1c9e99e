------------------------------ MODULE AuditChain ------------------------------
(***************************************************************************)
(* audit_chain.py: a recorder appends linked records to a log, a copy of    *)
(* the log reaches a reader after any number of changes to it, and the      *)
(* reader's verifier walks the copy while the log goes on growing.          *)
(*                                                                          *)
(* SHA-256 is the value it digests, so that equal digests mean equal        *)
(* contents.  An instant is its second and its fraction, because            *)
(* recorded_at is compared as text and isoformat leaves a zero fraction     *)
(* out.                                                                     *)
(***************************************************************************)
EXTENDS Integers, Sequences

CONSTANTS
    RequestId,      \* request ids
    Instant,        \* [second, fraction] of recorded_at
    AuditDecision,  \* [effect, stage, key_version] a caller may record
    NoHash,         \* None, the previous_hash of the first record
    NoKey,          \* None, the key_version of an unverified request
    MaxLength,      \* bound on the log
    MaxChanges      \* bound on the changes to the copy

\* _timestamp
ASSUME InstantAssumption == Instant \subseteq [second : Nat, fraction : Nat]

VARIABLES
    log,            \* the records appended
    copy,           \* the records of the file given to the verifier
    changes,        \* changes made to the copy
    phase,          \* none, taken, parsed, accepted or rejected
    position        \* records of the copy whose links have been checked

auditVars == <<log, copy, changes, phase, position>>

\* unsigned_dict: every field but the digest
Unsigned(r) ==
    [sequence |-> r.sequence, recorded_at |-> r.recorded_at, request_id |-> r.request_id,
     decision |-> r.decision, previous_hash |-> r.previous_hash]

Hash(r) == [digest |-> Unsigned(r)]

\* build_audit_record
Record(sequence, recorded_at, request_id, decision, previous_hash) ==
    LET unsigned == [sequence |-> sequence, recorded_at |-> recorded_at,
                     request_id |-> request_id, decision |-> decision,
                     previous_hash |-> previous_hash]
    IN  [sequence |-> sequence, recorded_at |-> recorded_at, request_id |-> request_id,
         decision |-> decision, previous_hash |-> previous_hash,
         record_hash |-> Hash(unsigned)]

\* The cross-field rules of AuditRecord.from_dict
DecisionAccepted(d) ==
    /\ d.effect \in {"allow", "deny", "step_up"} /\ d.stage \in {"verification", "policy"}
    /\ d.stage = "verification" => d.effect = "deny"
    /\ d.stage = "policy" => d.key_version # NoKey

\* AuditRecord.from_dict
RecordParses(r) ==
    /\ r.sequence >= 1
    /\ DecisionAccepted(r.decision)
    /\ r.record_hash = Hash(r)

\* recorded_at < recorded_at as text: "...01.5Z" < "...01Z", for '.' < 'Z'
TextBefore(s, t) ==
    \/ s.second < t.second
    \/ /\ s.second = t.second
       /\ s.fraction # 0
       /\ t.fraction = 0 \/ s.fraction < t.fraction

HeadHash(records) ==
    IF records = << >> THEN NoHash ELSE records[Len(records)].record_hash

AuditInit ==
    /\ log = << >> /\ copy = << >>
    /\ changes = 0
    /\ phase = "none"
    /\ position = 0

------------------------------------------------------------------------------
\* The recorder builds the next record from its log's head and appends it; a
\* decision that breaks a rule raises.  Its clock may be set back.
AppendRecord(recorded_at, request_id, decision) ==
    /\ Len(log) < MaxLength
    /\ DecisionAccepted(decision)
    /\ log' = Append(log, Record(Len(log) + 1, recorded_at, request_id, decision, HeadHash(log)))
    /\ UNCHANGED <<copy, changes, phase, position>>

TakeCopy ==
    /\ phase = "none"
    /\ copy' = log
    /\ phase' = "taken"
    /\ UNCHANGED <<log, changes, position>>

Removed(i) == [j \in 1..(Len(copy) - 1) |-> IF j < i THEN copy[j] ELSE copy[j + 1]]

\* The copy changes: a record is lost, two change places, a field changes under
\* its old digest, or a record is built anew with the digest it then has.
Change ==
    /\ phase = "taken" /\ changes < MaxChanges
    /\ \E i \in DOMAIN copy :
         \/ copy' = Removed(i)
         \/ \E j \in DOMAIN copy : copy' = [copy EXCEPT ![i] = copy[j], ![j] = copy[i]]
         \/ \E d \in AuditDecision : copy' = [copy EXCEPT ![i].decision = d]
         \/ \E t \in Instant, id \in RequestId, d \in AuditDecision, h \in {NoHash, copy[i].previous_hash} :
              copy' = [copy EXCEPT ![i] = Record(copy[i].sequence, t, id, d, h)]
    /\ changes' = changes + 1
    /\ UNCHANGED <<log, phase, position>>

\* parse_json_lines: every line parses, or the first that does not raises; then
\* verify_audit_chain refuses an empty chain.
Parse ==
    /\ phase = "taken"
    /\ phase' = IF copy # << >> /\ \A i \in DOMAIN copy : RecordParses(copy[i])
                THEN "parsed" ELSE "rejected"
    /\ UNCHANGED <<log, copy, changes, position>>

\* Mutated form: a later record's link is not compared.
FirstUnlinked(i) == i = 1 => copy[i].previous_hash = NoHash

LinkedToPrevious(i) ==
    copy[i].previous_hash = IF i = 1 THEN NoHash ELSE copy[i - 1].record_hash

\* Mutated form: the later instant comes first.
LaterFirst(i) ==
    i > 1 => ~ TextBefore(copy[i - 1].recorded_at, copy[i].recorded_at)

NotBackward(i) ==
    i > 1 => ~ TextBefore(copy[i].recorded_at, copy[i - 1].recorded_at)

\* The checks of verify_audit_chain for one record, given those before it
Links(i) ==
    /\ copy[i].sequence = i
    /\ LinkedToPrevious(i)
    /\ \A j \in 1..(i - 1) : copy[j].request_id # copy[i].request_id
    /\ NotBackward(i)

Link ==
    /\ phase = "parsed" /\ position < Len(copy)
    /\ IF Links(position + 1) THEN position' = position + 1 /\ UNCHANGED phase
       ELSE phase' = "rejected" /\ UNCHANGED position
    /\ UNCHANGED <<log, copy, changes>>

Accept ==
    /\ phase = "parsed" /\ position = Len(copy)
    /\ phase' = "accepted"
    /\ UNCHANGED <<log, copy, changes, position>>

AuditNext ==
    \/ \E t \in Instant, id \in RequestId, d \in AuditDecision : AppendRecord(t, id, d)
    \/ TakeCopy \/ Change \/ Parse \/ Link \/ Accept

AuditSpec == AuditInit /\ [][AuditNext]_auditVars

------------------------------------------------------------------------------
\* A reader who knows a head hash of the log can trust an accepted copy with that
\* head: it is the log up to that record, nothing lost, moved, changed or built
\* anew before it (audit_chain.py:212-218).
HeadIdentifiesLog ==
    phase = "accepted" =>
       \A n \in DOMAIN log :
          log[n].record_hash = HeadHash(copy) => copy = SubSeq(log, 1, n)

\* An accepted chain never goes back by a second (audit_chain.py:223), though its
\* instants are compared as text; within one second a text with a fraction sorts
\* before one without, and the chain may go back.
AcceptedInTimeOrder ==
    phase = "accepted" =>
       \A i, j \in DOMAIN copy : i < j => copy[i].recorded_at.second <= copy[j].recorded_at.second
==============================================================================
