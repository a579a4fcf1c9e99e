--------------------------- MODULE LifecycleHistory ---------------------------
(***************************************************************************)
(* Signed voluntary releases (dns_assignment_lifecycle.py) and the          *)
(* release_event table as LifecycleJournal._releases reads it.              *)
(*                                                                          *)
(* ReleaseClaim[r] is the signed content of release r.  The fields          *)
(* create_release copies from the receipt are told apart by the acceptance, *)
(* the task and the key.                                                    *)
(***************************************************************************)
EXTENDS JournalHistory

CONSTANTS
    Release,        \* digests of signed release files
    NoRelease,      \* no release expected, or none retained
    ReleaseClaim    \* [Release -> ReleaseRecord]

ReleaseRecord ==
    [acceptance : Acceptance, task : Task, key : Key, signer : Key,
     policy : Policy, released : Instant, expires : Instant]

ASSUME NoReleaseAssumption == NoRelease \notin Release
ASSUME ReleaseClaimAssumption == ReleaseClaim \in [Release -> ReleaseRecord]

ReleaseRow ==
    [acceptance : Acceptance, release : Release, verified : Instant]

\* targets[a] of _releases: some acceptance row has this digest.
Retained(rows, a) == \E i \in 1..Len(rows) : rows[i].acceptance = a

RowOf(rows, a) == rows[CHOOSE i \in 1..Len(rows) : rows[i].acceptance = a]

\* What _releases demands of row k: a retained target released only here, the
\* target's own key and policy, and times inside the target's.
ReleaseLinked(rows, releases, k) ==
    LET r == releases[k]
        c == ReleaseClaim[r.release]
    IN  /\ c.acceptance = r.acceptance
        /\ Retained(rows, r.acceptance)
        /\ \A j \in 1..(k-1) : releases[j].acceptance # r.acceptance
        /\ c.task = TaskOf(r.acceptance)
        /\ c.key = Claim[r.acceptance].key
        /\ c.policy = Claim[r.acceptance].policy
        /\ RowOf(rows, r.acceptance).verified <= c.released
        /\ c.released <= r.verified
        /\ r.verified < c.expires
        /\ c.expires <= Claim[r.acceptance].expires

\* _releases returns without raising.
ReleasesOK(rows, releases) ==
    /\ Len(releases) <= MAX_EVENTS
    /\ \A k \in 1..Len(releases) : ReleaseLinked(rows, releases, k)

\* releases.get(a)
IsReleased(releases, a) == \E k \in 1..Len(releases) : releases[k].acceptance = a

ReleaseOf(releases, a) ==
    releases[CHOOSE k \in 1..Len(releases) : releases[k].acceptance = a]

\* release['release_sha256'] if release else None
ReleaseDigest(releases, a) ==
    IF IsReleased(releases, a) THEN ReleaseOf(releases, a).release ELSE NoRelease

\* _verify: the release is the key holder's own, under the same policy, of an
\* acceptance that is still in force, and within the release's own interval.
VerifyRelease(r, target, pin, now) ==
    LET c == ReleaseClaim[r] IN
    /\ c.policy = pin
    /\ c.acceptance = target.acceptance
    /\ c.task = TaskOf(target.acceptance)
    /\ c.key = Claim[target.acceptance].key
    /\ StateOf(target, pin, now) = "eligible_for_reverification"
    /\ target.verified <= c.released
    /\ c.released <= now
    /\ now < c.expires
    /\ c.expires <= Claim[target.acceptance].expires
    /\ c.expires <= c.released + Authority[pin].maximum_validity
    /\ c.signer = c.key
==============================================================================
