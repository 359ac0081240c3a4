--------------------------- MODULE SubmissionClaim ---------------------------
(***************************************************************************)
(* The claim policy of the certification submission ledger: what a caller  *)
(* that wants to submit may do, given the versions the ledger already      *)
(* holds for the same local record.  Pure operators, no state.             *)
(*                                                                         *)
(* A ledger is the sequence of the record's rows, oldest first, so a row's *)
(* version is its index.  Version 0 and external identity 0 stand for      *)
(* SQL NULL.  A payload hash is the payload itself (equality is all the    *)
(* code asks of it).                                                       *)
(***************************************************************************)
EXTENDS Naturals, Sequences

CONSTANTS
    Owners,      \* processes that can hold a ledger row's lock
    Nobody,      \* the owner of a row whose lockedAt is NULL
    LockTTL      \* age, in clock ticks, at which a row lock expires

ASSUME LockTTLAssumption == LockTTL \in Nat \ {0}
ASSUME NobodyAssumption == Nobody \notin Owners

Statuses  == {"draft", "submitted", "accepted", "rejected", "superseded"}
Outcomes  == {"none", "interrupted", "deleting"}
Mutations == {"unset", "none", "possible", "confirmed"}

(* lockedAt is a millisecond timestamp written by the claiming process.    *)
(* Two processes never write the same one, which the owner's name records. *)
Locks  == [by : Owners \cup {Nobody}, at : Nat]
NoLock == [by |-> Nobody, at |-> 0]

Rows(Payloads) ==
    [status   : Statuses,
     hash     : Payloads,
     ext      : Nat,
     lockedAt : Locks,
     outcome  : Outcomes,
     mutation : Mutations,
     refresh  : BOOLEAN,      \* evidenceRefreshCandidates is present
     prev     : Nat]          \* snapshot's supersedePreviousId

FinalizedStatuses == {"submitted", "accepted", "superseded"}
ActiveStatuses    == {"submitted", "accepted"}

-----------------------------------------------------------------------------
(* Predicates over one row.                                                *)

LockIsFresh(row, now) ==
    row.lockedAt # NoLock /\ now - row.lockedAt.at < LockTTL

\* The strict SQL comparison lockedAt < now() - TTL, or lockedAt IS NULL.
LockIsStale(row, now) ==
    row.lockedAt = NoLock \/ row.lockedAt.at + LockTTL < now

HasPossibleExternalMutation(row) == row.mutation \in {"possible", "confirmed"}

\* Mutant: the marker of a running attempt lets another one in.
CanReclaimConfirmed(row) == row.mutation = "confirmed"

CanReclaimInterrupted(row) ==
    row.outcome = "interrupted" /\ row.mutation = "confirmed"

CanRefreshEvidence(row) ==
    row.ext = 0 /\ row.mutation = "none" /\ row.refresh

\* Mutant: an expired draft loses its reservation whatever it wrote.
CanTransferExpired(row, now) ==
    \/ row.status \in {"rejected", "superseded"}
    \/ row.status = "draft" /\ ~LockIsFresh(row, now)

CanTransferReservation(row, now) ==
    /\ ~HasPossibleExternalMutation(row)
    /\ \/ row.status \in {"rejected", "superseded"}
       \/ row.status = "draft" /\ ~LockIsFresh(row, now)

-----------------------------------------------------------------------------
(* The decision.  policy.supersede is onSubmittedHashChanged = "supersede"; *)
(* policy.evidenceRefresh is allowEvidenceRefresh.                         *)

DecisionKinds == {"create", "resume", "existing", "blocked"}
Decisions == [kind : DecisionKinds, version : Nat, prev : Nat, reason : STRING]

CreateVersion(v, prev, reason) ==
    [kind |-> "create", version |-> v, prev |-> prev, reason |-> reason]
ResumeVersion(v) ==
    [kind |-> "resume", version |-> v, prev |-> 0, reason |-> "resumed"]
ReturnExisting(v) ==
    [kind |-> "existing", version |-> v, prev |-> 0, reason |-> "unchanged"]
Blocked(reason) ==
    [kind |-> "blocked", version |-> 0, prev |-> 0, reason |-> reason]

\* Mutant: an expired draft is replaced instead of resumed.
ReplaceExpiredDraft(row, v, now, policy) ==
    IF ~CanReclaimInterrupted(row) /\ LockIsFresh(row, now)
      THEN Blocked("in-flight")
    ELSE CreateVersion(v + 1, 0, "first")

DecideDraft(row, v, now, policy) ==
    IF ~CanReclaimInterrupted(row) /\ LockIsFresh(row, now)
      THEN Blocked("in-flight")
    ELSE IF policy.evidenceRefresh /\ CanRefreshEvidence(row)
      THEN CreateVersion(v + 1, v, "evidence-refresh")
    ELSE ResumeVersion(v)

\* Mutant: a changed submission is not superseded.
ForgetChangedActive(row, v, hash, policy) ==
    IF row.hash = hash /\ row.ext # 0 THEN ReturnExisting(v)
    ELSE CreateVersion(v + 1, 0, "submitted-hash-changed")

DecideActive(row, v, hash, policy) ==
    IF row.hash = hash /\ row.ext # 0 THEN ReturnExisting(v)
    ELSE IF policy.supersede
      THEN CreateVersion(v + 1, v, "submitted-hash-changed")
    ELSE Blocked("invalid-changed-hash")

DecideRejected(row, v, hash) ==
    IF row.ext # 0 THEN Blocked("rejected-with-external")
    ELSE IF row.hash = hash THEN ResumeVersion(v)
    ELSE CreateVersion(v + 1, 0, "rejected-hash-changed")

DecideSubmissionClaim(rows, hash, now, policy) ==
    IF rows = << >> THEN CreateVersion(1, 0, "first")
    ELSE LET v   == Len(rows)
             row == rows[v]
         IN CASE row.status = "draft"    -> DecideDraft(row, v, now, policy)
              [] row.status \in ActiveStatuses
                                         -> DecideActive(row, v, hash, policy)
              [] row.status = "rejected" -> DecideRejected(row, v, hash)
              [] row.status = "superseded"
                                 -> CreateVersion(v + 1, 0, "after-superseded")

RemovalPolicy == [supersede |-> TRUE, evidenceRefresh |-> TRUE]
StatementPolicy == [supersede |-> FALSE, evidenceRefresh |-> FALSE]
=============================================================================
