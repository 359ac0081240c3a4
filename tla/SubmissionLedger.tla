-------------------------- MODULE SubmissionLedger --------------------------
(***************************************************************************)
(* The database side of certification submissions: the versioned ledger    *)
(* rows of every Removal, the production-input claims and reservations on  *)
(* the credit batches the Removals share, and the per-Removal artifact     *)
(* lock.  Each operator is one transaction of the data-access layer, as a  *)
(* relation between the state before and after it.                         *)
(***************************************************************************)
EXTENDS SubmissionClaim, FiniteSets

CONSTANTS
    Removals,    \* Removals (one registry GHG Entry each)
    Batches,     \* credit batches
    None,        \* SQL NULL for a reference to a Removal or an artifact lock
    Members,     \* Members[r]: the credit batches Removal r is built from
    Precedence,  \* Precedence[r]: rank of r's rows among draft contenders
    Content,     \* values of the data a Removal's payload is built from
    MaxVersion,  \* bound: ledger versions per Removal
    MaxTime      \* bound: clock ticks

ASSUME BoundsAssumption == MaxVersion \in Nat /\ MaxTime \in Nat
ASSUME ContentAssumption == Content # {}
ASSUME NoneAssumption == None \notin Removals \cup Owners
ASSUME MembersAssumption == Members \in [Removals -> SUBSET Batches]
ASSUME PrecedenceAssumption ==
    /\ Precedence \in [Removals -> Nat]
    /\ \A r, s \in Removals : Precedence[r] = Precedence[s] => r = s

VARIABLES
    clock,       \* database time
    content,     \* content[r]: what the live build of r's payload reads
    ledger,      \* ledger[r]: r's certification_submissions rows, by version
    claimed,     \* claimed[b]: productionEmissionsClaimedByRemovalId
    reserved,    \* reserved[b]: productionEmissionsClaimReservedBySubmissionId
    locker       \* locker[r]: process whose transaction holds the artifact lock

ledgerVars == <<clock, content, ledger, claimed, reserved, locker>>

(* The semantic payload: the data, and the member batches whose production *)
(* inputs it includes.                                                     *)
Payloads == [data : Content, prod : SUBSET Batches]

(* A submission id names a Removal and a version.                          *)
Submissions  == [rem : Removals, ver : Nat]
NoSubmission == [rem |-> None, ver |-> 0]

Versions(r) == 1 .. Len(ledger[r])

LedgerTypeOK ==
    /\ clock \in Nat
    /\ content \in [Removals -> Content]
    /\ ledger \in [Removals -> Seq(Rows(Payloads))]
    /\ claimed \in [Batches -> Removals \cup {None}]
    /\ reserved \in [Batches -> Submissions \cup {NoSubmission}]
    /\ locker \in [Removals -> Owners \cup {None}]

LedgerInit ==
    /\ clock = 0
    /\ content \in [Removals -> Content]
    /\ ledger = [r \in Removals |-> << >>]
    /\ claimed = [b \in Batches |-> None]
    /\ reserved = [b \in Batches |-> NoSubmission]
    /\ locker = [r \in Removals |-> None]

-----------------------------------------------------------------------------
(* Reads.                                                                  *)

IncludesProduction(claim, r) == claim \in {None, r}

ProductionBatches(r) ==
    {b \in Members[r] : IncludesProduction(claimed[b], r)}

LivePayload(r) == [data |-> content[r], prod |-> ProductionBatches(r)]

MemberClaims(r) ==
    [b \in Batches |-> IF b \in Members[r] THEN claimed[b] ELSE None]

\* Drafts whose lock has not passed the TTL, of Removals built from batch b.
Contenders(b) ==
    {s \in [rem : Removals, ver : 1 .. MaxVersion] :
        /\ b \in Members[s.rem]
        /\ s.ver \in Versions(s.rem)
        /\ LET row == ledger[s.rem][s.ver]
           IN  /\ row.status = "draft"
               /\ row.lockedAt # NoLock
               /\ row.lockedAt.at + LockTTL >= clock}

Precedes(s, t) ==
    \/ Precedence[s.rem] < Precedence[t.rem]
    \/ s.rem = t.rem /\ s.ver <= t.ver

WinsContention(s, b) == \A t \in Contenders(b) : Precedes(s, t)

LosesContention(s, b) ==
    Contenders(b) # {} /\ ~(s \in Contenders(b) /\ WinsContention(s, b))

\* The latest earlier version of r that is still active, 0 when there is none.
PreviousActive(r, v) ==
    LET active == {u \in 1 .. (v - 1) : ledger[r][u].status \in ActiveStatuses}
    IN  IF active = {} THEN 0
        ELSE CHOOSE u \in active : \A w \in active : w <= u

\* Mutant: any draft passes the compare-and-set.
IsDraft(r, v, stamp) == ledger[r][v].status = "draft"

HoldsLock(r, v, stamp) ==
    ledger[r][v].status = "draft" /\ ledger[r][v].lockedAt = stamp

-----------------------------------------------------------------------------
(* Writes.                                                                 *)

WriteRow(r, v, row) == ledger' = [ledger EXCEPT ![r][v] = row]

Release(s) == reserved' = [b \in Batches |->
                  IF reserved[b] = s THEN NoSubmission ELSE reserved[b]]

\* Mutant: the transaction's end does not free the artifact lock.
UnlockNever(r) == UNCHANGED locker

Unlock(r) == locker' = [locker EXCEPT ![r] = None]

InsertDraft(r, payload, prev, stamp) ==
    ledger' = [ledger EXCEPT ![r] = Append(@,
        [status |-> "draft", hash |-> payload, ext |-> 0, lockedAt |-> stamp,
         outcome |-> "none", mutation |-> "unset", refresh |-> FALSE,
         prev |-> prev])]

\* SQL now() is the time the transaction began, which waits for locks.
CanResetToDraft(row, bypassTTL, began) ==
    IF bypassTTL THEN row.status = "draft" /\ CanReclaimInterrupted(row)
    ELSE LockIsStale(row, began)

ResetToDraft(r, v, stamp) ==
    WriteRow(r, v, [ledger[r][v] EXCEPT
        !.status = "draft", !.lockedAt = stamp, !.outcome = "none"])

\* Mutant: the reservation of another submission is not looked at.
CanReserveUnclaimed(s, batches) ==
    /\ ledger[s.rem][s.ver].status = "draft"
    /\ \A b \in batches : claimed[b] \in {None, s.rem}

CanReserve(s, batches) ==
    /\ ledger[s.rem][s.ver].status = "draft"
    /\ \A b \in batches :
        /\ claimed[b] \in {None, s.rem}
        /\ \/ reserved[b] \in {NoSubmission, s}
           \/ CanTransferReservation(
                ledger[reserved[b].rem][reserved[b].ver], clock)

Reserve(s, batches) == reserved' = [b \in Batches |->
                           IF b \in batches THEN s ELSE reserved[b]]

RecordIdentity(r, v, ext) ==
    WriteRow(r, v, [ledger[r][v] EXCEPT !.ext = ext, !.mutation = "confirmed"])

MarkInterrupted(r, v, mutation) ==
    WriteRow(r, v, [ledger[r][v] EXCEPT
        !.outcome = "interrupted", !.mutation = mutation])

RetireDraft(r, v) ==
    IF ledger[r][v].status = "draft"
      THEN /\ WriteRow(r, v, [ledger[r][v] EXCEPT
                !.status = "superseded", !.lockedAt = NoLock])
           /\ Release([rem |-> r, ver |-> v])
      ELSE UNCHANGED <<ledger, reserved>>

\* Mutant: rejection keeps the reservations.
RejectOnly(r, v, stamp) ==
    /\ IF HoldsLock(r, v, stamp) /\ ~HasPossibleExternalMutation(ledger[r][v])
         THEN WriteRow(r, v, [ledger[r][v] EXCEPT !.status = "rejected",
                 !.lockedAt = NoLock, !.outcome = "none", !.mutation = "unset"])
         ELSE UNCHANGED ledger
    /\ UNCHANGED reserved

\* Rejection of the exact attempt; a row already definitive only releases.
RejectAndRelease(r, v, stamp) ==
    LET row == ledger[r][v]
    IN  IF HasPossibleExternalMutation(row)
          THEN UNCHANGED <<ledger, reserved>>
        ELSE IF HoldsLock(r, v, stamp)
          THEN /\ WriteRow(r, v, [row EXCEPT !.status = "rejected",
                    !.lockedAt = NoLock, !.outcome = "none",
                    !.mutation = "unset"])
               /\ Release([rem |-> r, ver |-> v])
        ELSE IF row.status \in {"rejected", "superseded"}
          THEN Release([rem |-> r, ver |-> v]) /\ UNCHANGED ledger
        ELSE UNCHANGED <<ledger, reserved>>

\* The claim stamps roll the whole transition back unless every batch is
\* still reserved by this submission and free of a foreign claim.
CanFinalize(s, stamp, batches) ==
    /\ HoldsLock(s.rem, s.ver, stamp)
    /\ \A b \in batches : reserved[b] = s /\ claimed[b] \in {None, s.rem}

\* Mutant: every member batch is stamped, not only the claimed ones.
FinalizeAllMembers(s, ext, prev, batches) ==
    /\ WriteRow(s.rem, s.ver, [ledger[s.rem][s.ver] EXCEPT
            !.status = "submitted", !.ext = ext, !.lockedAt = NoLock,
            !.outcome = "none", !.mutation = "unset"])
    /\ claimed' = [b \in Batches |->
            IF b \in Members[s.rem] THEN s.rem ELSE claimed[b]]
    /\ Release(s)

Finalize(s, ext, prev, batches) ==
    /\ ledger' = [ledger EXCEPT ![s.rem] = [v \in DOMAIN @ |->
            IF v = s.ver
              THEN [@[v] EXCEPT !.status = "submitted", !.ext = ext,
                      !.lockedAt = NoLock, !.outcome = "none",
                      !.mutation = "unset"]
            ELSE IF v = prev THEN [@[v] EXCEPT !.status = "superseded"]
            ELSE @[v]]]
    /\ claimed' = [b \in Batches |-> IF b \in batches THEN s.rem ELSE claimed[b]]
    /\ reserved' = [b \in Batches |->
            IF b \in batches THEN NoSubmission ELSE reserved[b]]
=============================================================================
