--------------------------- MODULE RemovalDeletion ---------------------------
(***************************************************************************)
(* Deleting Removals that never finalized, against concurrent submit       *)
(* attempts: a deleting process claims every ledger row of the Removal and *)
(* leases the Removal itself, removes the registry records in separate     *)
(* fenced calls, and then either removes the Removal locally or hands the  *)
(* rows back.  Submit attempts are those of RemovalSubmission, with the    *)
(* two things they check about a deletion.                                 *)
(***************************************************************************)
EXTENDS RemovalSubmission

CONSTANTS
    Deleters,       \* server processes that run deletions
    CleanupFails    \* a registry call or a transaction of a deletion may fail

ASSUME DeletersAssumption == Deleters \subseteq Owners \ Attempts
ASSUME CleanupAssumption == CleanupFails \in BOOLEAN

VARIABLES
    present,     \* present[r]: the Removal's own row exists
    lease,       \* lease[r]: removalDeletionLockedAt of the Removal
    deletion     \* deletion[d]: the local state of process d

removalVars == <<present, lease>>
deletionVars == <<vars, present, lease, deletion>>

DeletionSteps ==
    {"idle", "lookup", "entries", "rest", "finalize", "release"}

(* What a claim remembers of each row, to hand it back.                    *)
Held == [lockedAt : Locks, outcome : Outcomes]
(* A GHG Entry to delete: its version names the reference it is under.     *)
Targets == [ver : 1 .. MaxVersion, id : Nat]

Deletion ==
    [pc          : DeletionSteps,
     rem         : Removals,
     stamp       : Locks,                    \* claim.lockedAt
     held        : Seq(Held),                \* lockedSubmissions
     unconfirmed : SUBSET (1 .. MaxVersion), \* rows without an external id
     targets     : SUBSET Targets]           \* GHG Entries still to delete

NoDeletion ==
    [pc |-> "idle", rem |-> SomeRemoval, stamp |-> NoLock, held |-> << >>,
     unconfirmed |-> {}, targets |-> {}]

DeletionTypeOK ==
    /\ TypeOK
    /\ present \in [Removals -> BOOLEAN]
    /\ lease \in [Removals -> Locks]
    /\ deletion \in [Deleters -> Deletion]

DeletionInit ==
    /\ Init
    /\ present = [r \in Removals |-> TRUE]
    /\ lease = [r \in Removals |-> NoLock]
    /\ deletion = [d \in Deleters |-> NoDeletion]

-----------------------------------------------------------------------------
(* Helpers.                                                                *)

LeaseIsFresh(r) == lease[r] # NoLock /\ clock - lease[r].at < LockTTL

Target(d) == deletion[d].rem
EntryRef(r, v) == [kind |-> "entry", rem |-> r, ver |-> v]
InputsOf(r) == {ref \in References : ref.kind = "inputs" /\ ref.rem = r}

DeletionAt(d, pc) == deletion[d].pc = pc
DeletionGoto(d, pc) == deletion' = [deletion EXCEPT ![d].pc = pc]
AbandonCleanup(d) == DeletionGoto(d, "release")

EverFinalized(r) ==
    \E v \in Versions(r) : ledger[r][v].status \in FinalizedStatuses

\* Mutant: an attempt in flight does not refuse the deletion.
DeletableInFlight(r) ==
    /\ ~EverFinalized(r)
    /\ \A v \in Versions(r) :
        ~(LockIsFresh(ledger[r][v], clock) /\ ledger[r][v].outcome = "deleting")

Deletable(r) ==
    /\ ~EverFinalized(r)
    /\ \A v, w \in Versions(r) :
        ledger[r][v].status = "draft" /\ ledger[r][w].status = "draft" => v = w
    /\ \A v \in Versions(r) : LockIsFresh(ledger[r][v], clock) =>
        /\ ledger[r][v].outcome # "deleting"
        /\ ledger[r][v].status = "draft" => ledger[r][v].outcome = "interrupted"

\* Mutant: the fence trusts the lease and does not read the ledger again.
LeasedOnly(d) == present[Target(d)] /\ lease[Target(d)] = deletion[d].stamp

\* assertLedgerUnchangedSinceClaim, behind the Removal row and the lease.
Fence(d) ==
    LET r == Target(d)
    IN  /\ present[r]
        /\ lease[r] = deletion[d].stamp
        /\ Len(ledger[r]) = Len(deletion[d].held)
        /\ \A v \in Versions(r) :
            /\ ledger[r][v].status \notin FinalizedStatuses
            /\ ledger[r][v].lockedAt = deletion[d].stamp

\* The registry no longer has the records ids[ref], for each ref in refs.
DeleteRecords(refs, ids) ==
    registry' = [ref \in References |-> [id \in DOMAIN registry[ref] |->
        registry[ref][id] /\ ~(ref \in refs /\ id \in ids)]]

\* The call succeeds, is refused, or fails without saying whether it deleted.
RegistryDelete(d, refs, ids, next) ==
    \/ DeleteRecords(refs, ids) /\ deletion' = [deletion EXCEPT ![d] = next]
    \/ CleanupFails /\ AbandonCleanup(d) /\ UNCHANGED registry
    \/ CleanupFails /\ AbandonCleanup(d) /\ DeleteRecords(refs, ids)

-----------------------------------------------------------------------------
(* The deleting process.                                                   *)

\* claimRemovalDeletion: one transaction under the Removal row and the
\* artifact lock; a Removal without ledger rows has nothing to clean up.
ClaimDeletion(d, r) ==
    LET stamp == [by |-> d, at |-> clock]
        rows == ledger[r]
    IN  /\ DeletionAt(d, "idle")
        /\ present[r] /\ ~LeaseIsFresh(r)
        /\ locker[r] = None
        /\ Deletable(r)
        /\ ledger' = [ledger EXCEPT ![r] = [v \in DOMAIN rows |->
               [rows[v] EXCEPT !.lockedAt = stamp, !.outcome = "deleting"]]]
        /\ lease' = [lease EXCEPT ![r] = stamp]
        /\ deletion' = [deletion EXCEPT ![d] =
               [pc |-> IF rows = << >> THEN "finalize" ELSE "lookup",
                rem |-> r, stamp |-> stamp,
                held |-> [v \in DOMAIN rows |->
                    [lockedAt |-> rows[v].lockedAt,
                     outcome |-> IF rows[v].outcome = "deleting" THEN "none"
                                 ELSE rows[v].outcome]],
                unconfirmed |-> {v \in DOMAIN rows : rows[v].ext = 0},
                targets |-> {[ver |-> v, id |-> rows[v].ext] :
                    v \in {u \in DOMAIN rows : rows[u].ext # 0}}]]
        /\ UNCHANGED <<clock, content, claimed, reserved, locker,
                       attempt, registry, wire, present>>

\* Mutant: only entries with a journaled id are deleted.
SkipLookups(d) ==
    DeletionAt(d, "lookup") /\ DeletionGoto(d, "entries")
        /\ UNCHANGED <<vars, present, lease>>

\* A GHG Entry whose POST may have landed is looked for by its reference.
LookupEntry(d) ==
    /\ DeletionAt(d, "lookup")
    /\ \/ /\ deletion[d].unconfirmed = {}
          /\ DeletionGoto(d, "entries")
       \/ \E v \in deletion[d].unconfirmed :
            LET ref == EntryRef(Target(d), v)
                found == {[ver |-> v, id |-> id] : id \in Matches(ref)}
            IN  \E targets \in IF found = {} THEN {{}} ELSE {{t} : t \in found} :
                    deletion' = [deletion EXCEPT
                        ![d].unconfirmed = @ \ {v}, ![d].targets = @ \cup targets]
       \/ CleanupFails /\ AbandonCleanup(d)
    /\ UNCHANGED <<vars, present, lease>>

\* Each GHG Entry is deleted under the locks, after the fence.
DeleteEntry(d) ==
    /\ DeletionAt(d, "entries")
    /\ \/ /\ deletion[d].targets = {}
          /\ DeletionGoto(d, "rest")
          /\ UNCHANGED registry
       \/ \E t \in deletion[d].targets :
            /\ locker[Target(d)] = None
            /\ \/ ~Fence(d) /\ AbandonCleanup(d) /\ UNCHANGED registry
               \/ /\ Fence(d)
                  /\ RegistryDelete(d, {EntryRef(Target(d), t.ver)}, {t.id},
                        [deletion[d] EXCEPT !.targets = @ \ {t}])
    /\ UNCHANGED <<ledgerVars, attempt, wire, present, lease>>

\* Applications, measurement samples and production batches; a production
\* batch another Removal shares is retained.
DeleteRest(d) ==
    /\ DeletionAt(d, "rest")
    /\ locker[Target(d)] = None
    /\ \/ ~Fence(d) /\ AbandonCleanup(d) /\ UNCHANGED registry
       \/ /\ Fence(d)
          /\ \E refs \in {{}, InputsOf(Target(d))} :
                RegistryDelete(d, refs, Nat,
                    [deletion[d] EXCEPT !.pc = "finalize"])
    /\ UNCHANGED <<ledgerVars, attempt, wire, present, lease>>

\* Mutant: only stamped claims are freed.
FreeClaims(r) ==
    /\ claimed' = [b \in Batches |-> IF claimed[b] = r THEN None ELSE claimed[b]]
    /\ UNCHANGED reserved

FreeProduction(r) ==
    /\ claimed' = [b \in Batches |-> IF claimed[b] = r THEN None ELSE claimed[b]]
    /\ reserved' = [b \in Batches |->
           IF reserved[b].rem = r THEN NoSubmission ELSE reserved[b]]

\* finalizeRemovalDeletion: the rows stay as history, everything else goes.
FinalizeDeletion(d) ==
    LET r == Target(d)
    IN  /\ DeletionAt(d, "finalize")
        /\ locker[r] = None
        /\ \/ /\ Fence(d)
              /\ ledger' = [ledger EXCEPT ![r] = [v \in DOMAIN @ |->
                    [@[v] EXCEPT !.status = "rejected", !.lockedAt = NoLock,
                        !.outcome = "none", !.mutation = "unset"]]]
              /\ FreeProduction(r)
              /\ present' = [present EXCEPT ![r] = FALSE]
              /\ lease' = [lease EXCEPT ![r] = NoLock]
              /\ deletion' = [deletion EXCEPT ![d] = NoDeletion]
           \/ /\ ~Fence(d) \/ CleanupFails
              /\ AbandonCleanup(d)
              /\ UNCHANGED <<ledger, reserved, claimed, present, lease>>
        /\ UNCHANGED <<clock, content, locker, attempt, registry, wire>>

\* releaseRemovalDeletionClaim: only the holder of the lease hands rows back,
\* and only rows that still carry its stamp; a failure of it is only logged.
ReleaseDeletion(d) ==
    LET r == Target(d)
        held == deletion[d].held
    IN  /\ DeletionAt(d, "release")
        /\ \/ /\ present[r] /\ lease[r] = deletion[d].stamp
              /\ lease' = [lease EXCEPT ![r] = NoLock]
              /\ ledger' = [ledger EXCEPT ![r] = [v \in DOMAIN @ |->
                    IF v \in DOMAIN held /\ @[v].lockedAt = deletion[d].stamp
                      THEN [@[v] EXCEPT !.lockedAt = held[v].lockedAt,
                               !.outcome = held[v].outcome]
                      ELSE @[v]]]
           \/ /\ ~present[r] \/ lease[r] # deletion[d].stamp \/ CleanupFails
              /\ UNCHANGED <<lease, ledger>>
        /\ deletion' = [deletion EXCEPT ![d] = NoDeletion]
        /\ UNCHANGED <<clock, content, claimed, reserved, locker,
                       attempt, registry, wire, present>>

CrashDeletion(d) ==
    /\ Crashes
    /\ ~DeletionAt(d, "idle")
    /\ deletion' = [deletion EXCEPT ![d] = NoDeletion]
    /\ UNCHANGED <<vars, present, lease>>

-----------------------------------------------------------------------------
(* Submit attempts in the presence of deletions.                           *)

\* The claim's transaction refuses a leased Removal, and a draft of one that
\* is gone; a resume reads only ledger rows.
RefusesClaim(a) ==
    \/ /\ attempt[a].pc \in {"creating", "resuming"}
       /\ LeaseIsFresh(attempt[a].rem)
    \/ Is(a, "creating") /\ ~present[attempt[a].rem]

\* Mutant: the gates use what the call loaded.
NeverRefuses(a) == FALSE

\* The two gates that read the Removal again find it gone.
RefusesGate(a) ==
    attempt[a].pc \in {"scope", "rebuild"} /\ ~present[attempt[a].rem]

RefusedClaim(a) ==
    /\ RefusesClaim(a)
    /\ locker[attempt[a].rem] = None
    /\ Stop(a)
    /\ UNCHANGED <<ledgerVars, registry, wire, present, lease, deletion>>

RefusedGate(a) ==
    /\ RefusesGate(a)
    /\ Throw(a)
    /\ UNCHANGED <<ledgerVars, registry, wire, present, lease, deletion>>

StartSubmit(a, r) ==
    present[r] /\ Load(a, r) /\ UNCHANGED <<present, lease, deletion>>

ContinueSubmit(a) ==
    /\ ~Is(a, "idle") /\ ~RefusesClaim(a) /\ ~RefusesGate(a)
    /\ Step(a)
    /\ UNCHANGED <<present, lease, deletion>>

Environment ==
    /\ \/ \E a \in Attempts : Crash(a)
       \/ \E req \in wire : Deliver(req)
       \/ \E r \in Removals : Change(r)
       \/ Tick
    /\ UNCHANGED <<present, lease, deletion>>

SubmitStep(a) ==
    \/ \E r \in Removals : StartSubmit(a, r)
    \/ ContinueSubmit(a) \/ RefusedClaim(a) \/ RefusedGate(a)

DeleteStep(d) ==
    \/ \E r \in Removals : ClaimDeletion(d, r)
    \/ LookupEntry(d) \/ DeleteEntry(d) \/ DeleteRest(d)
    \/ FinalizeDeletion(d) \/ ReleaseDeletion(d)

DeletionNext ==
    \/ \E a \in Attempts : SubmitStep(a)
    \/ \E d \in Deleters : DeleteStep(d) \/ CrashDeletion(d)
    \/ Environment

DeletionSpec == DeletionInit /\ [][DeletionNext]_deletionVars

\* A running process reaches its next step: registry calls time out after 30
\* seconds, and the transactions that wait for the artifact lock are queued.
ProgressDeletion(d) == DeleteStep(d) /\ ~DeletionAt(d, "idle")
DeletionFairness ==
    /\ \A a \in Attempts : WF_deletionVars(SubmitStep(a) /\ ~Is(a, "idle"))
    /\ \A d \in Deleters :
        /\ WF_deletionVars(ProgressDeletion(d))
        /\ SF_deletionVars(DeleteEntry(d))
        /\ SF_deletionVars(DeleteRest(d))
        /\ SF_deletionVars(FinalizeDeletion(d))

FairDeletionSpec == DeletionSpec /\ DeletionFairness

-----------------------------------------------------------------------------
(* Properties.                                                             *)

LiveEntries(r) ==
    {ref \in References : ref.kind = "entry" /\ ref.rem = r /\ Found(ref)}

(* A deleted Removal is never submitted, whatever an attempt that loaded   *)
(* it before still does.                                                   *)
DeletedNeverSubmitted ==
    \A r \in Removals : ~present[r] =>
        \A v \in Versions(r) : ledger[r][v].status \notin ActiveStatuses

(* A deleted Removal leaves no GHG Entry at the registry: not one whose    *)
(* POST went unanswered, nor one a retried cleanup had not reached.        *)
DeletedLeavesNoEntry ==
    \A r \in Removals : ~present[r] => LiveEntries(r) = {}

(* A deleted Removal keeps no credit batch from another Removal.           *)
DeletedHoldsNothing ==
    \A r \in Removals : ~present[r] =>
        \A b \in Batches : claimed[b] # r /\ reserved[b].rem # r

(* A GHG Entry is never deleted under an attempt that is sending, gating   *)
(* or finishing for its Removal.                                           *)
NoDeleteUnderSender ==
    [][\A ref \in References :
        (\E id \in Matches(ref) : ~registry'[ref][id]) =>
            \A a \in Attempts :
                attempt[a].pc \in Owning => attempt[a].rem # ref.rem]_deletionVars

(* The registry entry a submitted version names exists.                    *)
SubmittedEntryIsRegistered ==
    \A s \in SubmissionIds : RowOf(s).status = "submitted" =>
        RowOf(s).ext \in Matches(EntryOf(s))

(* No deletion waits forever.                                              *)
EveryDeletionEnds ==
    \A d \in Deleters : ~DeletionAt(d, "idle") ~> DeletionAt(d, "idle")

(* What the rest of the system may rely on: every Removal ends submitted   *)
(* or deleted, never both, and batches keep their one owner.               *)
Phase == [r \in Removals |->
    IF ~present[r] THEN "deleted"
    ELSE IF \E v \in Versions(r) : ledger[r][v].status = "submitted"
      THEN "submitted"
    ELSE "open"]

Accounting == INSTANCE RemovalAccounting WITH phase <- Phase, owner <- claimed

SubmittedOrDeleted == Accounting!AccountingSpec
=============================================================================
