-------------------------- MODULE RemovalSubmission --------------------------
(***************************************************************************)
(* Submitting Removals to the registry: concurrent submit attempts (server *)
(* requests or background operations) over the submission ledger and the   *)
(* external registry, with crashes, lost answers and requests that land    *)
(* late.  An attempt's local variables live in attempt[a]; every action is *)
(* one transaction, one unlocked read, or one registry call.               *)
(***************************************************************************)
EXTENDS SubmissionLedger

CONSTANTS
    Attempts,          \* server processes that run submit attempts
    Timely,            \* no attempt outlives its row lock's TTL
    Crashes,           \* an attempt may stop at any point
    LateRequests,      \* a request without an answer may land later
    Drift,             \* payload inputs may change
    UniqueReferences,  \* the registry refuses a reference it already holds
    MaxRecords         \* bound: records ever created under one reference

ASSUME RemovalsAssumption == Removals # {}
ASSUME AttemptsAssumption == Attempts \subseteq Owners
ASSUME RecordsAssumption == MaxRecords \in Nat
ASSUME SwitchAssumption ==
    {Timely, Crashes, LateRequests, Drift, UniqueReferences} \subseteq BOOLEAN

VARIABLES
    attempt,     \* attempt[a]: the local state of process a
    registry,    \* registry[ref]: records created under supplier reference ref
    wire         \* requests the registry has not executed yet

vars == <<clock, content, ledger, claimed, reserved, locker,
          attempt, registry, wire>>

(* One supplier reference per kind, Removal and version.  "inputs" stands   *)
(* for what precedes the GHG Entry: production batches, datapoints and      *)
(* measurement samples, each created by the same routine.  The records made *)
(* under one reference are numbered from 1, which is their registry id;     *)
(* registry[ref][id] tells whether record id still exists.                  *)
Kinds      == {"inputs", "entry"}
References == [kind : Kinds, rem : Removals, ver : 1 .. MaxVersion]
Requests   == [ref : References, lock : Locks]

\* Mutant: the lookup does not tell record kinds apart.
MatchesAnyKind(ref) ==
    UNION {{id \in DOMAIN registry[[ref EXCEPT !.kind = kind]] :
        registry[[ref EXCEPT !.kind = kind]][id]} : kind \in Kinds}

Matches(ref) == {id \in DOMAIN registry[ref] : registry[ref][id]}
NewId(ref) == Len(registry[ref]) + 1

\* A lookup by supplier reference answers with any one of its matches.
Found(ref) == Matches(ref) # {}

CanCreate(ref) ==
    /\ NewId(ref) <= MaxRecords
    /\ ~UniqueReferences \/ ~Found(ref)

CreateRecord(ref) == registry' = [registry EXCEPT ![ref] = Append(@, TRUE)]

Preparing  == {"loaded", "creating", "resuming", "resetting"}
Gating     == {"revision", "scope", "contend", "rebuild", "retire", "reserve"}
Sending    == {"lookup", "post", "answer", "confirm"}
Finishing  == {"verify", "finalize", "fail"}
Owning     == Gating \cup Sending \cup Finishing
Steps      == {"idle"} \cup Preparing \cup Owning

Attempt ==
    [pc       : Steps,
     rem      : Removals,
     payload  : Payloads,     \* compiled by this call
     seen     : [Batches -> Removals \cup {None}],
     began    : Nat,          \* when the claim's transaction began
     ver      : Nat,          \* version claimed (or about to be reset)
     hash     : Payloads,     \* payload hash of the claimed row
     stamp    : Locks,        \* expectedLockedAt
     resumed  : BOOLEAN,
     bypass   : BOOLEAN,      \* reset without waiting for the TTL
     mutation : {"none", "possible", "confirmed"},
     prev     : Nat,          \* supersedePreviousId
     kind     : Kinds,        \* record being sent
     ext      : Nat]          \* registry id of the GHG Entry

SomeRemoval == CHOOSE r \in Removals : TRUE
Blank == [data |-> CHOOSE c \in Content : TRUE, prod |-> {}]
Idle ==
    [pc |-> "idle", rem |-> SomeRemoval, payload |-> Blank,
     seen |-> [b \in Batches |-> None], began |-> 0, ver |-> 0, hash |-> Blank,
     stamp |-> NoLock, resumed |-> FALSE, bypass |-> FALSE, mutation |-> "none",
     prev |-> 0, kind |-> "inputs", ext |-> 0]

TypeOK ==
    /\ LedgerTypeOK
    /\ attempt \in [Attempts -> Attempt]
    /\ registry \in [References -> Seq(BOOLEAN)]
    /\ wire \subseteq Requests

Init ==
    /\ LedgerInit
    /\ attempt = [a \in Attempts |-> Idle]
    /\ registry = [ref \in References |-> << >>]
    /\ wire = {}

-----------------------------------------------------------------------------
(* Helpers: what an attempt does to its own state.                         *)

Is(a, pc) == attempt[a].pc = pc
Row(a) == ledger[attempt[a].rem][attempt[a].ver]
Submission(a) == [rem |-> attempt[a].rem, ver |-> attempt[a].ver]
Reference(a) == [kind |-> attempt[a].kind, rem |-> attempt[a].rem,
                 ver |-> attempt[a].ver]
\* Mutant: a resumed attempt forgets what it claims.
ClaimBatchesOfCreate(a) ==
    {b \in Members[attempt[a].rem] : ~attempt[a].resumed
        /\ IncludesProduction(attempt[a].seen[b], attempt[a].rem)}

ClaimBatches(a) ==
    {b \in Members[attempt[a].rem] :
        IncludesProduction(attempt[a].seen[b], attempt[a].rem)}

Goto(a, pc) == attempt' = [attempt EXCEPT ![a].pc = pc]
Stop(a) == attempt' = [attempt EXCEPT ![a] = Idle]
Throw(a) == Goto(a, "fail")

\* Mutant: an unanswered request leaves the attempt mutation-free.
AdvanceConfirmed(old, new) == IF new = "confirmed" THEN new ELSE old

\* attempt.externalMutation only ever advances: none, possible, confirmed.
Advance(old, new) == IF new = "confirmed" \/ old = "none" THEN new ELSE old

ThrowWith(a, mutation) ==
    attempt' = [attempt EXCEPT ![a].pc = "fail",
        ![a].mutation = Advance(@, mutation)]

\* Mutant: an absent marker is not read as "none".
RawMutation(row) == IF row.ext # 0 THEN "confirmed" ELSE row.mutation

\* After a claim: resumed drafts start from the marker the row carries.
InheritedMutation(row) ==
    IF row.ext # 0 THEN "confirmed"
    ELSE IF HasPossibleExternalMutation(row) THEN row.mutation ELSE "none"

ResumedPrevious(r, v) ==
    IF ledger[r][v].prev # 0 THEN ledger[r][v].prev ELSE PreviousActive(r, v)

\* Mutant: a resumed attempt posts its GHG Entry without a lookup.
PostAfterInputs(a) == IF attempt[a].ext # 0 THEN "verify" ELSE "post"

\* Records are sent in order; a GHG Entry whose id is known is not sent.
NextAfterInputs(a) == IF attempt[a].ext # 0 THEN "verify"
                      ELSE IF attempt[a].resumed THEN "lookup" ELSE "post"

-----------------------------------------------------------------------------
(* Claiming a draft.                                                       *)

\* loadRemovalSubmissionContext and the compilation of the payload.
Load(a, r) ==
    /\ Is(a, "idle")
    /\ attempt' = [attempt EXCEPT ![a] = [Idle EXCEPT
            !.pc = "loaded", !.rem = r, !.payload = LivePayload(r),
            !.seen = MemberClaims(r)]]
    /\ UNCHANGED <<ledgerVars, registry, wire>>

\* The unlocked decision only routes the call.
Route(a) ==
    LET d == DecideSubmissionClaim(ledger[attempt[a].rem],
                attempt[a].payload, clock, RemovalPolicy)
    IN  /\ Is(a, "loaded")
        /\ CASE d.kind = "create" -> Goto(a, "creating")
             [] d.kind = "resume" -> attempt' = [attempt EXCEPT
                    ![a].pc = "resuming", ![a].began = clock]
             [] OTHER             -> Stop(a)
        /\ UNCHANGED <<ledgerVars, registry, wire>>

\* createDraft: re-decide and insert in one transaction, artifact lock held.
CreateDraft(a) ==
    LET r == attempt[a].rem
        stamp == [by |-> a, at |-> clock]
        d == DecideSubmissionClaim(ledger[r], attempt[a].payload, clock,
                RemovalPolicy)
    IN  /\ Is(a, "creating")
        /\ locker[r] = None
        /\ IF d.kind = "create" /\ d.version <= MaxVersion
             THEN /\ InsertDraft(r, attempt[a].payload, d.prev, stamp)
                  /\ attempt' = [attempt EXCEPT
                        ![a].pc = "scope", ![a].ver = d.version,
                        ![a].hash = attempt[a].payload, ![a].stamp = stamp,
                        ![a].prev = d.prev]
             ELSE Stop(a) /\ UNCHANGED ledger
        /\ UNCHANGED <<clock, content, claimed, reserved, locker, registry, wire>>

\* resumeDraft, first half: take the artifact lock, re-read and re-decide.
DecideResume(a) ==
    LET r == attempt[a].rem
        d == DecideSubmissionClaim(ledger[r], attempt[a].payload, clock,
                RemovalPolicy)
    IN  /\ Is(a, "resuming")
        /\ locker[r] = None
        /\ IF d.kind = "resume"
             THEN /\ attempt' = [attempt EXCEPT
                        ![a].pc = "resetting", ![a].ver = d.version,
                        ![a].bypass =
                            CanReclaimInterrupted(ledger[r][d.version])]
                  /\ locker' = [locker EXCEPT ![r] = a]
             ELSE Stop(a) /\ UNCHANGED locker
        /\ UNCHANGED <<clock, content, ledger, claimed, reserved, registry, wire>>

\* resumeDraft, second half: the compare-and-set, then commit.
ResetDraft(a) ==
    LET r == attempt[a].rem
        v == attempt[a].ver
        stamp == [by |-> a, at |-> clock]
    IN  /\ Is(a, "resetting")
        /\ Unlock(r)
        /\ IF CanResetToDraft(ledger[r][v], attempt[a].bypass, attempt[a].began)
             THEN /\ ResetToDraft(r, v, stamp)
                  /\ attempt' = [attempt EXCEPT
                        ![a].pc = "revision", ![a].hash = ledger[r][v].hash,
                        ![a].stamp = stamp, ![a].resumed = TRUE,
                        ![a].mutation = InheritedMutation(ledger[r][v]),
                        ![a].ext = ledger[r][v].ext]
             ELSE Stop(a) /\ UNCHANGED ledger
        /\ UNCHANGED <<clock, content, claimed, reserved, registry, wire>>

-----------------------------------------------------------------------------
(* Gates between the claim and the first registry write.                   *)

\* Mutant: a drifted draft is retired whatever it wrote.
AlwaysRetire(a) == Goto(a, "retire")

\* retireClaimedRemovalDraftForDrift: preserved when a write may exist.
Drifted(a) == IF attempt[a].mutation # "none" THEN Throw(a) ELSE Goto(a, "retire")

\* assertResumedSnapshotRevisionCurrent: the mapping revision is one of the
\* things a snapshot's content records, so only changed content can fail it.
CheckRevision(a) ==
    /\ Is(a, "revision")
    /\ \/ Goto(a, "scope")
       \/ attempt[a].hash.data # content[attempt[a].rem] /\ Drifted(a)
    /\ UNCHANGED <<ledgerVars, registry, wire>>

\* assertProductionClaimGateFresh, first read: claims as the call loaded them.
CheckScope(a) ==
    /\ Is(a, "scope")
    /\ IF MemberClaims(attempt[a].rem) = attempt[a].seen
         THEN Goto(a, "contend") ELSE Throw(a)
    /\ UNCHANGED <<ledgerVars, registry, wire>>

\* Second read: the first contender for each batch nobody has claimed.
CheckContenders(a) ==
    /\ Is(a, "contend")
    /\ IF \E b \in Members[attempt[a].rem] :
            attempt[a].seen[b] = None /\ LosesContention(Submission(a), b)
         THEN Throw(a) ELSE Goto(a, "rebuild")
    /\ UNCHANGED <<ledgerVars, registry, wire>>

\* assertClaimedRemovalPayloadFresh: rebuild from live data, compare hashes.
CheckPayload(a) ==
    /\ Is(a, "rebuild")
    /\ IF LivePayload(attempt[a].rem) = attempt[a].hash
         THEN Goto(a, "reserve") ELSE Drifted(a)
    /\ UNCHANGED <<ledgerVars, registry, wire>>

Retire(a) ==
    /\ Is(a, "retire")
    /\ RetireDraft(attempt[a].rem, attempt[a].ver)
    /\ Throw(a)
    /\ UNCHANGED <<clock, content, claimed, locker, registry, wire>>

ReserveClaims(a) ==
    /\ Is(a, "reserve")
    /\ IF CanReserve(Submission(a), ClaimBatches(a))
         THEN /\ Reserve(Submission(a), ClaimBatches(a))
              /\ attempt' = [attempt EXCEPT
                    ![a].pc = IF attempt[a].resumed THEN "lookup" ELSE "post",
                    ![a].kind = "inputs",
                    ![a].prev = IF attempt[a].resumed
                        THEN ResumedPrevious(attempt[a].rem, attempt[a].ver)
                        ELSE @]
         ELSE Throw(a) /\ UNCHANGED reserved
    /\ UNCHANGED <<clock, content, ledger, claimed, locker, registry, wire>>

-----------------------------------------------------------------------------
(* performRegistryCreate, once per record.                                 *)

Confirmed(a, id) ==
    attempt' = [attempt EXCEPT ![a].pc = "confirm", ![a].mutation = "confirmed",
        ![a].ext = IF attempt[a].kind = "entry" THEN id ELSE @]

\* A resumed draft looks its record up before creating it.
LookupFound(a) ==
    /\ Is(a, "lookup")
    /\ \E id \in Matches(Reference(a)) : Confirmed(a, id)
    /\ UNCHANGED <<ledgerVars, registry, wire>>

LookupNone(a) ==
    /\ Is(a, "lookup")
    /\ ~Found(Reference(a))
    /\ Goto(a, "post")
    /\ UNCHANGED <<ledgerVars, registry, wire>>

LookupFails(a) ==
    /\ Is(a, "lookup")
    /\ ThrowWith(a, "possible")
    /\ UNCHANGED <<ledgerVars, registry, wire>>

\* The registry creates the record and its answer arrives.
PostAnswered(a) ==
    /\ Is(a, "post")
    /\ CanCreate(Reference(a))
    /\ CreateRecord(Reference(a))
    /\ Confirmed(a, NewId(Reference(a)))
    /\ UNCHANGED <<ledgerVars, wire>>

\* A definitive refusal (a 4xx answer): nothing was created by this request.
PostRefused(a) ==
    /\ Is(a, "post")
    /\ Goto(a, "answer")
    /\ UNCHANGED <<ledgerVars, registry, wire>>

\* Timeout, network error or 5xx: created, not created, or still travelling.
PostUnanswered(a) ==
    /\ Is(a, "post")
    /\ attempt' = [attempt EXCEPT ![a].pc = "answer",
            ![a].mutation = Advance(@, "possible")]
    /\ \/ UNCHANGED <<registry, wire>>
       \/ /\ CanCreate(Reference(a))
          /\ CreateRecord(Reference(a))
          /\ UNCHANGED wire
       \/ /\ LateRequests
          /\ wire' = wire \cup {[ref |-> Reference(a), lock |-> attempt[a].stamp]}
          /\ UNCHANGED registry
    /\ UNCHANGED ledgerVars

\* The lookup after a failed create: a match is adopted; a miss, or a lookup
\* that fails too, fails the attempt.
Reconcile(a) ==
    /\ Is(a, "answer")
    /\ \/ \E id \in Matches(Reference(a)) : Confirmed(a, id)
       \/ Throw(a)
    /\ UNCHANGED <<ledgerVars, registry, wire>>

\* The GHG Entry's identity is journaled on the row before anything else.
Confirm(a) ==
    LET r == attempt[a].rem
        v == attempt[a].ver
    IN  /\ Is(a, "confirm")
        /\ CASE attempt[a].kind = "inputs" ->
                    /\ attempt' = [attempt EXCEPT
                            ![a].kind = "entry", ![a].pc = NextAfterInputs(a)]
                    /\ UNCHANGED ledger
             [] attempt[a].kind = "entry" /\ HoldsLock(r, v, attempt[a].stamp) ->
                    /\ RecordIdentity(r, v, attempt[a].ext)
                    /\ Goto(a, "verify")
             [] OTHER -> Throw(a) /\ UNCHANGED ledger
        /\ UNCHANGED <<clock, content, claimed, reserved, locker, registry, wire>>

-----------------------------------------------------------------------------
(* Finishing.                                                              *)

\* Biochar applications, source bindings, reporting window: all confirmed.
Verify(a) ==
    /\ Is(a, "verify")
    /\ attempt' = [attempt EXCEPT ![a].pc = "finalize", ![a].mutation = "confirmed"]
    /\ UNCHANGED <<ledgerVars, registry, wire>>

FinalizeSubmission(a) ==
    /\ Is(a, "finalize")
    /\ IF CanFinalize(Submission(a), attempt[a].stamp, ClaimBatches(a))
         THEN /\ Finalize(Submission(a), attempt[a].ext, attempt[a].prev,
                    ClaimBatches(a))
              /\ Stop(a)
         ELSE Throw(a) /\ UNCHANGED <<ledger, claimed, reserved>>
    /\ UNCHANGED <<clock, content, locker, registry, wire>>

\* The other steps after the claim can fail too, on a database error or on a
\* registry record "inputs" and "verify" stand for.
FailStep(a) ==
    /\ attempt[a].pc \in Gating \cup {"confirm", "verify", "finalize"}
    /\ Throw(a)
    /\ UNCHANGED <<ledgerVars, registry, wire>>

\* recordClaimedRemovalSubmissionFailureBestEffort.
RecordFailure(a) ==
    LET r == attempt[a].rem
        v == attempt[a].ver
    IN  /\ Is(a, "fail")
        /\ IF attempt[a].mutation = "none"
             THEN RejectAndRelease(r, v, attempt[a].stamp)
             ELSE /\ IF HoldsLock(r, v, attempt[a].stamp)
                       THEN MarkInterrupted(r, v, attempt[a].mutation)
                       ELSE UNCHANGED ledger
                  /\ UNCHANGED reserved
        /\ Stop(a)
        /\ UNCHANGED <<clock, content, claimed, locker, registry, wire>>

-----------------------------------------------------------------------------
(* The environment.                                                        *)

\* The process dies; an open transaction rolls back.
Crash(a) ==
    /\ Crashes
    /\ attempt[a].pc # "idle"
    /\ Stop(a)
    /\ locker' = [r \in Removals |-> IF locker[r] = a THEN None ELSE locker[r]]
    /\ UNCHANGED <<clock, content, ledger, claimed, reserved, registry, wire>>

\* The registry executes a request nobody waits for any more, or loses it.
Deliver(req) ==
    /\ wire' = wire \ {req}
    /\ \/ CanCreate(req.ref) /\ CreateRecord(req.ref)
       \/ UNCHANGED registry
    /\ UNCHANGED <<ledgerVars, attempt>>

Change(r) ==
    /\ Drift
    /\ \E c \in Content \ {content[r]} : content' = [content EXCEPT ![r] = c]
    /\ UNCHANGED <<clock, ledger, claimed, reserved, locker,
                   attempt, registry, wire>>

\* Under Timely, an attempt and the requests it sent end before its lock does.
LocksInUse ==
    {attempt[a].stamp : a \in {b \in Attempts : attempt[b].pc \in Owning}}
        \cup {req.lock : req \in wire}

Tick ==
    /\ clock < MaxTime
    /\ Timely => \A lock \in LocksInUse : clock + 1 - lock.at < LockTTL
    /\ clock' = clock + 1
    /\ UNCHANGED <<content, ledger, claimed, reserved, locker,
                   attempt, registry, wire>>

Step(a) ==
    \/ \E r \in Removals : Load(a, r)
    \/ Route(a) \/ CreateDraft(a) \/ DecideResume(a) \/ ResetDraft(a)
    \/ CheckRevision(a) \/ CheckScope(a) \/ CheckContenders(a)
    \/ CheckPayload(a) \/ Retire(a) \/ ReserveClaims(a)
    \/ LookupFound(a) \/ LookupNone(a) \/ LookupFails(a)
    \/ PostAnswered(a) \/ PostRefused(a) \/ PostUnanswered(a)
    \/ Reconcile(a) \/ Confirm(a)
    \/ Verify(a) \/ FinalizeSubmission(a) \/ FailStep(a) \/ RecordFailure(a)

Next ==
    \/ \E a \in Attempts : Step(a) \/ Crash(a)
    \/ \E req \in wire : Deliver(req)
    \/ \E r \in Removals : Change(r)
    \/ Tick

Spec == Init /\ [][Next]_vars

-----------------------------------------------------------------------------
(* Safety.                                                                 *)

SubmissionIds == {s \in [rem : Removals, ver : 1 .. MaxVersion] :
                     s.ver \in Versions(s.rem)}
RowOf(s) == ledger[s.rem][s.ver]
EntryOf(s) == [kind |-> "entry", rem |-> s.rem, ver |-> s.ver]
WroteNothing(s) ==
    \A ref \in References :
        ref.rem = s.rem /\ ref.ver = s.ver => registry[ref] = << >>
NothingUnderway(s) ==
    ~ \E req \in wire : req.ref.rem = s.rem /\ req.ref.ver = s.ver

(* The lookups, the row lock and the markers together make every create    *)
(* happen once: no supplier reference names two registry records, whatever *)
(* was lost, retried or resumed.                                           *)
OneRecordPerReference == \A ref \in References : Len(registry[ref]) <= 1

(* An external id on a row is the id of the GHG Entry the registry holds   *)
(* under that row's own supplier reference.                                *)
JournaledIsRegistered ==
    \A s \in SubmissionIds : RowOf(s).ext <= Len(registry[EntryOf(s)])

(* From the claim to the finalization an attempt holds the exact lock it   *)
(* stamped on the row, so at most one attempt sends for a Removal.         *)
SendersHoldTheirLock ==
    \A a \in Attempts : attempt[a].pc \in Owning \ {"fail"} =>
        HoldsLock(attempt[a].rem, attempt[a].ver, attempt[a].stamp)

(* Only the latest version of a Removal is ever a draft.                   *)
OnlyLatestIsDraft ==
    \A s \in SubmissionIds :
        RowOf(s).status = "draft" => s.ver = Len(ledger[s.rem])

(* A submitted version owns the production inputs it sent: every batch in  *)
(* its payload's production set is claimed by its Removal.                 *)
SubmittedOwnsItsProduction ==
    \A s \in SubmissionIds : RowOf(s).status = "submitted" =>
        \A b \in RowOf(s).hash.prod : claimed[b] = s.rem

(* A production reservation is held only by a draft that can still use it. *)
ReservationsBelongToDrafts ==
    \A b \in Batches : reserved[b] # NoSubmission =>
        /\ RowOf(reserved[b]).status = "draft"
        /\ claimed[b] \in {None, reserved[b].rem}

(* A draft marked with a possible registry write keeps the reservations of *)
(* all it may have sent, however long its lock has expired: another        *)
(* submission takes over only what an unmarked draft holds.                *)
MarkedKeepsProduction ==
    \A s \in SubmissionIds :
        RowOf(s).status = "draft" /\ HasPossibleExternalMutation(RowOf(s)) =>
            \A b \in RowOf(s).hash.prod : reserved[b] = s

(* While an attempt sends and finishes, every batch whose production its   *)
(* payload counts is reserved for it: a takeover meets no sender, and one  *)
(* that resumes a draft that was taken from reserves anew before it sends. *)
SendersHoldTheirProduction ==
    \A a \in Attempts : attempt[a].pc \in Sending \cup {"verify", "finalize"} =>
        \A b \in attempt[a].hash.prod : reserved[b] = Submission(a)

(* A credit batch's production inputs reach the registry through one       *)
(* Removal only.                                                           *)
ProductionSentOnce ==
    \A s, t \in SubmissionIds :
        s.rem # t.rem /\ ~WroteNothing(s) /\ ~WroteNothing(t) =>
            RowOf(s).hash.prod \cap RowOf(t).hash.prod = {}

(* A definitive rejection leaves no registry write in doubt.               *)
RejectionIsDefinitive ==
    \A s \in SubmissionIds :
        RowOf(s).status = "rejected" /\ RowOf(s).ext = 0 =>
            WroteNothing(s) /\ NothingUnderway(s)

(* A retired draft never reached the registry, so the fresh version that   *)
(* replaces it, with new supplier references, duplicates nothing.          *)
RetirementIsDefinitive ==
    \A s \in SubmissionIds :
        RowOf(s).status = "superseded" /\ RowOf(s).ext = 0 =>
            WroteNothing(s) /\ NothingUnderway(s)

(* Two versions can be active at once only across an abandoned one.        *)
ActiveVersionsSeparated ==
    \A s, t \in SubmissionIds :
        /\ s.rem = t.rem /\ s.ver < t.ver
        /\ RowOf(s).status = "submitted"
        /\ RowOf(t).status = "submitted"
        => \E v \in (s.ver + 1) .. (t.ver - 1) :
               ledger[s.rem][v].status \in {"rejected", "superseded"}

-----------------------------------------------------------------------------
(* Action properties.                                                      *)

(* A finalized version never becomes a draft again: submitted may only be  *)
(* superseded, superseded is final, and the external id stays.             *)
FinalizedNeverReverts ==
    [][\A s \in SubmissionIds : RowOf(s).status \in FinalizedStatuses =>
        /\ ledger'[s.rem][s.ver].status \in {RowOf(s).status, "superseded"}
        /\ ledger'[s.rem][s.ver].ext = RowOf(s).ext]_vars

(* A confirmed registry identity is never dropped or replaced.             *)
IdentityIsPermanent ==
    [][\A s \in SubmissionIds : RowOf(s).ext # 0 =>
        ledger'[s.rem][s.ver].ext = RowOf(s).ext]_vars

(* A production claim never moves to another Removal.                      *)
ClaimsArePermanent ==
    [][\A b \in Batches : claimed[b] # None => claimed'[b] = claimed[b]]_vars

-----------------------------------------------------------------------------
(* Liveness.                                                               *)

(* No submit call waits forever: not for the artifact lock, and not for    *)
(* another attempt, a lost answer or an expired lock.                      *)
EveryAttemptEnds ==
    \A a \in Attempts : attempt[a].pc # "idle" ~> attempt[a].pc = "idle"
=============================================================================
