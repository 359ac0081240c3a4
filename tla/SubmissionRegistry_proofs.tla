---------------------- MODULE SubmissionRegistry_proofs ----------------------
(***************************************************************************)
(* What row locks guarantee in RemovalSubmission when no attempt outlives  *)
(* its lock (Timely), and what submitting Removals then leaves at the      *)
(* registry: rejections and retirements are definitive, production is sent *)
(* once, and no supplier reference names two records.                      *)
(*                                                                         *)
(* LocksInv is the first inductive invariant.  AttemptsHeld: an attempt    *)
(* that owns a draft is inside its lock's TTL, and the draft still carries *)
(* its stamp, unless the attempt itself has just retired it; an attempt    *)
(* about to reset a draft found it abandoned.  ForeignRowsKept is what the *)
(* steps of one attempt do to the others' rows: nothing, since a draft     *)
(* that is held is nobody else's (OwnRow).                                 *)
(*                                                                         *)
(* RegistryInv is the second.  Marks says that a row tells its owner of    *)
(* every write that is in doubt; WritesKnown that a version which wrote is *)
(* marked, or its writer still runs; AttemptsReserve and WritesOwned that  *)
(* the production a version sent stays claimed or reserved for it.         *)
(* StakesInv adds to it what holds with crashes: a draft at stake, marked  *)
(* or known by its attempt to have possibly written, is never taken from.  *)
(* RecordsInv is the last: AttemptsUnsent says what an attempt has not    *)
(* sent yet, by its place in the code, so that every create finds its      *)
(* reference unused.                                                       *)
(***************************************************************************)
EXTENDS SubmissionJournal_proofs

-----------------------------------------------------------------------------
(* What a lock still says while the attempt that took it runs.             *)

RowHeld(q, row) ==
    \/ row.status = "draft" /\ row.lockedAt = q.stamp /\ row.outcome = "none"
    \/ q.pc = "fail" /\ row.status = "superseded" /\ q.mutation = "none"

Resettable(row, now) ==
    \/ /\ row.status = "draft"
       /\ row.outcome = "interrupted" \/ now - row.lockedAt.at >= LockTTL
    \/ row.status = "rejected" /\ row.ext = 0

KeepsLock(q, rows, now) ==
    /\ q.pc = "resetting" => Resettable(rows[q.rem][q.ver], now)
    /\ q.pc \in Owning =>
        /\ q.stamp.at <= now /\ now - q.stamp.at < LockTTL
        /\ RowHeld(q, rows[q.rem][q.ver])
    /\ q.pc = "retire" => q.mutation = "none"

AttemptsHeld == \A a \in Attempts : KeepsLock(attempt[a], ledger, clock)

-----------------------------------------------------------------------------
(* The rows other attempts depend on.                                      *)

ForeignRowsKept(a) ==
    \A b \in Attempts \ {a} : attempt[b].pc \in Owning \cup {"resetting"} =>
        \/ ledger'[attempt[b].rem][attempt[b].ver] =
              ledger[attempt[b].rem][attempt[b].ver]
        \/ /\ ledger[attempt[b].rem][attempt[b].ver].status = "superseded"
           /\ ledger'[attempt[b].rem][attempt[b].ver].status = "superseded"

LEMMA StillHeld ==
    ASSUME AttemptsHeld, NEW a, NEW b \in Attempts, b # a, ForeignRowsKept(a),
           UNCHANGED clock
    PROVE  KeepsLock(attempt[b], ledger', clock')
  BY DEF AttemptsHeld, KeepsLock, ForeignRowsKept, RowHeld, Resettable

LEMMA HeldStep ==
    ASSUME Journal, AttemptsHeld, NEW a \in Attempts, NEW q,
           attempt' = [attempt EXCEPT ![a] = q], ForeignRowsKept(a),
           UNCHANGED clock, KeepsLock(q, ledger', clock')
    PROVE  AttemptsHeld'
  <1>1. \A b \in Attempts : attempt'[b] = IF b = a THEN q ELSE attempt[b]
    BY StateFacts DEF Journal
  <1> QED BY <1>1, StillHeld DEF AttemptsHeld

LEMMA HeldStop ==
    ASSUME Journal, AttemptsHeld, NEW a \in Attempts, Stop(a),
           ForeignRowsKept(a), UNCHANGED clock
    PROVE  AttemptsHeld'
  <1>1. KeepsLock(Idle, ledger', clock')
    BY IdleType, StepNames, PlaceNames DEF KeepsLock
  <1> QED BY <1>1, HeldStep DEF Stop

\* The draft an attempt holds is nobody else's.
LEMMA OwnRow ==
    ASSUME Journal, AttemptsHeld, NEW a \in Attempts, NEW b \in Attempts, b # a,
           attempt[a].pc \in Owning, Row(a).status = "draft",
           attempt[b].pc \in Owning \cup {"resetting"}
    PROVE  ~(attempt[b].rem = attempt[a].rem /\ attempt[b].ver = attempt[a].ver)
  <1> SUFFICES ASSUME attempt[b].rem = attempt[a].rem,
                      attempt[b].ver = attempt[a].ver
               PROVE  FALSE
    OBVIOUS
  <1>1. Row(a) = ledger[attempt[a].rem][attempt[a].ver] BY DEF Row
  <1>2. /\ Row(a).lockedAt = attempt[a].stamp /\ Row(a).outcome = "none"
        /\ clock - attempt[a].stamp.at < LockTTL
        /\ attempt[a].stamp.at \in Nat /\ clock \in Nat
    <2>1. attempt[a].stamp.at \in Nat /\ clock \in Nat
      BY TypedFacts DEF Journal, Locks
    <2>2. KeepsLock(attempt[a], ledger, clock) BY DEF AttemptsHeld
    <2> QED BY <1>1, <2>1, <2>2 DEF KeepsLock, RowHeld
  <1>3. attempt[a].stamp.by = a BY DEF Journal, AttemptsSound, Sound
  <1>4. CASE attempt[b].pc \in Owning
    <2>1. attempt[b].stamp.by = b BY <1>4 DEF Journal, AttemptsSound, Sound
    <2>2. Row(a).lockedAt = attempt[b].stamp
      BY <1>1, <1>4 DEF AttemptsHeld, KeepsLock, RowHeld
    <2> QED BY <1>2, <1>3, <2>1, <2>2
  <1>5. CASE attempt[b].pc = "resetting"
    <2>1. Resettable(Row(a), clock) BY <1>1, <1>5 DEF AttemptsHeld, KeepsLock
    <2> QED BY <1>2, <2>1, LockTTLAssumption DEF Resettable
  <1> QED BY <1>4, <1>5

LEMMA QuietRows ==
    ASSUME NEW a, UNCHANGED ledger
    PROVE  ForeignRowsKept(a)
  BY DEF ForeignRowsKept

\* A step that rewrites only a row nobody else depends on.
LEMMA WriteRowForeign ==
    ASSUME Journal, NEW a, NEW r \in Removals, NEW v \in Versions(r),
           NEW row \in Rows(Payloads), WriteRow(r, v, row),
           \A b \in Attempts \ {a} : attempt[b].pc \in Owning \cup {"resetting"} =>
               ~(attempt[b].rem = r /\ attempt[b].ver = v)
    PROVE  ForeignRowsKept(a)
  <1> SUFFICES ASSUME NEW b \in Attempts \ {a},
                      attempt[b].pc \in Owning \cup {"resetting"}
               PROVE  ledger'[attempt[b].rem][attempt[b].ver] =
                          ledger[attempt[b].rem][attempt[b].ver]
    BY DEF ForeignRowsKept
  <1>1. attempt[b].rem \in Removals /\ attempt[b].ver \in Versions(attempt[b].rem)
    BY TypedFacts, NamedFacts DEF Journal
  <1> QED BY <1>1, WriteRowRows DEF Journal

\* An attempt moves on with the draft it holds.
LEMMA HeldBecomes ==
    ASSUME Journal, AttemptsHeld, NEW a \in Attempts, attempt[a].pc \in Owning,
           NEW pc \in Owning, NEW mutation, NEW prev, NEW kind, NEW ext,
           Becomes(a, pc, mutation, prev, kind, ext), ForeignRowsKept(a),
           UNCHANGED clock, pc = "retire" => mutation = "none",
           LET row == ledger'[attempt[a].rem][attempt[a].ver]
           IN  \/ /\ row.status = "draft" /\ row.outcome = "none"
                  /\ row.lockedAt = attempt[a].stamp
               \/ pc = "fail" /\ row.status = "superseded" /\ mutation = "none"
    PROVE  AttemptsHeld'
  <1>1. PICK q \in Attempt :
            /\ attempt' = [attempt EXCEPT ![a] = q]
            /\ SameClaim(attempt[a], q) /\ q.pc = pc /\ q.mutation = mutation
    BY DEF Becomes
  <1>2. /\ attempt[a].stamp.at <= clock /\ clock - attempt[a].stamp.at < LockTTL
    BY DEF AttemptsHeld, KeepsLock
  <1>3. pc # "resetting" BY StepNames
  <1>4. KeepsLock(q, ledger', clock') BY <1>1, <1>2, <1>3 DEF KeepsLock, RowHeld, SameClaim
  <1> QED BY <1>1, <1>4, HeldStep

LEMMA QuietHeldBecomes ==
    ASSUME Journal, AttemptsHeld, NEW a \in Attempts, attempt[a].pc \in Owning,
           attempt[a].pc # "fail",
           NEW pc \in Owning, NEW mutation, NEW prev, NEW kind, NEW ext,
           Becomes(a, pc, mutation, prev, kind, ext),
           UNCHANGED <<ledger, clock>>, pc = "retire" => mutation = "none"
    PROVE  AttemptsHeld'
  <1>1. RowHeld(attempt[a], ledger[attempt[a].rem][attempt[a].ver])
    BY DEF AttemptsHeld, KeepsLock
  <1>2. ForeignRowsKept(a) BY QuietRows
  <1> QED BY <1>1, <1>2, HeldBecomes DEF RowHeld

LEMMA QuietHeldThrow ==
    ASSUME Journal, AttemptsHeld, NEW a \in Attempts, attempt[a].pc \in Owning,
           attempt[a].pc # "fail", Throw(a), UNCHANGED <<ledger, clock>>
    PROVE  AttemptsHeld'
  <1>1. "fail" \in Steps /\ "fail" \in Owning BY PlaceNames
  <1>2. Becomes(a, "fail", attempt[a].mutation, attempt[a].prev,
            attempt[a].kind, attempt[a].ext)
    BY <1>1, GotoAdvances DEF Throw, Advances, Journal
  <1> QED BY <1>1, <1>2, QuietHeldBecomes

-----------------------------------------------------------------------------
(* Claiming keeps the locks meaningful.                                    *)

LEMMA HeldPreparing ==
    ASSUME Journal, AttemptsHeld, NEW a \in Attempts, NEW q,
           attempt' = [attempt EXCEPT ![a] = q], UNCHANGED <<ledger, clock>>,
           q.pc \in {"idle", "loaded", "creating", "resuming"}
    PROVE  AttemptsHeld'
  <1>1. KeepsLock(q, ledger', clock') BY StepNames, PlaceNames DEF KeepsLock
  <1> QED BY <1>1, QuietRows, HeldStep

LEMMA RoutingHeld ==
    ASSUME Journal, AttemptsHeld, NEW a \in Attempts,
           (\E r \in Removals : Load(a, r)) \/ Route(a)
    PROVE  AttemptsHeld'
  <1>1. UNCHANGED <<ledger, clock>> BY DEF Load, Route, ledgerVars
  <1>2. CASE \E r \in Removals : Load(a, r)
    <2>1. PICK r \in Removals : Load(a, r) BY <1>2
    <2> DEFINE q == [Idle EXCEPT !.pc = "loaded", !.rem = r,
                       !.payload = LivePayload(r), !.seen = MemberClaims(r)]
    <2>2. attempt' = [attempt EXCEPT ![a] = q] /\ q.pc = "loaded"
      BY <2>1 DEF Load, Idle
    <2> HIDE DEF q
    <2> QED BY <1>1, <2>2, HeldPreparing
  <1>3. CASE Route(a)
    <2> DEFINE resuming == [attempt[a] EXCEPT !.pc = "resuming", !.began = clock]
               creating == [attempt[a] EXCEPT !.pc = "creating"]
    <2>1. attempt \in [Attempts -> Attempt] /\ attempt[a] \in Attempt
      BY TypedFacts DEF Journal
    <2>2. resuming.pc = "resuming" /\ creating.pc = "creating"
          /\ Idle.pc = "idle"
      BY <2>1, IdleType DEF Attempt
    <2>3. \/ attempt' = [attempt EXCEPT ![a] = resuming]
          \/ attempt' = [attempt EXCEPT ![a] = creating]
          \/ attempt' = [attempt EXCEPT ![a] = Idle]
      BY <1>3, <2>1 DEF Route, Goto, Stop
    <2> HIDE DEF resuming, creating
    <2> QED BY <1>1, <2>2, <2>3, HeldPreparing
  <1> QED BY <1>2, <1>3

LEMMA CreateDraftHeld ==
    ASSUME Journal, AttemptsHeld, NEW a \in Attempts, CreateDraft(a)
    PROVE  AttemptsHeld'
  <1> DEFINE r == attempt[a].rem
             new == Len(ledger[r]) + 1
             stamp == [by |-> a, at |-> clock]
  <1>1. UNCHANGED clock /\ clock \in Nat /\ r \in Removals
    BY CreateDraftMove, TypedFacts DEF Journal
  <1>2. CASE Stop(a) /\ UNCHANGED ledger
    BY <1>1, <1>2, QuietRows, HeldStop
  <1>3. CASE ~(Stop(a) /\ UNCHANGED ledger)
    <2>1. \A s \in Removals : \A v \in Versions(s) : ledger'[s][v] = ledger[s][v]
      BY <1>3, CreateDraftMove
    <2>2. /\ ledger'[r][new].status = "draft"
          /\ ledger'[r][new].lockedAt = stamp
          /\ ledger'[r][new].outcome = "none"
      <3>1. PICK prev \in Nat : ledger'[r][new] =
               [status |-> "draft", hash |-> attempt[a].payload, ext |-> 0,
                lockedAt |-> stamp, outcome |-> "none", mutation |-> "unset",
                refresh |-> FALSE, prev |-> prev]
        BY <1>3, CreateDraftMove
      <3> QED BY <3>1
    <2>3. PICK q \in Attempt :
            /\ attempt' = [attempt EXCEPT ![a] = q]
            /\ q.pc = "scope" /\ q.rem = r /\ q.ver = new /\ q.stamp = stamp
      BY <1>3, CreateDraftTurn DEF TakesDraft
    <2>4. ForeignRowsKept(a)
      <3>1. \A b \in Attempts : attempt[b].pc \in Owning \cup {"resetting"} =>
                attempt[b].rem \in Removals
                /\ attempt[b].ver \in Versions(attempt[b].rem)
        BY TypedFacts, NamedFacts DEF Journal
      <3> QED BY <2>1, <3>1 DEF ForeignRowsKept
    <2>5. stamp.at <= clock /\ clock - stamp.at < LockTTL
      BY <1>1, LockTTLAssumption
    <2>6. q.pc # "resetting" /\ q.pc # "retire" BY <2>3
    <2> HIDE DEF stamp, new
    <2>7. KeepsLock(q, ledger', clock')
      BY <1>1, <2>2, <2>3, <2>5, <2>6 DEF KeepsLock, RowHeld
    <2> QED BY <1>1, <2>3, <2>4, <2>7, HeldStep
  <1> QED BY <1>2, <1>3

LEMMA DecideResumeHeld ==
    ASSUME Journal, AttemptsHeld, NEW a \in Attempts, DecideResume(a)
    PROVE  AttemptsHeld'
  <1> DEFINE r == attempt[a].rem
             d == DecideSubmissionClaim(ledger[r], attempt[a].payload, clock,
                    RemovalPolicy)
             bypass == CanReclaimInterrupted(ledger[r][d.version])
             q == [attempt[a] EXCEPT !.pc = "resetting", !.ver = d.version,
                     !.bypass = bypass]
  <1>1. /\ attempt \in [Attempts -> Attempt] /\ attempt[a] \in Attempt
        /\ r \in Removals /\ attempt[a].payload \in Payloads /\ clock \in Nat
    BY TypedFacts DEF Journal
  <1>2. UNCHANGED <<ledger, clock>> BY DEF DecideResume
  <1>3. d.kind = "resume" =>
          /\ d.version \in Versions(r)
          /\ \/ /\ ledger[r][d.version].status = "draft"
                /\ \/ CanReclaimInterrupted(ledger[r][d.version])
                   \/ ~LockIsFresh(ledger[r][d.version], clock)
             \/ /\ ledger[r][d.version].status = "rejected"
                /\ ledger[r][d.version].ext = 0
    BY <1>1, ResumeDecision DEF Journal
  <1> HIDE DEF d, bypass
  <1>4. CASE d.kind = "resume"
    <2>1. attempt' = [attempt EXCEPT ![a] = q]
      BY <1>1, <1>4 DEF DecideResume, d, bypass
    <2>2. q.pc = "resetting" /\ q.rem = r /\ q.ver = d.version
      BY <1>1 DEF Attempt
    <2> HIDE DEF q
    <2>3. Resettable(ledger[r][d.version], clock)
      <3>1. /\ ledger[r][d.version].lockedAt.at \in Nat
            /\ ledger[r][d.version].status = "draft" =>
                 ledger[r][d.version].lockedAt # NoLock
        BY <1>1, <1>3, <1>4, RowFacts DEF Journal, RowsSound, Locks
      <3>2. ASSUME ledger[r][d.version].lockedAt # NoLock,
                   ~LockIsFresh(ledger[r][d.version], clock)
            PROVE  clock - ledger[r][d.version].lockedAt.at >= LockTTL
        <4>1. ~(clock - ledger[r][d.version].lockedAt.at < LockTTL)
          BY <3>2 DEF LockIsFresh
        <4>2. PICK at \in Nat : at = ledger[r][d.version].lockedAt.at BY <3>1
        <4>3. clock \in Nat /\ LockTTL \in Nat BY <1>1, LockTTLAssumption
        <4>4. ~(clock - at < LockTTL) BY <4>1, <4>2
        <4>5. clock - at >= LockTTL BY <4>2, <4>3, <4>4
        <4> QED BY <4>2, <4>5
      <3> QED BY <1>3, <1>4, <3>1, <3>2 DEF Resettable, CanReclaimInterrupted
    <2>4. KeepsLock(q, ledger', clock') BY <1>2, <2>2, <2>3, StepNames DEF KeepsLock
    <2> QED BY <1>2, <2>1, <2>4, QuietRows, HeldStep
  <1>5. CASE d.kind # "resume"
    <2>1. Stop(a) BY <1>5 DEF DecideResume, d
    <2> QED BY <1>2, <2>1, QuietRows, HeldStop
  <1> QED BY <1>4, <1>5

\* The row about to be reset is abandoned: no other attempt depends on it.
LEMMA ResetForeign ==
    ASSUME Journal, AttemptsHeld, NEW a \in Attempts,
           attempt[a].pc = "resetting", NEW b \in Attempts \ {a},
           attempt[b].pc \in Owning \cup {"resetting"}
    PROVE  ~(attempt[b].rem = attempt[a].rem /\ attempt[b].ver = attempt[a].ver)
  <1> SUFFICES ASSUME attempt[b].rem = attempt[a].rem,
                      attempt[b].ver = attempt[a].ver
               PROVE  FALSE
    OBVIOUS
  <1> DEFINE r == attempt[a].rem
             v == attempt[a].ver
  <1>1. r \in Removals /\ clock \in Nat /\ attempt[b].stamp.at \in Nat
    BY TypedFacts DEF Journal, Locks
  <1>2. Resettable(ledger[r][v], clock) BY DEF AttemptsHeld, KeepsLock
  <1>3. locker[r] = a BY StepNames DEF Journal, AttemptsSound, Sound
  <1>4. attempt[b].pc # "resetting"
    BY <1>3, StepNames DEF Journal, AttemptsSound, Sound
  <1>5. /\ RowHeld(attempt[b], ledger[r][v])
        /\ clock - attempt[b].stamp.at < LockTTL
    BY <1>4 DEF AttemptsHeld, KeepsLock
  <1>6. PICK row : row = ledger[r][v] OBVIOUS
  <1>7. Resettable(row, clock) /\ RowHeld(attempt[b], row)
    BY <1>2, <1>5, <1>6
  <1>8. row.status = "draft" /\ row.lockedAt = attempt[b].stamp
        /\ row.outcome = "none"
    BY <1>7 DEF Resettable, RowHeld
  <1>9. ~(clock - row.lockedAt.at >= LockTTL)
    BY <1>1, <1>5, <1>8, LockTTLAssumption
  <1> QED BY <1>7, <1>8, <1>9 DEF Resettable

LEMMA ResetDraftHeld ==
    ASSUME Journal, AttemptsHeld, NEW a \in Attempts, ResetDraft(a)
    PROVE  AttemptsHeld'
  <1> DEFINE r == attempt[a].rem
             v == attempt[a].ver
             stamp == [by |-> a, at |-> clock]
  <1>1. /\ attempt[a].pc = "resetting" /\ UNCHANGED clock
        /\ r \in Removals /\ clock \in Nat
    BY TypedFacts DEF ResetDraft, Is, Journal
  <1>2. v \in Versions(r) BY <1>1, NamedFacts DEF Journal
  <1>3. CASE Stop(a) /\ UNCHANGED ledger
    BY <1>1, <1>3, QuietRows, HeldStop
  <1>4. CASE CanResetToDraft(ledger[r][v], attempt[a].bypass, attempt[a].began)
    <2>1. PICK row \in Rows(Payloads), q \in Attempt :
            /\ WriteRow(r, v, row)
            /\ row.status = "draft" /\ row.lockedAt = stamp
            /\ row.outcome = "none"
            /\ attempt' = [attempt EXCEPT ![a] = q]
            /\ q.pc = "revision" /\ q.rem = r /\ q.ver = v /\ q.stamp = stamp
      BY <1>4, ResetDraftMove
    <2>3. ForeignRowsKept(a)
      BY <1>1, <1>2, <2>1, ResetForeign, WriteRowForeign
    <2>4. ledger'[r][v] = row
      BY <1>1, <1>2, <2>1, WriteRowRows DEF Journal
    <2>5. stamp.at <= clock /\ clock - stamp.at < LockTTL
      BY <1>1, LockTTLAssumption
    <2>6. q.pc # "resetting" /\ q.pc # "retire" BY <2>1
    <2> HIDE DEF stamp
    <2>7. KeepsLock(q, ledger', clock')
      BY <1>1, <2>1, <2>4, <2>5, <2>6 DEF KeepsLock, RowHeld
    <2> QED BY <1>1, <2>1, <2>3, <2>7, HeldStep
  <1> QED BY <1>3, <1>4 DEF ResetDraft

-----------------------------------------------------------------------------
(* The steps after the claim keep the locks meaningful.                    *)

LEMMA SendingHeld ==
    ASSUME Journal, AttemptsHeld, NEW a \in Attempts,
           \/ LookupFound(a) \/ LookupNone(a) \/ LookupFails(a)
           \/ PostAnswered(a) \/ PostRefused(a) \/ PostUnanswered(a)
           \/ Reconcile(a)
    PROVE  AttemptsHeld'
  <1> DEFINE advanced == Advance(attempt[a].mutation, "possible")
  <1>1. /\ UNCHANGED <<ledger, clock>>
        /\ attempt[a].pc \in {"lookup", "post", "answer"}
    BY DEF LookupFound, LookupNone, LookupFails, PostAnswered, PostRefused,
       PostUnanswered, Reconcile, Is, ledgerVars
  <1>2. /\ attempt[a].pc \in Owning /\ attempt[a].pc # "fail"
        /\ Reference(a) \in References
        /\ {"confirm", "post", "answer", "fail"} \subseteq Owning \cap Steps
    BY <1>1, PlaceNames, NamedFacts DEF Journal
  <1>3. ASSUME NEW id \in Nat, Confirmed(a, id) PROVE AttemptsHeld'
    <2> DEFINE ext == IF attempt[a].kind = "entry" THEN id ELSE attempt[a].ext
    <2>1. Becomes(a, "confirm", "confirmed", attempt[a].prev, attempt[a].kind,
              ext)
      BY <1>3, ConfirmedMove DEF Journal
    <2> HIDE DEF ext
    <2> QED BY <1>1, <1>2, <2>1, QuietHeldBecomes
  <1>4. \A id \in Matches(Reference(a)) : id \in Nat
    <2>1. Len(registry[Reference(a)]) \in Nat
      BY <1>2, StateFacts, LenProperties DEF Journal
    <2> QED BY <1>2, <2>1, RecordIds DEF Journal
  <1>5. NewId(Reference(a)) \in Nat BY <1>2, RecordIds DEF Journal
  <1>6. CASE LookupFound(a) BY <1>3, <1>4, <1>6 DEF LookupFound
  <1>7. CASE LookupNone(a) \/ PostRefused(a)
    <2>1. PICK pc \in {"post", "answer"} : Goto(a, pc)
      BY <1>7 DEF LookupNone, PostRefused
    <2>2. Becomes(a, pc, attempt[a].mutation, attempt[a].prev,
              attempt[a].kind, attempt[a].ext)
      BY <1>2, <2>1, GotoAdvances DEF Advances, Journal
    <2> QED BY <1>1, <1>2, <2>1, <2>2, QuietHeldBecomes
  <1>8. CASE LookupFails(a) \/ PostUnanswered(a)
    <2>1. PICK pc \in {"fail", "answer"} : attempt' = [attempt EXCEPT ![a] =
              [attempt[a] EXCEPT !.pc = pc, !.mutation = advanced]]
      BY <1>8, StateFacts DEF LookupFails, PostUnanswered, ThrowWith, Journal
    <2>2. advanced \in {"none", "possible", "confirmed"}
      BY AdvanceIs DEF Journal
    <2> HIDE DEF advanced
    <2>3. Becomes(a, pc, advanced, attempt[a].prev, attempt[a].kind,
              attempt[a].ext)
      BY <1>2, <2>1, <2>2, MutationMove DEF Journal
    <2> QED BY <1>1, <1>2, <2>1, <2>3, QuietHeldBecomes
  <1>9. CASE PostAnswered(a) BY <1>3, <1>5, <1>9 DEF PostAnswered
  <1>10. CASE Reconcile(a)
    BY <1>1, <1>2, <1>3, <1>4, <1>10, QuietHeldThrow DEF Reconcile
  <1> QED BY <1>6, <1>7, <1>8, <1>9, <1>10

LEMMA OwningHeld ==
    ASSUME Journal, AttemptsHeld, NEW a \in Attempts,
           GateStep(a) \/ ReserveClaims(a) \/ Verify(a) \/ FailStep(a)
    PROVE  AttemptsHeld'
  <1>1. UNCHANGED <<ledger, clock>>
    BY GateMove DEF ReserveClaims, Verify, FailStep, ledgerVars
  <1>2. attempt[a].pc \in Owning /\ attempt[a].pc # "fail"
    BY GateMove, PlaceNames DEF ReserveClaims, Verify, FailStep, Is, Owning,
       Gating
  <1>3. CASE GateStep(a)
    <2>1. PICK pc \in {"scope", "contend", "rebuild", "reserve", "retire", "fail"} :
              /\ Goto(a, pc)
              /\ pc = "retire" => attempt[a].mutation = "none"
      BY <1>3, GateMove
    <2>2. pc \in Owning /\ pc \in Steps BY PlaceNames
    <2>3. Becomes(a, pc, attempt[a].mutation, attempt[a].prev,
              attempt[a].kind, attempt[a].ext)
      BY <2>1, <2>2, GotoAdvances DEF Advances, Journal
    <2> QED BY <1>1, <1>2, <2>1, <2>2, <2>3, QuietHeldBecomes
  <1>4. CASE ReserveClaims(a)
    <2> DEFINE next == IF attempt[a].resumed THEN "lookup" ELSE "post"
               prev == IF attempt[a].resumed
                   THEN ResumedPrevious(attempt[a].rem, attempt[a].ver)
                   ELSE attempt[a].prev
    <2>1. \/ Throw(a)
          \/ Becomes(a, next, attempt[a].mutation, prev, "inputs", attempt[a].ext)
      BY <1>4, ReserveMove DEF Journal
    <2>2. next \in Owning /\ next # "retire" BY PlaceNames
    <2> HIDE DEF next, prev
    <2> QED BY <1>1, <1>2, <2>1, <2>2, QuietHeldThrow, QuietHeldBecomes
  <1>5. CASE Verify(a)
    <2>1. Becomes(a, "finalize", "confirmed", attempt[a].prev,
              attempt[a].kind, attempt[a].ext)
      BY <1>5, VerifyMove DEF Journal
    <2> QED BY <1>1, <1>2, <2>1, PlaceNames, QuietHeldBecomes
  <1>6. CASE FailStep(a)
    BY <1>1, <1>2, <1>6, QuietHeldThrow DEF FailStep
  <1> QED BY <1>3, <1>4, <1>5, <1>6

LEMMA RetireHeld ==
    ASSUME Journal, AttemptsHeld, NEW a \in Attempts, Retire(a)
    PROVE  AttemptsHeld'
  <1> DEFINE r == attempt[a].rem
             v == attempt[a].ver
  <1>1. /\ attempt[a].pc = "retire" /\ attempt[a].pc \in Owning /\ Throw(a)
        /\ UNCHANGED clock
    BY RetireMove, PlaceNames DEF Journal
  <1>2. /\ r \in Removals /\ v \in Versions(r) /\ Row(a) = ledger[r][v]
    BY <1>1, TypedFacts, NamedFacts DEF Journal
  <1>3. CASE UNCHANGED ledger BY <1>1, <1>3, QuietHeldThrow
  <1>4. ASSUME NEW row \in Rows(Payloads), WriteRow(r, v, row),
               row.status = "superseded", Row(a).status = "draft"
        PROVE  AttemptsHeld'
    <2>1. ForeignRowsKept(a) BY <1>1, <1>2, <1>4, OwnRow, WriteRowForeign
    <2>2. ledger'[r][v] = row BY <1>2, <1>4, WriteRowRows DEF Journal
    <2>3. attempt[a].mutation = "none" BY <1>1 DEF AttemptsHeld, KeepsLock
    <2>4. "fail" \in Owning \cap Steps BY PlaceNames
    <2>5. Becomes(a, "fail", attempt[a].mutation, attempt[a].prev,
              attempt[a].kind, attempt[a].ext)
      BY <1>1, <2>4, GotoAdvances DEF Throw, Advances, Journal
    <2> QED BY <1>1, <1>4, <2>1, <2>2, <2>3, <2>4, <2>5, HeldBecomes
  <1> QED BY <1>3, <1>4, RetireMove DEF Journal

LEMMA ConfirmHeld ==
    ASSUME Journal, AttemptsHeld, NEW a \in Attempts, Confirm(a)
    PROVE  AttemptsHeld'
  <1> DEFINE r == attempt[a].rem
             v == attempt[a].ver
  <1>1. /\ attempt[a].pc = "confirm" /\ attempt[a].pc \in Owning
        /\ attempt[a].pc # "fail" /\ UNCHANGED clock
    BY ConfirmMove, PlaceNames DEF Journal
  <1>2. /\ r \in Removals /\ v \in Versions(r) /\ Row(a) = ledger[r][v]
    BY <1>1, TypedFacts, NamedFacts DEF Journal
  <1>3. CASE UNCHANGED ledger
             /\ Becomes(a, NextAfterInputs(a), attempt[a].mutation,
                   attempt[a].prev, "entry", attempt[a].ext)
    <2> DEFINE next == NextAfterInputs(a)
    <2>1. next \in Owning /\ next # "retire" BY PlaceNames DEF NextAfterInputs
    <2> HIDE DEF next
    <2> QED BY <1>1, <1>3, <2>1, QuietHeldBecomes DEF next
  <1>4. ASSUME NEW row \in Rows(Payloads), WriteRow(r, v, row),
               row.status = Row(a).status, row.lockedAt = Row(a).lockedAt,
               row.outcome = Row(a).outcome, Advances(a, "verify")
        PROVE  AttemptsHeld'
    <2>1. /\ Row(a).status = "draft" /\ Row(a).lockedAt = attempt[a].stamp
          /\ Row(a).outcome = "none"
      BY <1>1, <1>2 DEF AttemptsHeld, KeepsLock, RowHeld
    <2>2. ForeignRowsKept(a) BY <1>1, <1>2, <1>4, <2>1, OwnRow, WriteRowForeign
    <2>3. ledger'[r][v] = row BY <1>2, <1>4, WriteRowRows DEF Journal
    <2>4. "verify" \in Owning BY PlaceNames
    <2> QED BY <1>1, <1>4, <2>1, <2>2, <2>3, <2>4, HeldBecomes DEF Advances
  <1>5. CASE Throw(a) /\ UNCHANGED ledger BY <1>1, <1>5, QuietHeldThrow
  <1> QED BY <1>3, <1>4, <1>5, ConfirmMove DEF Journal

LEMMA FinalizeForeign ==
    ASSUME Journal, AttemptsHeld, NEW a \in Attempts,
           attempt[a].pc \in Owning,
           HoldsLock(attempt[a].rem, attempt[a].ver, attempt[a].stamp),
           Finalize([rem |-> attempt[a].rem, ver |-> attempt[a].ver],
               attempt[a].ext, attempt[a].prev, ClaimBatches(a))
    PROVE  ForeignRowsKept(a)
  <1> DEFINE r == attempt[a].rem
             v == attempt[a].ver
             prev == attempt[a].prev
  <1>1. /\ r \in Removals /\ v \in Versions(r) /\ Row(a) = ledger[r][v]
        /\ attempt[a].ext \in Nat /\ prev \in Nat /\ v \in Nat
    BY TypedFacts, NamedFacts DEF Journal
  <1>2. /\ \A u \in Versions(r) \ {v} : u = prev =>
              ledger'[r][u].status = "superseded"
        /\ \A q \in Removals : \A u \in Versions(q) :
              ~(q = r /\ u \in {v, prev}) => ledger'[q][u] = ledger[q][u]
    <2>1. Typed BY DEF Journal
    <2>2. FinalRows(r, v, attempt[a].ext, prev)
      BY <1>1, <2>1, FinalRowsAre
    <2> QED BY <2>2 DEF FinalRows, SupersededRow
  <1>3. Row(a).status = "draft" BY <1>1 DEF HoldsLock
  <1>4. v = Len(ledger[r]) /\ prev < v
    <2>1. v = Len(ledger[r]) BY <1>1, <1>3 DEF Journal, RowsSound
    <2>2. Sound(a, attempt[a], ledger, registry, locker)
      BY DEF Journal, AttemptsSound
    <2>3. prev < v BY <2>2 DEF Sound
    <2> QED BY <2>1, <2>3
  <1> SUFFICES ASSUME NEW b \in Attempts \ {a},
                      attempt[b].pc \in Owning \cup {"resetting"}
               PROVE
          \/ ledger'[attempt[b].rem][attempt[b].ver] =
                ledger[attempt[b].rem][attempt[b].ver]
          \/ /\ ledger[attempt[b].rem][attempt[b].ver].status = "superseded"
             /\ ledger'[attempt[b].rem][attempt[b].ver].status = "superseded"
    BY DEF ForeignRowsKept
  <1>5. attempt[b].rem \in Removals /\ attempt[b].ver \in Versions(attempt[b].rem)
    BY TypedFacts, NamedFacts DEF Journal
  <1>6. ~(attempt[b].rem = r /\ attempt[b].ver = v) BY <1>3, OwnRow
  <1>7. CASE attempt[b].rem = r /\ attempt[b].ver = prev
    <2>1. attempt[b].pc # "resetting"
      <3>1. attempt[b].pc = "resetting" => attempt[b].ver = Len(ledger[r])
        <4>1. Sound(b, attempt[b], ledger, registry, locker)
          BY DEF Journal, AttemptsSound
        <4> QED BY <1>7, <4>1 DEF Sound
      <3> QED BY <1>1, <1>4, <1>7, <3>1
    <2>2. RowHeld(attempt[b], ledger[r][prev])
      BY <1>7, <2>1 DEF AttemptsHeld, KeepsLock
    <2>3. ledger[r][prev].status # "draft"
      BY <1>1, <1>4, <1>5, <1>7 DEF Journal, RowsSound
    <2>4. ledger[r][prev].status = "superseded" BY <2>2, <2>3 DEF RowHeld
    <2> QED BY <1>2, <1>5, <1>6, <1>7, <2>4
  <1>8. CASE ~(attempt[b].rem = r /\ attempt[b].ver = prev)
    BY <1>2, <1>5, <1>6, <1>8
  <1> QED BY <1>7, <1>8

LEMMA FinalizeHeld ==
    ASSUME Journal, AttemptsHeld, NEW a \in Attempts, FinalizeSubmission(a)
    PROVE  AttemptsHeld'
  <1>1. /\ attempt[a].pc = "finalize" /\ attempt[a].pc \in Owning
        /\ attempt[a].pc # "fail" /\ UNCHANGED clock
    BY FinalizeMove, PlaceNames DEF Journal
  <1>2. CASE Throw(a) /\ UNCHANGED <<ledger, claimed, reserved>>
    BY <1>1, <1>2, QuietHeldThrow
  <1>3. CASE ~(Throw(a) /\ UNCHANGED <<ledger, claimed, reserved>>)
    <2>1. /\ HoldsLock(attempt[a].rem, attempt[a].ver, attempt[a].stamp)
          /\ Finalize([rem |-> attempt[a].rem, ver |-> attempt[a].ver],
                 attempt[a].ext, attempt[a].prev, ClaimBatches(a))
          /\ Stop(a)
      BY <1>3, FinalizeMove DEF Journal
    <2> QED BY <1>1, <2>1, FinalizeForeign, HeldStop
  <1> QED BY <1>2, <1>3

LEMMA RecordFailureHeld ==
    ASSUME Journal, AttemptsHeld, NEW a \in Attempts, RecordFailure(a)
    PROVE  AttemptsHeld'
  <1> DEFINE r == attempt[a].rem
             v == attempt[a].ver
  <1>1. /\ attempt[a].pc = "fail" /\ attempt[a].pc \in Owning /\ Stop(a)
        /\ UNCHANGED clock
    BY RecordFailureMove, PlaceNames DEF Journal
  <1>2. /\ r \in Removals /\ v \in Versions(r) /\ Row(a) = ledger[r][v]
    BY <1>1, TypedFacts, NamedFacts DEF Journal
  <1>3. CASE UNCHANGED ledger BY <1>1, <1>3, QuietRows, HeldStop
  <1>4. ASSUME HoldsLock(r, v, attempt[a].stamp),
               NEW row \in Rows(Payloads), WriteRow(r, v, row)
        PROVE  AttemptsHeld'
    <2>1. Row(a).status = "draft" BY <1>2, <1>4 DEF HoldsLock
    <2>2. ForeignRowsKept(a) BY <1>1, <1>2, <1>4, <2>1, OwnRow, WriteRowForeign
    <2> QED BY <1>1, <2>2, HeldStop
  <1> QED BY <1>3, <1>4, RecordFailureMove DEF Journal

LEMMA StepHeld ==
    ASSUME Journal, AttemptsHeld, NEW a \in Attempts, Step(a)
    PROVE  AttemptsHeld'
  BY RoutingHeld, CreateDraftHeld, DecideResumeHeld, ResetDraftHeld, OwningHeld,
     RetireHeld, SendingHeld, ConfirmHeld, FinalizeHeld, RecordFailureHeld
  DEF Step, GateStep

LEMMA StepForeign ==
    ASSUME Journal, AttemptsHeld, NEW a \in Attempts, Step(a)
    PROVE  ForeignRowsKept(a)
  <1> DEFINE r == attempt[a].rem
             v == attempt[a].ver
  <1>1. ASSUME attempt[a].pc \in Owning, Row(a).status = "draft",
               NEW row \in Rows(Payloads), WriteRow(r, v, row)
        PROVE  ForeignRowsKept(a)
    <2>1. r \in Removals /\ v \in Versions(r)
      BY <1>1, TypedFacts, NamedFacts DEF Journal
    <2> QED BY <1>1, <2>1, OwnRow, WriteRowForeign
  <1>2. CASE UNCHANGED ledger BY <1>2, QuietRows
  <1>3. CASE CreateDraft(a)
    <2>1. \A s \in Removals : \A u \in Versions(s) : ledger'[s][u] = ledger[s][u]
      BY <1>2, <1>3, CreateDraftMove
    <2>2. \A b \in Attempts : attempt[b].pc \in Owning \cup {"resetting"} =>
              attempt[b].rem \in Removals
              /\ attempt[b].ver \in Versions(attempt[b].rem)
      BY TypedFacts, NamedFacts DEF Journal
    <2> QED BY <2>1, <2>2 DEF ForeignRowsKept
  <1>4. CASE ResetDraft(a)
    <2>1. attempt[a].pc = "resetting" BY <1>4 DEF ResetDraft, Is
    <2>2. r \in Removals /\ v \in Versions(r)
      BY <2>1, TypedFacts, NamedFacts DEF Journal
    <2>3. UNCHANGED ledger \/ \E row \in Rows(Payloads) : WriteRow(r, v, row)
      BY <1>4, ResetDraftMove DEF ResetDraft
    <2> QED BY <1>2, <2>1, <2>2, <2>3, ResetForeign, WriteRowForeign
  <1>5. CASE Retire(a)
    BY <1>1, <1>2, <1>5, RetireMove, PlaceNames DEF Journal
  <1>6. CASE Confirm(a) \/ RecordFailure(a)
    <2>1. attempt[a].pc \in Owning
      BY <1>6, ConfirmMove, RecordFailureMove, PlaceNames DEF Journal
    <2>2. \/ UNCHANGED ledger
          \/ /\ HoldsLock(r, v, attempt[a].stamp)
             /\ \E row \in Rows(Payloads) : WriteRow(r, v, row)
      BY <1>6, ConfirmMove, RecordFailureMove DEF Journal
    <2>3. HoldsLock(r, v, attempt[a].stamp) => Row(a).status = "draft"
      BY DEF HoldsLock, Row
    <2> QED BY <1>1, <1>2, <2>1, <2>2, <2>3
  <1>7. CASE FinalizeSubmission(a)
    <2>1. attempt[a].pc \in Owning BY <1>7, FinalizeMove, PlaceNames DEF Journal
    <2> QED BY <1>2, <1>7, <2>1, FinalizeMove, FinalizeForeign DEF Journal
  <1> QED BY <1>2, <1>3, <1>4, <1>5, <1>6, <1>7, SameLedger DEF Step, GateStep

\* The clock waits for the attempts that are inside their lock's TTL.
LEMMA TickHeld ==
    ASSUME Journal, AttemptsHeld, Timely, Tick
    PROVE  AttemptsHeld'
  <1>1. PICK now \in Nat : now = clock + 1 /\ clock' = now
    BY StateFacts DEF Journal, Tick
  <1> SUFFICES ASSUME NEW a \in Attempts
               PROVE  KeepsLock(attempt[a], ledger, now)
    BY <1>1 DEF Tick, AttemptsHeld
  <1>2. KeepsLock(attempt[a], ledger, clock) BY DEF AttemptsHeld
  <1>3. clock \in Nat /\ attempt[a].stamp.at \in Nat /\ attempt[a].rem \in Removals
    BY TypedFacts DEF Journal, Locks
  <1>4. attempt[a].pc \in Owning =>
            attempt[a].stamp.at <= now /\ now - attempt[a].stamp.at < LockTTL
    <2>1. attempt[a].pc \in Owning => attempt[a].stamp \in LocksInUse
      BY DEF LocksInUse
    <2>2. \A lock \in LocksInUse : clock + 1 - lock.at < LockTTL BY DEF Tick
    <2>3. attempt[a].pc \in Owning => clock + 1 - attempt[a].stamp.at < LockTTL
      BY <2>1, <2>2
    <2>4. attempt[a].pc \in Owning => now - attempt[a].stamp.at < LockTTL
      BY <1>1, <1>3, <2>3
    <2> QED BY <1>1, <1>2, <1>3, <2>4 DEF KeepsLock
  <1>5. attempt[a].pc = "resetting" =>
            Resettable(ledger[attempt[a].rem][attempt[a].ver], now)
    <2> DEFINE row == ledger[attempt[a].rem][attempt[a].ver]
    <2> SUFFICES ASSUME attempt[a].pc = "resetting" PROVE Resettable(row, now)
      OBVIOUS
    <2>1. Resettable(row, clock) BY <1>2 DEF KeepsLock
    <2>2. row.lockedAt.at \in Nat
      BY <1>3, NamedFacts, RowFacts DEF Journal, Locks
    <2>3. clock - row.lockedAt.at >= LockTTL => now - row.lockedAt.at >= LockTTL
      <3>1. PICK at \in Nat : at = row.lockedAt.at BY <2>2
      <3>2. clock - at >= LockTTL => now - at >= LockTTL
        BY <1>1, <1>3, LockTTLAssumption
      <3> QED BY <3>1, <3>2
    <2> HIDE DEF row
    <2> QED BY <2>1, <2>3 DEF Resettable
  <1> QED BY <1>2, <1>4, <1>5 DEF KeepsLock

LocksInv == JournalInv /\ (Timely => AttemptsHeld)

LEMMA InitEstablishesLocks == Init => LocksInv
  <1> SUFFICES ASSUME Init PROVE LocksInv OBVIOUS
  <1>1. \A a \in Attempts : attempt[a].pc = "idle" BY IdleType DEF Init
  <1>2. "idle" \notin Owning /\ "idle" # "retire" /\ "idle" # "resetting"
    BY StepNames
  <1>3. AttemptsHeld BY <1>1, <1>2 DEF AttemptsHeld, KeepsLock
  <1> QED BY <1>3, InitEstablishesJournal DEF LocksInv

LEMMA NextKeepsLocks == LocksInv /\ [Next]_vars => LocksInv'
  <1> SUFFICES ASSUME LocksInv, [Next]_vars PROVE LocksInv' OBVIOUS
  <1>1. JournalInv' BY NextKeepsJournal DEF LocksInv
  <1> SUFFICES ASSUME Timely PROVE AttemptsHeld' BY <1>1 DEF LocksInv
  <1>2. Journal /\ AttemptsHeld BY DEF LocksInv, JournalInv
  <1>3. CASE \E a \in Attempts : Step(a) BY <1>2, <1>3, StepHeld
  <1>4. CASE \E a \in Attempts : Crash(a)
    BY <1>2, <1>4, QuietRows, HeldStop DEF Crash
  <1>5. CASE (\E req \in wire : Deliver(req)) \/ (\E r \in Removals : Change(r))
             \/ UNCHANGED vars
    <2>1. UNCHANGED <<ledger, clock, attempt>>
      BY <1>5 DEF Deliver, Change, ledgerVars, vars
    <2> QED BY <1>2, <2>1 DEF AttemptsHeld
  <1>6. CASE Tick BY <1>2, <1>6, TickHeld
  <1> QED BY <1>3, <1>4, <1>5, <1>6 DEF Next

(* The inductive invariant holds in every behaviour.                       *)
THEOREM LocksInvariance == Spec => []LocksInv
  BY InitEstablishesLocks, NextKeepsLocks, PTL DEF Spec

(* From the claim to the finalization an attempt holds the exact lock it   *)
(* stamped, so the comparisons of lockedAt in                              *)
(* recordConfirmedSubmissionIdentity and markSubmissionSubmitted never     *)
(* fail: at most one attempt sends.                                        *)
THEOREM LockSafety ==
    ASSUME Timely
    PROVE  Spec => []SendersHoldTheirLock
  <1>1. LocksInv => SendersHoldTheirLock
    BY DEF LocksInv, AttemptsHeld, KeepsLock, RowHeld, SendersHoldTheirLock, HoldsLock
  <1> QED BY <1>1, LocksInvariance, PTL

-----------------------------------------------------------------------------
(* Finalized versions.                                                     *)

FinalizedKept ==
    \A r \in Removals : \A v \in Versions(r) :
        ledger[r][v].status \in FinalizedStatuses =>
            /\ ledger'[r][v].status \in {ledger[r][v].status, "superseded"}
            /\ ledger'[r][v].ext = ledger[r][v].ext

\* Only drafts and rejected rows are rewritten.
LEMMA WriteRowFinalized ==
    ASSUME Typed, NEW r \in Removals, NEW v \in Versions(r),
           NEW row \in Rows(Payloads), WriteRow(r, v, row),
           ledger[r][v].status \in {"draft", "rejected"}
    PROVE  FinalizedKept
  BY WriteRowRows DEF FinalizedKept, FinalizedStatuses

LEMMA StepFinalized ==
    ASSUME Journal, AttemptsHeld, NEW a \in Attempts, Step(a)
    PROVE  FinalizedKept
  <1> DEFINE r == attempt[a].rem
             v == attempt[a].ver
  <1>1. /\ Typed /\ r \in Removals /\ attempt[a].ext \in Nat
        /\ attempt[a].prev \in Nat
        /\ attempt[a].pc \in Owning \cup {"resetting"} =>
             v \in Versions(r) /\ Row(a) = ledger[r][v]
    BY TypedFacts, NamedFacts DEF Journal
  <1>2. (UNCHANGED ledger) => FinalizedKept BY DEF FinalizedKept
  <1>3. HoldsLock(r, v, attempt[a].stamp) => ledger[r][v].status = "draft"
    BY DEF HoldsLock
  <1>4. CASE \/ \E s \in Removals : Load(a, s)
             \/ Route(a) \/ DecideResume(a) \/ GateStep(a) \/ ReserveClaims(a)
             \/ LookupFound(a) \/ LookupNone(a) \/ LookupFails(a)
             \/ PostAnswered(a) \/ PostRefused(a) \/ PostUnanswered(a)
             \/ Reconcile(a) \/ Verify(a) \/ FailStep(a)
    BY <1>2, <1>4, SameLedger
  <1>5. CASE CreateDraft(a)
    <2>1. \A s \in Removals : \A u \in Versions(s) : ledger'[s][u] = ledger[s][u]
      BY <1>5, CreateDraftMove
    <2> QED BY <2>1 DEF FinalizedKept
  <1>6. CASE ResetDraft(a)
    <2>1. attempt[a].pc = "resetting" BY <1>6 DEF ResetDraft, Is
    <2>2. ledger[r][v].status \in {"draft", "rejected"}
      BY <2>1 DEF AttemptsHeld, KeepsLock, Resettable
    <2>3. CASE CanResetToDraft(ledger[r][v], attempt[a].bypass, attempt[a].began)
      <3>1. PICK row \in Rows(Payloads) : WriteRow(r, v, row)
        BY <1>6, <2>3, ResetDraftMove
      <3> QED BY <1>1, <2>1, <2>2, <3>1, WriteRowFinalized
    <2>4. CASE UNCHANGED ledger BY <1>2, <2>4
    <2> QED BY <1>6, <2>3, <2>4 DEF ResetDraft
  <1>7. CASE Retire(a)
    <2>1. /\ attempt[a].pc \in Owning
          /\ \/ UNCHANGED ledger
             \/ /\ Row(a).status = "draft"
                /\ \E row \in Rows(Payloads) : WriteRow(r, v, row)
      BY <1>1, <1>7, RetireMove, PlaceNames
    <2> QED BY <1>1, <1>2, <2>1, WriteRowFinalized
  <1>8. CASE Confirm(a) \/ RecordFailure(a)
    <2>1. /\ attempt[a].pc \in Owning
          /\ \/ UNCHANGED ledger
             \/ /\ HoldsLock(r, v, attempt[a].stamp)
                /\ \E row \in Rows(Payloads) : WriteRow(r, v, row)
      BY <1>1, <1>8, ConfirmMove, RecordFailureMove, PlaceNames
    <2> QED BY <1>1, <1>2, <1>3, <2>1, WriteRowFinalized
  <1>9. CASE FinalizeSubmission(a)
    <2>1. /\ attempt[a].pc \in Owning
          /\ \/ UNCHANGED ledger
             \/ /\ HoldsLock(r, v, attempt[a].stamp)
                /\ Finalize([rem |-> r, ver |-> v], attempt[a].ext,
                      attempt[a].prev, ClaimBatches(a))
      BY <1>1, <1>9, FinalizeMove, PlaceNames
    <2>2. ASSUME HoldsLock(r, v, attempt[a].stamp),
                 Finalize([rem |-> r, ver |-> v], attempt[a].ext,
                     attempt[a].prev, ClaimBatches(a))
          PROVE  FinalizedKept
      <3>1. /\ \A u \in Versions(r) \ {v} : u = attempt[a].prev =>
                  /\ ledger'[r][u].status = "superseded"
                  /\ ledger'[r][u].ext = ledger[r][u].ext
            /\ \A q \in Removals : \A u \in Versions(q) :
                  ~(q = r /\ u \in {v, attempt[a].prev}) =>
                      ledger'[q][u] = ledger[q][u]
        <4>1. FinalRows(r, v, attempt[a].ext, attempt[a].prev)
          BY <1>1, <2>1, <2>2, FinalRowsAre
        <4> QED BY <4>1 DEF FinalRows, SupersededRow
      <3> QED BY <1>3, <2>2, <3>1 DEF FinalizedKept, FinalizedStatuses
    <2> QED BY <1>2, <2>1, <2>2
  <1> QED BY <1>4, <1>5, <1>6, <1>7, <1>8, <1>9 DEF Step, GateStep

LEMMA NextKeepsFinalized == Timely /\ LocksInv /\ [Next]_vars => FinalizedKept
  <1> SUFFICES ASSUME Timely, LocksInv, [Next]_vars PROVE FinalizedKept OBVIOUS
  <1>1. CASE \E a \in Attempts : Step(a)
    BY <1>1, StepFinalized DEF LocksInv, JournalInv
  <1>2. CASE \/ \E a \in Attempts : Crash(a)
             \/ \E req \in wire : Deliver(req)
             \/ \E r \in Removals : Change(r)
             \/ Tick \/ UNCHANGED vars
    <2>1. UNCHANGED ledger
      BY <1>2 DEF Crash, Deliver, Change, Tick, ledgerVars, vars
    <2> QED BY <2>1 DEF FinalizedKept
  <1> QED BY <1>1, <1>2 DEF Next

(* No late failure handler, reset or retirement reaches a version that was *)
(* finalized: a submitted version may only be superseded, with its id.     *)
THEOREM FinalizedPermanence ==
    ASSUME Timely
    PROVE  Spec => FinalizedNeverReverts
  <1>1. LocksInv /\ [Next]_vars =>
            [\A s \in SubmissionIds : RowOf(s).status \in FinalizedStatuses =>
               /\ ledger'[s.rem][s.ver].status \in {RowOf(s).status, "superseded"}
               /\ ledger'[s.rem][s.ver].ext = RowOf(s).ext]_vars
    <2> SUFFICES ASSUME LocksInv, [Next]_vars, NEW s \in SubmissionIds,
                        RowOf(s).status \in FinalizedStatuses
                 PROVE
            /\ ledger'[s.rem][s.ver].status \in {RowOf(s).status, "superseded"}
            /\ ledger'[s.rem][s.ver].ext = RowOf(s).ext
      OBVIOUS
    <2>1. FinalizedKept BY NextKeepsFinalized
    <2> QED BY <2>1, NamedRow DEF FinalizedKept, LocksInv, JournalInv
  <1> QED BY <1>1, LocksInvariance, PTL DEF Spec, FinalizedNeverReverts

-----------------------------------------------------------------------------
(* What a row tells about the registry writes of its version.              *)

Marked(row) == row.ext # 0 \/ HasPossibleExternalMutation(row)

\* Markers live on drafts, and an identity always comes with its marker.
RowMarked(row) ==
    IF row.status = "draft" THEN row.ext # 0 => row.mutation = "confirmed"
    ELSE ~HasPossibleExternalMutation(row)

RowsMarked ==
    \A r \in Removals : \A v \in Versions(r) : RowMarked(ledger[r][v])

\* The owner of a draft knows of every write its row is marked with.
Informed(q, row) ==
    /\ row.status = "draft" /\ Marked(row) => q.mutation # "none"
    /\ row.status = "draft" /\ row.ext # 0 => q.mutation = "confirmed"
    /\ q.pc = "confirm" => q.mutation = "confirmed"
    /\ \/ q.pc \in {"verify", "finalize"}
       \/ q.pc = "confirm" /\ q.kind = "entry"
       => q.ext # 0

AttemptsInformed ==
    \A a \in Attempts : attempt[a].pc \in Owning =>
        Informed(attempt[a], ledger[attempt[a].rem][attempt[a].ver])

Marks == RowsMarked /\ AttemptsInformed

\* No step unmarks a row.
MarksKept ==
    \A r \in Removals : \A v \in Versions(r) :
        Marked(ledger[r][v]) => Marked(ledger'[r][v])

LEMMA InformedStep ==
    ASSUME Journal, AttemptsInformed, NEW a \in Attempts, NEW q,
           attempt' = [attempt EXCEPT ![a] = q], ForeignRowsKept(a),
           q.pc \in Owning => Informed(q, ledger'[q.rem][q.ver])
    PROVE  AttemptsInformed'
  <1>1. \A b \in Attempts : attempt'[b] = IF b = a THEN q ELSE attempt[b]
    BY StateFacts DEF Journal
  <1>2. ASSUME NEW b \in Attempts \ {a}, attempt[b].pc \in Owning
        PROVE  Informed(attempt[b], ledger'[attempt[b].rem][attempt[b].ver])
    BY <1>2 DEF AttemptsInformed, ForeignRowsKept, Informed, Marked,
       HasPossibleExternalMutation
  <1> QED BY <1>1, <1>2 DEF AttemptsInformed

LEMMA InformedElsewhere ==
    ASSUME Journal, AttemptsInformed, NEW a \in Attempts, NEW q,
           attempt' = [attempt EXCEPT ![a] = q], ForeignRowsKept(a),
           q.pc \notin Owning
    PROVE  AttemptsInformed'
  BY InformedStep

LEMMA InformedStop ==
    ASSUME Journal, AttemptsInformed, NEW a \in Attempts, Stop(a),
           ForeignRowsKept(a)
    PROVE  AttemptsInformed'
  BY IdleType, StepNames, InformedElsewhere DEF Stop

LEMMA InformedBecomes ==
    ASSUME Journal, AttemptsInformed, NEW a \in Attempts,
           NEW pc, NEW mutation, NEW prev, NEW kind, NEW ext,
           Becomes(a, pc, mutation, prev, kind, ext), ForeignRowsKept(a),
           LET row == ledger'[attempt[a].rem][attempt[a].ver]
           IN  row.status = "draft" =>
                 /\ Marked(row) => mutation # "none"
                 /\ row.ext # 0 => mutation = "confirmed",
           pc = "confirm" => mutation = "confirmed",
           pc \in {"verify", "finalize"} \/ (pc = "confirm" /\ kind = "entry")
               => ext # 0
    PROVE  AttemptsInformed'
  <1>1. PICK q \in Attempt :
            /\ attempt' = [attempt EXCEPT ![a] = q]
            /\ SameClaim(attempt[a], q) /\ q.pc = pc /\ q.mutation = mutation
            /\ q.kind = kind /\ q.ext = ext
    BY DEF Becomes
  <1>2. Informed(q, ledger'[q.rem][q.ver]) BY <1>1 DEF Informed, SameClaim
  <1> QED BY <1>1, <1>2, InformedStep

LEMMA QuietMarks ==
    ASSUME Marks, UNCHANGED ledger
    PROVE  RowsMarked' /\ MarksKept
  BY DEF Marks, RowsMarked, MarksKept, Versions

\* An attempt that writes no row and forgets nothing it wrote.
LEMMA QuietInformed ==
    ASSUME Journal, Marks, NEW a \in Attempts, attempt[a].pc \in Owning,
           NEW pc, NEW mutation, NEW prev, NEW kind, NEW ext,
           Becomes(a, pc, mutation, prev, kind, ext), UNCHANGED ledger,
           attempt[a].mutation # "none" => mutation # "none",
           attempt[a].mutation = "confirmed" => mutation = "confirmed",
           pc = "confirm" => mutation = "confirmed",
           pc \in {"verify", "finalize"} \/ (pc = "confirm" /\ kind = "entry")
               => ext # 0
    PROVE  Marks' /\ MarksKept
  <1>1. Informed(attempt[a], ledger[attempt[a].rem][attempt[a].ver])
    BY DEF Marks, AttemptsInformed
  <1>2. AttemptsInformed'
    BY <1>1, QuietRows, InformedBecomes DEF Informed, Marks
  <1> QED BY <1>2, QuietMarks DEF Marks

LEMMA QuietInformedThrow ==
    ASSUME Journal, Marks, NEW a \in Attempts, attempt[a].pc \in Owning,
           Throw(a), UNCHANGED ledger
    PROVE  Marks' /\ MarksKept
  <1>1. "fail" \in Steps BY PlaceNames
  <1>2. Becomes(a, "fail", attempt[a].mutation, attempt[a].prev,
            attempt[a].kind, attempt[a].ext)
    BY <1>1, GotoAdvances DEF Throw, Advances, Journal
  <1> QED BY <1>2, QuietInformed

\* One row is rewritten.
LEMMA WriteRowMarks ==
    ASSUME Journal, Marks, NEW r \in Removals, NEW v \in Versions(r),
           NEW row \in Rows(Payloads), WriteRow(r, v, row), RowMarked(row),
           Marked(ledger[r][v]) => Marked(row)
    PROVE  RowsMarked' /\ MarksKept
  <1>1. /\ \A s \in Removals : Len(ledger'[s]) = Len(ledger[s])
        /\ \A s \in Removals : \A u \in Versions(s) :
              ledger'[s][u] = IF s = r /\ u = v THEN row ELSE ledger[s][u]
    BY WriteRowRows DEF Journal
  <1> QED BY <1>1 DEF Marks, RowsMarked, MarksKept, Versions

-----------------------------------------------------------------------------
(* Every step keeps the marks.                                             *)

Preparation(a) ==
    (\E r \in Removals : Load(a, r)) \/ Route(a) \/ DecideResume(a)

\* Before it owns a draft an attempt touches nothing but its own state.
LEMMA PreparingMove ==
    ASSUME Journal, NEW a \in Attempts, Preparation(a)
    PROVE  /\ UNCHANGED <<clock, ledger, claimed, reserved, registry, wire>>
           /\ attempt[a].pc \notin Owning
           /\ \E q : attempt' = [attempt EXCEPT ![a] = q] /\ q.pc \notin Owning
  <1> DEFINE d == DecideSubmissionClaim(ledger[attempt[a].rem],
                      attempt[a].payload, clock, RemovalPolicy)
             resuming == [attempt[a] EXCEPT !.pc = "resuming", !.began = clock]
             creating == [attempt[a] EXCEPT !.pc = "creating"]
             resetting == [attempt[a] EXCEPT !.pc = "resetting",
                 !.ver = d.version,
                 !.bypass = CanReclaimInterrupted(
                     ledger[attempt[a].rem][d.version])]
  <1>1. attempt \in [Attempts -> Attempt] /\ attempt[a] \in Attempt
    BY TypedFacts DEF Journal
  <1>2. /\ UNCHANGED <<clock, ledger, claimed, reserved, registry, wire>>
        /\ attempt[a].pc \notin Owning
    BY StepNames DEF Preparation, Load, Route, DecideResume, ledgerVars, Is
  <1>3. CASE \E r \in Removals : Load(a, r)
    <2>1. PICK r \in Removals : Load(a, r) BY <1>3
    <2> DEFINE q == [Idle EXCEPT !.pc = "loaded", !.rem = r,
                       !.payload = LivePayload(r), !.seen = MemberClaims(r)]
    <2>2. attempt' = [attempt EXCEPT ![a] = q] /\ q.pc = "loaded"
      BY <2>1 DEF Load, Idle
    <2> HIDE DEF q
    <2> QED BY <1>2, <2>2, StepNames
  <1>4. CASE Route(a) \/ DecideResume(a)
    <2>1. resuming.pc = "resuming" /\ creating.pc = "creating"
          /\ resetting.pc = "resetting" /\ Idle.pc = "idle"
      BY <1>1, IdleType DEF Attempt
    <2>2. \/ attempt' = [attempt EXCEPT ![a] = resuming]
          \/ attempt' = [attempt EXCEPT ![a] = creating]
          \/ attempt' = [attempt EXCEPT ![a] = resetting]
          \/ attempt' = [attempt EXCEPT ![a] = Idle]
      BY <1>1, <1>4 DEF Route, DecideResume, Goto, Stop
    <2> HIDE DEF resuming, creating, resetting
    <2> QED BY <1>2, <2>1, <2>2, StepNames
  <1> QED BY <1>3, <1>4 DEF Preparation

LEMMA PreparingMarks ==
    ASSUME Journal, Marks, NEW a \in Attempts, Preparation(a)
    PROVE  Marks' /\ MarksKept
  <1>1. UNCHANGED ledger BY PreparingMove
  <1>2. PICK q : attempt' = [attempt EXCEPT ![a] = q] /\ q.pc \notin Owning
    BY PreparingMove
  <1> QED BY <1>1, <1>2, QuietRows, QuietMarks, InformedElsewhere DEF Marks

LEMMA CreateDraftMarks ==
    ASSUME Journal, AttemptsHeld, Marks, NEW a \in Attempts, CreateDraft(a)
    PROVE  Marks' /\ MarksKept
  <1> DEFINE r   == attempt[a].rem
             new == Len(ledger[r]) + 1
  <1>1. ForeignRowsKept(a) BY StepForeign DEF Step
  <1>2. CASE Stop(a) /\ UNCHANGED ledger
    BY <1>1, <1>2, InformedStop, QuietMarks DEF Marks
  <1>3. CASE ~(Stop(a) /\ UNCHANGED ledger)
    <2>1. r \in Removals /\ \A s \in Removals : Len(ledger[s]) \in Nat
      BY TypedFacts DEF Journal
    <2>2. /\ \A s \in Removals : Len(ledger'[s]) =
                 IF s = r THEN new ELSE Len(ledger[s])
          /\ \A s \in Removals : \A v \in Versions(s) :
                 ledger'[s][v] = ledger[s][v]
      BY <1>3, CreateDraftMove
    <2>3. /\ ledger'[r][new].status = "draft" /\ ledger'[r][new].ext = 0
          /\ ledger'[r][new].mutation = "unset"
      <3>1. PICK prev \in Nat : ledger'[r][new] =
               [status |-> "draft", hash |-> attempt[a].payload, ext |-> 0,
                lockedAt |-> [by |-> a, at |-> clock], outcome |-> "none",
                mutation |-> "unset", refresh |-> FALSE, prev |-> prev]
        BY <1>3, CreateDraftMove
      <3> QED BY <3>1
    <2>4. PICK q \in Attempt :
            /\ attempt' = [attempt EXCEPT ![a] = q]
            /\ q.pc = "scope" /\ q.rem = r /\ q.ver = new
      BY <1>3, CreateDraftTurn DEF TakesDraft
    <2> HIDE DEF new
    <2>5. RowMarked(ledger'[r][new]) /\ ~Marked(ledger'[r][new])
      BY <2>3 DEF RowMarked, Marked, HasPossibleExternalMutation
    <2>6. Informed(q, ledger'[r][new]) BY <2>3, <2>4, <2>5 DEF Informed
    <2>7. AttemptsInformed' BY <1>1, <2>4, <2>6, InformedStep DEF Marks
    <2>8. \A s \in Removals : \A v \in Versions(s)' :
              v \in Versions(s) \/ (s = r /\ v = new)
      BY <2>1, <2>2 DEF Versions, new
    <2>9. RowsMarked' BY <2>2, <2>5, <2>8 DEF Marks, RowsMarked
    <2>10. MarksKept BY <2>2 DEF MarksKept
    <2> QED BY <2>7, <2>9, <2>10 DEF Marks
  <1> QED BY <1>2, <1>3

LEMMA ResetDraftMarks ==
    ASSUME Journal, AttemptsHeld, Marks, NEW a \in Attempts, ResetDraft(a)
    PROVE  Marks' /\ MarksKept
  <1> DEFINE r   == attempt[a].rem
             v   == attempt[a].ver
             old == ledger[r][v]
  <1>1. ForeignRowsKept(a) BY StepForeign DEF Step
  <1>2. attempt[a].pc = "resetting" BY DEF ResetDraft, Is
  <1>3. r \in Removals /\ v \in Versions(r)
    BY <1>2, TypedFacts, NamedFacts DEF Journal
  <1>4. CASE Stop(a) /\ UNCHANGED ledger
    BY <1>1, <1>4, InformedStop, QuietMarks DEF Marks
  <1>5. CASE CanResetToDraft(old, attempt[a].bypass, attempt[a].began)
    <2>1. PICK row \in Rows(Payloads), q \in Attempt :
            /\ WriteRow(r, v, row)
            /\ row.status = "draft" /\ row.ext = old.ext
            /\ row.mutation = old.mutation
            /\ attempt' = [attempt EXCEPT ![a] = q]
            /\ q.pc = "revision" /\ q.rem = r /\ q.ver = v
            /\ q.mutation = InheritedMutation(old)
      BY <1>5, ResetDraftMove
    <2>2. old.status = "draft" \/ (old.status = "rejected" /\ old.ext = 0)
      BY <1>2 DEF AttemptsHeld, KeepsLock, Resettable
    <2>3. RowMarked(old) BY <1>3 DEF Marks, RowsMarked
    <2>4. RowMarked(row) BY <2>1, <2>2, <2>3 DEF RowMarked
    <2>5. Marked(old) <=> Marked(row)
      BY <2>1 DEF Marked, HasPossibleExternalMutation
    <2>6. ledger'[r][v] = row BY <1>3, <2>1, WriteRowRows DEF Journal
    <2>7. Marked(row) => q.mutation # "none"
      BY <2>1 DEF Marked, InheritedMutation, HasPossibleExternalMutation
    <2>8. row.ext # 0 => q.mutation = "confirmed"
      BY <2>1 DEF InheritedMutation
    <2>9. Informed(q, ledger'[r][v]) BY <2>1, <2>6, <2>7, <2>8 DEF Informed
    <2>10. AttemptsInformed' BY <1>1, <2>1, <2>9, InformedStep DEF Marks
    <2> QED BY <1>3, <2>1, <2>4, <2>5, <2>10, WriteRowMarks DEF Marks
  <1> QED BY <1>4, <1>5 DEF ResetDraft

Exchange(a) ==
    \/ LookupFound(a) \/ LookupNone(a) \/ LookupFails(a)
    \/ PostAnswered(a) \/ PostRefused(a) \/ PostUnanswered(a)
    \/ Reconcile(a)

\* Where a registry call leaves an attempt, and what it leaves in doubt.
LEMMA ExchangeMove ==
    ASSUME Journal, NEW a \in Attempts, Exchange(a)
    PROVE  /\ attempt[a].pc \in {"lookup", "post", "answer"}
           /\ UNCHANGED ledgerVars
           /\ \E pc \in {"confirm", "post", "answer", "fail"},
                 mutation \in {"none", "possible", "confirmed"}, ext \in Nat :
                /\ Becomes(a, pc, mutation, attempt[a].prev, attempt[a].kind, ext)
                /\ attempt[a].mutation # "none" => mutation # "none"
                /\ attempt[a].mutation = "confirmed" => mutation = "confirmed"
                /\ pc = "confirm" =>
                     /\ mutation = "confirmed"
                     /\ attempt[a].kind = "entry" => ext # 0
                /\ pc = "post" => LookupNone(a)
                /\ UNCHANGED <<registry, wire>> \/ mutation # "none"
  <1> DEFINE Target(pc, mutation, ext) ==
                /\ Becomes(a, pc, mutation, attempt[a].prev, attempt[a].kind, ext)
                /\ attempt[a].mutation # "none" => mutation # "none"
                /\ attempt[a].mutation = "confirmed" => mutation = "confirmed"
                /\ pc = "confirm" =>
                     /\ mutation = "confirmed"
                     /\ attempt[a].kind = "entry" => ext # 0
                /\ pc = "post" => LookupNone(a)
                /\ UNCHANGED <<registry, wire>> \/ mutation # "none"
             advanced == Advance(attempt[a].mutation, "possible")
  <1>1. /\ UNCHANGED ledgerVars
        /\ attempt[a].pc \in {"lookup", "post", "answer"}
    BY DEF Exchange, LookupFound, LookupNone, LookupFails, PostAnswered,
       PostRefused, PostUnanswered, Reconcile, Is
  <1>2. /\ Reference(a) \in References /\ attempt[a].ext \in Nat
        /\ attempt[a].mutation \in {"none", "possible", "confirmed"}
        /\ {"confirm", "post", "answer", "fail"} \subseteq Steps
    BY <1>1, PlaceNames, NamedFacts, TypedFacts DEF Journal
  <1> SUFFICES \E pc \in {"confirm", "post", "answer", "fail"},
                  mutation \in {"none", "possible", "confirmed"}, ext \in Nat :
                     Target(pc, mutation, ext)
    BY <1>1
  <1>3. ASSUME NEW id \in Nat, id # 0, Confirmed(a, id)
        PROVE  \E ext \in Nat : Target("confirm", "confirmed", ext)
    <2> DEFINE ext == IF attempt[a].kind = "entry" THEN id ELSE attempt[a].ext
    <2>1. Becomes(a, "confirm", "confirmed", attempt[a].prev, attempt[a].kind,
              ext)
      BY <1>3, ConfirmedMove DEF Journal
    <2>2. ext \in Nat /\ (attempt[a].kind = "entry" => ext # 0) BY <1>2, <1>3
    <2> HIDE DEF ext
    <2> QED BY <2>1, <2>2
  <1>4. \A id \in Matches(Reference(a)) : id \in Nat /\ id # 0
    <2>1. Len(registry[Reference(a)]) \in Nat
      BY <1>2, StateFacts, LenProperties DEF Journal
    <2> QED BY <1>2, <2>1, RecordIds DEF Journal
  <1>5. NewId(Reference(a)) \in Nat /\ NewId(Reference(a)) # 0
    <2>1. Len(registry[Reference(a)]) \in Nat
      BY <1>2, StateFacts, LenProperties DEF Journal
    <2> QED BY <1>2, <2>1, RecordIds DEF Journal
  <1>6. ASSUME NEW pc \in {"post", "answer", "fail"}, Goto(a, pc),
               UNCHANGED <<registry, wire>>, pc = "post" => LookupNone(a)
        PROVE  Target(pc, attempt[a].mutation, attempt[a].ext)
    BY <1>2, <1>6, GotoAdvances DEF Advances, Journal
  <1>7. CASE LookupFound(a) BY <1>3, <1>4, <1>7 DEF LookupFound
  <1>8. CASE LookupNone(a) \/ PostRefused(a)
    <2>1. \E pc \in {"post", "answer"} :
              /\ Goto(a, pc) /\ UNCHANGED <<registry, wire>>
              /\ pc = "post" => LookupNone(a)
      BY <1>8 DEF LookupNone, PostRefused
    <2> HIDE DEF Target
    <2> QED BY <1>2, <1>6, <2>1
  <1>9. CASE LookupFails(a) \/ PostUnanswered(a)
    <2>1. PICK pc \in {"fail", "answer"} : attempt' = [attempt EXCEPT ![a] =
              [attempt[a] EXCEPT !.pc = pc, !.mutation = advanced]]
      BY <1>9, StateFacts DEF LookupFails, PostUnanswered, ThrowWith, Journal
    <2>2. /\ advanced \in {"possible", "confirmed"}
          /\ attempt[a].mutation = "confirmed" => advanced = "confirmed"
      BY AdvanceIs DEF Journal
    <2> HIDE DEF advanced
    <2>3. Becomes(a, pc, advanced, attempt[a].prev, attempt[a].kind,
              attempt[a].ext)
      BY <1>2, <2>1, <2>2, MutationMove DEF Journal
    <2> QED BY <1>2, <2>2, <2>3
  <1>10. CASE PostAnswered(a)
    BY <1>3, <1>5, <1>10 DEF PostAnswered
  <1>11. CASE Reconcile(a)
    <2>1. UNCHANGED <<registry, wire>> BY <1>11 DEF Reconcile
    <2>2. CASE \E id \in Matches(Reference(a)) : Confirmed(a, id)
      BY <1>3, <1>4, <2>2
    <2>3. CASE Throw(a)
      <3>1. Target("fail", attempt[a].mutation, attempt[a].ext)
        BY <1>6, <2>1, <2>3 DEF Throw
      <3> HIDE DEF Target
      <3> QED BY <1>2, <3>1
    <2> QED BY <1>11, <2>2, <2>3 DEF Reconcile
  <1> QED BY <1>7, <1>8, <1>9, <1>10, <1>11 DEF Exchange

LEMMA ExchangeMarks ==
    ASSUME Journal, Marks, NEW a \in Attempts, Exchange(a)
    PROVE  Marks' /\ MarksKept
  <1>1. attempt[a].pc \in Owning /\ UNCHANGED ledger
    BY ExchangeMove, PlaceNames DEF ledgerVars
  <1>2. PICK pc \in {"confirm", "post", "answer", "fail"},
             mutation \in {"none", "possible", "confirmed"}, ext \in Nat :
            /\ Becomes(a, pc, mutation, attempt[a].prev, attempt[a].kind, ext)
            /\ attempt[a].mutation # "none" => mutation # "none"
            /\ attempt[a].mutation = "confirmed" => mutation = "confirmed"
            /\ pc = "confirm" =>
                 /\ mutation = "confirmed"
                 /\ attempt[a].kind = "entry" => ext # 0
    BY ExchangeMove
  <1> QED BY <1>1, <1>2, QuietInformed

LEMMA GateMarks ==
    ASSUME Journal, Marks, NEW a \in Attempts,
           GateStep(a) \/ ReserveClaims(a) \/ FailStep(a)
    PROVE  Marks' /\ MarksKept
  <1>1. UNCHANGED ledger BY SameLedger
  <1>2. attempt[a].pc \in Owning
    BY GateMove, PlaceNames DEF ReserveClaims, FailStep, Is, Owning
  <1>3. CASE GateStep(a)
    <2>1. PICK pc \in {"scope", "contend", "rebuild", "reserve", "retire", "fail"} :
              Goto(a, pc)
      BY <1>3, GateMove
    <2>2. Becomes(a, pc, attempt[a].mutation, attempt[a].prev,
              attempt[a].kind, attempt[a].ext)
      BY <2>1, PlaceNames, GotoAdvances DEF Advances, Journal
    <2> QED BY <1>1, <1>2, <2>2, QuietInformed
  <1>4. CASE ReserveClaims(a)
    <2> DEFINE next == IF attempt[a].resumed THEN "lookup" ELSE "post"
               prev == IF attempt[a].resumed
                   THEN ResumedPrevious(attempt[a].rem, attempt[a].ver)
                   ELSE attempt[a].prev
    <2>1. \/ Throw(a)
          \/ Becomes(a, next, attempt[a].mutation, prev, "inputs", attempt[a].ext)
      BY <1>4, ReserveMove DEF Journal
    <2>2. next \in {"lookup", "post"} OBVIOUS
    <2> HIDE DEF next, prev
    <2> QED BY <1>1, <1>2, <2>1, <2>2, QuietInformedThrow, QuietInformed
  <1>5. CASE FailStep(a)
    BY <1>1, <1>2, <1>5, QuietInformedThrow DEF FailStep
  <1> QED BY <1>3, <1>4, <1>5

LEMMA RetireMarks ==
    ASSUME Journal, AttemptsHeld, Marks, NEW a \in Attempts, Retire(a)
    PROVE  Marks' /\ MarksKept
  <1> DEFINE r == attempt[a].rem
             v == attempt[a].ver
  <1>1. attempt[a].pc = "retire" /\ attempt[a].pc \in Owning /\ Throw(a)
    BY RetireMove, PlaceNames DEF Journal
  <1>2. /\ r \in Removals /\ v \in Versions(r) /\ Row(a) = ledger[r][v]
    BY <1>1, TypedFacts, NamedFacts DEF Journal
  <1>3. CASE UNCHANGED ledger BY <1>1, <1>3, QuietInformedThrow
  <1>4. ASSUME NEW row \in Rows(Payloads), WriteRow(r, v, row),
               row.status = "superseded", Row(a).status = "draft",
               row.ext = Row(a).ext, row.mutation = Row(a).mutation
        PROVE  Marks' /\ MarksKept
    <2>1. ForeignRowsKept(a) BY StepForeign DEF Step
    <2>2. attempt[a].mutation = "none" BY <1>1 DEF AttemptsHeld, KeepsLock
    <2>3. ~Marked(Row(a))
      BY <1>1, <1>2, <1>4, <2>2 DEF Marks, AttemptsInformed, Informed
    <2>4. RowMarked(row)
      BY <1>4, <2>3 DEF RowMarked, Marked, HasPossibleExternalMutation
    <2>5. RowsMarked' /\ MarksKept
      BY <1>2, <1>4, <2>3, <2>4, WriteRowMarks
    <2>6. ledger'[r][v] = row BY <1>2, <1>4, WriteRowRows DEF Journal
    <2>7. Becomes(a, "fail", attempt[a].mutation, attempt[a].prev,
              attempt[a].kind, attempt[a].ext)
      BY <1>1, PlaceNames, GotoAdvances DEF Throw, Advances, Journal
    <2>8. AttemptsInformed'
      BY <1>4, <2>1, <2>6, <2>7, InformedBecomes DEF Marks
    <2> QED BY <2>5, <2>8 DEF Marks
  <1> QED BY <1>3, <1>4, RetireMove DEF Journal

LEMMA ConfirmMarks ==
    ASSUME Journal, AttemptsHeld, Marks, NEW a \in Attempts, Confirm(a)
    PROVE  Marks' /\ MarksKept
  <1> DEFINE r == attempt[a].rem
             v == attempt[a].ver
  <1>1. attempt[a].pc = "confirm" /\ attempt[a].pc \in Owning
    BY ConfirmMove, PlaceNames DEF Journal
  <1>2. /\ r \in Removals /\ v \in Versions(r) /\ Row(a) = ledger[r][v]
    BY <1>1, TypedFacts, NamedFacts DEF Journal
  <1>3. Informed(attempt[a], ledger[r][v])
    BY <1>1 DEF Marks, AttemptsInformed
  <1>4. CASE UNCHANGED ledger
             /\ Becomes(a, NextAfterInputs(a), attempt[a].mutation,
                   attempt[a].prev, "entry", attempt[a].ext)
    <2>1. /\ NextAfterInputs(a) \in {"verify", "lookup", "post"}
          /\ NextAfterInputs(a) = "verify" => attempt[a].ext # 0
      BY DEF NextAfterInputs
    <2> QED BY <1>1, <1>4, <2>1, QuietInformed
  <1>5. ASSUME NEW row \in Rows(Payloads), WriteRow(r, v, row),
               attempt[a].kind = "entry", row.ext = attempt[a].ext,
               row.mutation = "confirmed", row.status = Row(a).status,
               HoldsLock(r, v, attempt[a].stamp), Advances(a, "verify")
        PROVE  Marks' /\ MarksKept
    <2>1. ForeignRowsKept(a) BY StepForeign DEF Step
    <2>2. row.status = "draft" BY <1>2, <1>5 DEF HoldsLock
    <2>3. RowMarked(row) /\ Marked(row)
      BY <1>5, <2>2 DEF RowMarked, Marked, HasPossibleExternalMutation
    <2>4. RowsMarked' /\ MarksKept BY <1>2, <1>5, <2>3, WriteRowMarks
    <2>5. attempt[a].mutation = "confirmed" /\ attempt[a].ext # 0
      BY <1>1, <1>3, <1>5 DEF Informed
    <2>6. AttemptsInformed'
      BY <1>5, <2>1, <2>5, InformedBecomes DEF Marks, Advances
    <2> QED BY <2>4, <2>6 DEF Marks
  <1>6. CASE Throw(a) /\ UNCHANGED ledger BY <1>1, <1>6, QuietInformedThrow
  <1> QED BY <1>4, <1>5, <1>6, ConfirmMove DEF Journal

LEMMA VerifyMarks ==
    ASSUME Journal, Marks, NEW a \in Attempts, Verify(a)
    PROVE  Marks' /\ MarksKept
  <1>1. /\ attempt[a].pc = "verify" /\ attempt[a].pc \in Owning
        /\ UNCHANGED ledger
        /\ Becomes(a, "finalize", "confirmed", attempt[a].prev,
              attempt[a].kind, attempt[a].ext)
    BY VerifyMove, PlaceNames DEF Journal, ledgerVars
  <1>2. attempt[a].ext # 0 BY <1>1 DEF Marks, AttemptsInformed, Informed
  <1> QED BY <1>1, <1>2, QuietInformed

LEMMA FinalizeMarks ==
    ASSUME Journal, AttemptsHeld, Marks, NEW a \in Attempts,
           FinalizeSubmission(a)
    PROVE  Marks' /\ MarksKept
  <1> DEFINE r    == attempt[a].rem
             v    == attempt[a].ver
             prev == attempt[a].prev
  <1>1. attempt[a].pc = "finalize" /\ attempt[a].pc \in Owning
    BY FinalizeMove, PlaceNames DEF Journal
  <1>2. CASE Throw(a) /\ UNCHANGED <<ledger, claimed, reserved>>
    BY <1>1, <1>2, QuietInformedThrow
  <1>3. CASE ~(Throw(a) /\ UNCHANGED <<ledger, claimed, reserved>>)
    <2>1. /\ HoldsLock(r, v, attempt[a].stamp) /\ Stop(a)
          /\ Finalize([rem |-> r, ver |-> v], attempt[a].ext, prev,
                 ClaimBatches(a))
      BY <1>3, FinalizeMove DEF Journal
    <2>2. /\ r \in Removals /\ v \in Versions(r) /\ attempt[a].ext \in Nat
          /\ prev \in Nat /\ v \in Nat
      BY <1>1, TypedFacts, NamedFacts DEF Journal
    <2>3. attempt[a].ext # 0 BY <1>1 DEF Marks, AttemptsInformed, Informed
    <2>4. /\ \A q \in Removals : Len(ledger'[q]) = Len(ledger[q])
          /\ ledger'[r][v].status = "submitted"
          /\ ledger'[r][v].ext = attempt[a].ext
          /\ ledger'[r][v].mutation = "unset"
          /\ \A u \in Versions(r) \ {v} : u = prev =>
               /\ ledger'[r][u].status = "superseded"
               /\ ledger'[r][u].ext = ledger[r][u].ext
               /\ ledger'[r][u].mutation = ledger[r][u].mutation
          /\ \A q \in Removals : \A u \in Versions(q) :
               ~(q = r /\ u \in {v, prev}) => ledger'[q][u] = ledger[q][u]
      <3>1. FinalRows(r, v, attempt[a].ext, prev)
        BY <2>1, <2>2, FinalRowsAre DEF Journal
      <3> QED BY <3>1 DEF FinalRows, SubmittedRow, SupersededRow
    <2>5. RowMarked(ledger'[r][v]) /\ Marked(ledger'[r][v])
      BY <2>3, <2>4 DEF RowMarked, Marked, HasPossibleExternalMutation
    <2>6. v = Len(ledger[r]) /\ prev < v
      BY <1>1, <2>1, <2>2 DEF HoldsLock, Journal, RowsSound, AttemptsSound, Sound
    <2>7. \A u \in Versions(r) \ {v} : ledger[r][u].status # "draft"
      BY <2>2, <2>6 DEF Journal, RowsSound
    <2>8. ASSUME NEW u \in Versions(r) \ {v}, u = prev
          PROVE  /\ RowMarked(ledger'[r][u])
                 /\ Marked(ledger[r][u]) => Marked(ledger'[r][u])
      <3>1. RowMarked(ledger[r][u]) BY <2>2 DEF Marks, RowsMarked
      <3> QED BY <2>4, <2>7, <2>8, <3>1
           DEF RowMarked, Marked, HasPossibleExternalMutation
    <2>9. ASSUME NEW q \in Removals, NEW u \in Versions(q)
          PROVE  /\ RowMarked(ledger'[q][u])
                 /\ Marked(ledger[q][u]) => Marked(ledger'[q][u])
      <3>1. CASE q = r /\ u = v BY <2>5, <3>1
      <3>2. CASE q = r /\ u # v /\ u = prev BY <2>8, <3>2
      <3>3. CASE ~(q = r /\ u \in {v, prev})
        BY <2>4, <3>3 DEF Marks, RowsMarked
      <3> QED BY <3>1, <3>2, <3>3
    <2>10. RowsMarked' /\ MarksKept
      BY <2>4, <2>9 DEF RowsMarked, MarksKept, Versions
    <2>11. ForeignRowsKept(a) BY StepForeign DEF Step
    <2> QED BY <2>1, <2>10, <2>11, InformedStop DEF Marks
  <1> QED BY <1>2, <1>3

LEMMA RecordFailureMarks ==
    ASSUME Journal, AttemptsHeld, Marks, NEW a \in Attempts, RecordFailure(a)
    PROVE  Marks' /\ MarksKept
  <1> DEFINE r == attempt[a].rem
             v == attempt[a].ver
  <1>1. attempt[a].pc = "fail" /\ attempt[a].pc \in Owning /\ Stop(a)
    BY RecordFailureMove, PlaceNames DEF Journal
  <1>2. /\ r \in Removals /\ v \in Versions(r) /\ Row(a) = ledger[r][v]
    BY <1>1, TypedFacts, NamedFacts DEF Journal
  <1>3. Informed(attempt[a], ledger[r][v])
    BY <1>1 DEF Marks, AttemptsInformed
  <1>4. AttemptsInformed' BY <1>1, StepForeign, InformedStop DEF Step, Marks
  <1>5. CASE UNCHANGED ledger BY <1>4, <1>5, QuietMarks DEF Marks
  <1>6. ASSUME NEW row \in Rows(Payloads), WriteRow(r, v, row),
               HoldsLock(r, v, attempt[a].stamp), row.ext = Row(a).ext,
               \/ /\ attempt[a].mutation = "none"
                  /\ row.status = "rejected" /\ row.mutation = "unset"
               \/ /\ attempt[a].mutation # "none"
                  /\ row.status = Row(a).status
                  /\ row.mutation = attempt[a].mutation
        PROVE  Marks' /\ MarksKept
    <2>1. Row(a).status = "draft" BY <1>2, <1>6 DEF HoldsLock
    <2>2. attempt[a].mutation \in {"none", "possible", "confirmed"}
      BY TypedFacts DEF Journal
    <2>3. RowMarked(row)
      BY <1>2, <1>3, <1>6, <2>1, <2>2
      DEF Informed, RowMarked, HasPossibleExternalMutation
    <2>4. Marked(Row(a)) => Marked(row)
      BY <1>2, <1>3, <1>6, <2>1, <2>2
      DEF Informed, Marked, HasPossibleExternalMutation
    <2> QED BY <1>2, <1>4, <1>6, <2>3, <2>4, WriteRowMarks DEF Marks
  <1> QED BY <1>5, <1>6, RecordFailureMove DEF Journal

LEMMA StepMarks ==
    ASSUME Journal, AttemptsHeld, Marks, NEW a \in Attempts, Step(a)
    PROVE  Marks' /\ MarksKept
  BY PreparingMarks, CreateDraftMarks, ResetDraftMarks, GateMarks,
     ExchangeMarks, RetireMarks, ConfirmMarks, VerifyMarks, FinalizeMarks,
     RecordFailureMarks
  DEF Step, GateStep, Exchange, Preparation

\* Neither does the environment touch the rows or what attempts know.
LEMMA EnvironmentMarks ==
    ASSUME Journal, Marks,
           \/ \E a \in Attempts : Crash(a)
           \/ \E req \in wire : Deliver(req)
           \/ \E r \in Removals : Change(r)
           \/ Tick \/ UNCHANGED vars
    PROVE  Marks' /\ MarksKept
  <1>1. UNCHANGED ledger
    BY DEF Crash, Deliver, Change, Tick, ledgerVars, vars
  <1>2. CASE \E a \in Attempts : Crash(a)
    <2>1. PICK a \in Attempts : Stop(a) BY <1>2 DEF Crash
    <2> QED BY <1>1, <2>1, QuietRows, InformedStop, QuietMarks DEF Marks
  <1>3. CASE UNCHANGED attempt
    <2>1. AttemptsInformed' BY <1>1, <1>3 DEF Marks, AttemptsInformed
    <2> QED BY <1>1, <2>1, QuietMarks DEF Marks
  <1> QED BY <1>2, <1>3 DEF Deliver, Change, Tick, vars

-----------------------------------------------------------------------------
(* Reservations stand while their owner sends.                             *)

AttemptsReserve ==
    \A a \in Attempts : attempt[a].pc \in Replacing =>
        \A b \in ClaimBatches(a) : reserved[b] = Submission(a)

\* An attempt that owns a draft holds a lock nobody sees as expired.
LEMMA HeldIsFresh ==
    ASSUME Journal, AttemptsHeld, NEW a \in Attempts, attempt[a].pc \in Owning,
           Row(a).status = "draft"
    PROVE  LockIsFresh(Row(a), clock) /\ HoldsLock(attempt[a].rem,
               attempt[a].ver, attempt[a].stamp)
  <1>1. /\ attempt[a].rem \in Removals
        /\ attempt[a].ver \in Versions(attempt[a].rem)
        /\ Row(a) = ledger[attempt[a].rem][attempt[a].ver]
    BY TypedFacts, NamedFacts DEF Journal
  <1>2. Row(a).lockedAt # NoLock BY <1>1 DEF Journal, RowsSound
  <1>3. /\ clock - attempt[a].stamp.at < LockTTL
        /\ Row(a).lockedAt = attempt[a].stamp
    BY <1>1 DEF AttemptsHeld, KeepsLock, RowHeld
  <1> QED BY <1>1, <1>2, <1>3 DEF LockIsFresh, HoldsLock

\* Who changes a reservation, and how.
Fate(a, b) ==
    \/ /\ attempt[a].pc \in {"retire", "fail"} /\ attempt[a].mutation = "none"
       /\ reserved[b] = Submission(a) /\ Row(a).status = "draft"
       /\ reserved'[b] = NoSubmission
    \/ /\ attempt[a].pc = "reserve" /\ reserved'[b] = Submission(a)
       /\ CanTransferReservation(ledger[reserved[b].rem][reserved[b].ver], clock)
    \/ /\ attempt[a].pc = "finalize" /\ Row(a).status = "draft"
       /\ reserved[b] = Submission(a) /\ reserved'[b] = NoSubmission
       /\ claimed'[b] = attempt[a].rem

LEMMA ReservingStep ==
    ASSUME Journal, NEW a \in Attempts, Step(a), ~UNCHANGED reserved
    PROVE  \/ Retire(a) \/ ReserveClaims(a) \/ FinalizeSubmission(a)
           \/ RecordFailure(a)
  <1>1. ~Preparation(a) BY PreparingMove
  <1>2. ~Exchange(a) BY ExchangeMove DEF ledgerVars
  <1>3. ~(GateStep(a) \/ CreateDraft(a) \/ ResetDraft(a) \/ Confirm(a)
            \/ Verify(a) \/ FailStep(a))
    BY GateMove
    DEF CreateDraft, ResetDraft, Confirm, Verify, FailStep, ledgerVars
  <1> QED BY <1>1, <1>2, <1>3 DEF Step, Preparation, Exchange, GateStep

LEMMA ReservationFate ==
    ASSUME Journal, AttemptsHeld, ReservationsSound,
           NEW a \in Attempts, Step(a),
           NEW b \in Batches, reserved[b] # NoSubmission,
           reserved'[b] # reserved[b]
    PROVE  Fate(a, b)
  <1>1. \/ Retire(a) \/ ReserveClaims(a) \/ FinalizeSubmission(a)
        \/ RecordFailure(a)
    BY ReservingStep
  <1>2. reserved[b] = Submission(a) =>
            Row(a).status = "draft"
    <2>1. Reserves(b, reserved[b], ledger, claimed) BY DEF ReservationsSound
    <2> QED BY <2>1 DEF Reserves, Submission, Row
  <1>3. CASE Retire(a)
    <2>1. /\ attempt[a].pc = "retire" /\ Row(a).status = "draft"
          /\ Release(Submission(a))
      BY <1>3, RetireMove DEF Journal
    <2>2. attempt[a].mutation = "none" BY <2>1 DEF AttemptsHeld, KeepsLock
    <2> QED BY <2>1, <2>2 DEF Release, Fate
  <1>4. CASE RecordFailure(a)
    <2>1. /\ attempt[a].pc = "fail" /\ attempt[a].mutation = "none"
          /\ Release(Submission(a))
      BY <1>4, RecordFailureMove DEF Journal
    <2> QED BY <1>2, <2>1 DEF Release, Fate
  <1>5. CASE ReserveClaims(a)
    <2>1. /\ attempt[a].pc = "reserve"
          /\ CanReserve(Submission(a), ClaimBatches(a))
          /\ Reserve(Submission(a), ClaimBatches(a))
      BY <1>5, ReserveMove DEF Journal
    <2>2. b \in ClaimBatches(a) /\ reserved'[b] = Submission(a)
      BY <2>1 DEF Reserve
    <2> QED BY <2>1, <2>2 DEF CanReserve, Fate
  <1>6. CASE FinalizeSubmission(a)
    <2>1. /\ attempt[a].pc = "finalize"
          /\ CanFinalize(Submission(a), attempt[a].stamp, ClaimBatches(a))
          /\ Finalize([rem |-> attempt[a].rem, ver |-> attempt[a].ver],
                 attempt[a].ext, attempt[a].prev, ClaimBatches(a))
      BY <1>6, FinalizeMove DEF Journal
    <2>2. /\ b \in ClaimBatches(a) /\ reserved'[b] = NoSubmission
          /\ claimed'[b] = attempt[a].rem
      BY <2>1 DEF Finalize
    <2>3. reserved[b] = Submission(a) BY <2>1, <2>2 DEF CanFinalize
    <2> QED BY <1>2, <2>1, <2>2, <2>3 DEF Fate
  <1> QED BY <1>1, <1>3, <1>4, <1>5, <1>6

LEMMA StepMovesOne ==
    ASSUME Journal, NEW a \in Attempts, Step(a)
    PROVE  \E q : attempt' = [attempt EXCEPT ![a] = q]
  <1>1. ASSUME NEW pc, NEW mutation, NEW prev, NEW kind, NEW ext,
               Becomes(a, pc, mutation, prev, kind, ext)
        PROVE  \E q : attempt' = [attempt EXCEPT ![a] = q]
    BY <1>1 DEF Becomes
  <1>2. Stop(a) => \E q : attempt' = [attempt EXCEPT ![a] = q] BY DEF Stop
  <1>3. ASSUME NEW pc, Goto(a, pc)
        PROVE  \E q : attempt' = [attempt EXCEPT ![a] = q]
    <2>1. attempt' = [attempt EXCEPT ![a] = [attempt[a] EXCEPT !.pc = pc]]
      BY <1>3, StateFacts DEF Goto, Journal
    <2> QED BY <2>1
  <1>4. CASE Preparation(a) BY <1>4, PreparingMove
  <1>5. CASE CreateDraft(a)
    <2>1. CASE Stop(a) BY <1>2, <2>1
    <2>2. CASE ~Stop(a)
      <3>1. PICK q \in Attempt :
                attempt' = [attempt EXCEPT ![a] = q] /\ q.pc = "scope"
        BY <1>5, <2>2, CreateDraftTurn DEF TakesDraft
      <3> QED BY <3>1
    <2> QED BY <2>1, <2>2
  <1>6. CASE ResetDraft(a)
    <2>1. CASE Stop(a) BY <1>2, <2>1
    <2>2. CASE CanResetToDraft(ledger[attempt[a].rem][attempt[a].ver],
                   attempt[a].bypass, attempt[a].began)
      <3>1. PICK q \in Attempt : attempt' = [attempt EXCEPT ![a] = q]
        BY <1>6, <2>2, ResetDraftMove
      <3> QED BY <3>1
    <2> QED BY <1>6, <2>1, <2>2 DEF ResetDraft
  <1>7. CASE GateStep(a) BY <1>3, <1>7, GateMove
  <1>8. CASE ReserveClaims(a)
    BY <1>1, <1>3, <1>8, ReserveMove DEF Throw, Journal
  <1>9. CASE Exchange(a) BY <1>1, <1>9, ExchangeMove
  <1>10. CASE Confirm(a) \/ Verify(a)
    BY <1>1, <1>3, <1>10, ConfirmMove, VerifyMove DEF Throw, Advances, Journal
  <1>11. CASE Retire(a) \/ FinalizeSubmission(a) \/ FailStep(a)
                \/ RecordFailure(a)
    BY <1>2, <1>3, <1>11, RetireMove, FinalizeMove, RecordFailureMove
    DEF FailStep, Throw, Journal
  <1> QED BY <1>4, <1>5, <1>6, <1>7, <1>8, <1>9, <1>10, <1>11
       DEF Step, Preparation, GateStep, Exchange

\* The steps that leave an attempt sending or finishing.
LEMMA ReplacingMove ==
    ASSUME Journal, NEW a \in Attempts, Step(a),
           attempt'[a].pc \in Replacing
    PROVE  /\ SameClaim(attempt[a], attempt'[a])
           /\ attempt' = [attempt EXCEPT ![a] = attempt'[a]]
           /\ \/ attempt[a].pc \in Replacing /\ UNCHANGED reserved
              \/ /\ attempt[a].pc = "reserve"
                 /\ Reserve(Submission(a), ClaimBatches(a))
  <1>1. ASSUME NEW q, attempt' = [attempt EXCEPT ![a] = q]
        PROVE  attempt'[a] = q
    BY <1>1, StateFacts DEF Journal
  <1>2. ASSUME NEW pc, NEW mutation, NEW prev, NEW kind, NEW ext,
               Becomes(a, pc, mutation, prev, kind, ext)
        PROVE  /\ SameClaim(attempt[a], attempt'[a]) /\ attempt'[a].pc = pc
               /\ attempt' = [attempt EXCEPT ![a] = attempt'[a]]
    <2>1. PICK q \in Attempt : /\ attempt' = [attempt EXCEPT ![a] = q]
                               /\ SameClaim(attempt[a], q) /\ q.pc = pc
      BY <1>2 DEF Becomes
    <2> QED BY <1>1, <2>1
  <1>3. ~Stop(a) BY <1>1, IdleType, StepNames, PlaceNames DEF Stop
  <1>4. ~Throw(a) BY <1>2, PlaceNames, GotoAdvances DEF Throw, Advances, Journal
  <1>5. CASE Preparation(a) BY <1>1, <1>5, PreparingMove, PlaceNames
  <1>6. CASE CreateDraft(a)
    <2>1. PICK q \in Attempt : attempt' = [attempt EXCEPT ![a] = q] /\ q.pc = "scope"
      BY <1>3, <1>6, CreateDraftTurn DEF TakesDraft
    <2> QED BY <1>1, <2>1, PlaceNames
  <1>7. CASE ResetDraft(a)
    <2>1. PICK q \in Attempt : attempt' = [attempt EXCEPT ![a] = q] /\ q.pc = "revision"
      BY <1>3, <1>7, ResetDraftMove DEF ResetDraft
    <2> QED BY <1>1, <2>1, PlaceNames
  <1>8. CASE GateStep(a)
    <2>1. PICK pc \in {"scope", "contend", "rebuild", "reserve", "retire", "fail"} :
              Goto(a, pc)
      BY <1>8, GateMove
    <2>2. Becomes(a, pc, attempt[a].mutation, attempt[a].prev,
              attempt[a].kind, attempt[a].ext)
      BY <2>1, PlaceNames, GotoAdvances DEF Advances, Journal
    <2> QED BY <1>2, <2>2, PlaceNames
  <1>9. CASE ReserveClaims(a)
    BY <1>2, <1>4, <1>9, ReserveMove DEF Journal
  <1>10. CASE Exchange(a)
    <2>1. attempt[a].pc \in Replacing /\ UNCHANGED reserved
      BY <1>10, ExchangeMove, PlaceNames DEF ledgerVars
    <2> QED BY <1>2, <1>10, <2>1, ExchangeMove
  <1>11. CASE Confirm(a)
    BY <1>2, <1>4, <1>11, ConfirmMove, PlaceNames DEF Journal, Advances
  <1>12. CASE Verify(a)
    BY <1>2, <1>12, VerifyMove, PlaceNames DEF Journal, ledgerVars
  <1>13. CASE Retire(a) \/ FinalizeSubmission(a) \/ FailStep(a)
                \/ RecordFailure(a)
    BY <1>3, <1>4, <1>13, RetireMove, FinalizeMove, RecordFailureMove
    DEF FailStep, Journal
  <1> QED BY <1>5, <1>6, <1>7, <1>8, <1>9, <1>10, <1>11, <1>12, <1>13
       DEF Step, Preparation, GateStep, Exchange

LEMMA SubmissionNames ==
    ASSUME Journal, NEW a \in Attempts
    PROVE  /\ Submission(a).rem = attempt[a].rem
           /\ Submission(a).ver = attempt[a].ver
           /\ Submission(a) # NoSubmission
  BY TypedFacts, NoneAssumption DEF Submission, NoSubmission, Journal

\* What another attempt reserved stays reserved while it sends.
LEMMA OthersReserve ==
    ASSUME Journal, AttemptsHeld, ReservationsSound, NEW a \in Attempts, Step(a),
           NEW c \in Attempts \ {a}, attempt[c].pc \in Replacing,
           NEW b \in Batches, reserved[b] = Submission(c)
    PROVE  reserved'[b] = Submission(c)
  <1> SUFFICES ASSUME reserved'[b] # reserved[b] PROVE FALSE OBVIOUS
  <1>1. /\ attempt[c].pc \in Owning /\ attempt[c].pc # "fail"
        /\ {"retire", "fail", "reserve", "finalize"} \subseteq Owning
    BY PlaceNames
  <1>2. /\ Submission(c).rem = attempt[c].rem
        /\ Submission(c).ver = attempt[c].ver
        /\ Submission(a).rem = attempt[a].rem
        /\ Submission(a).ver = attempt[a].ver
        /\ reserved[b] # NoSubmission
    BY SubmissionNames
  <1>3. Row(c).status = "draft" BY <1>1 DEF AttemptsHeld, KeepsLock, RowHeld, Row
  <1>4. LockIsFresh(Row(c), clock) BY <1>1, <1>3, HeldIsFresh
  <1>5. ~CanTransferReservation(Row(c), clock)
    BY <1>3, <1>4 DEF CanTransferReservation
  <1>6. Fate(a, b) BY <1>2, ReservationFate
  <1>7. CASE attempt[a].pc \in Owning /\ Row(a).status = "draft"
             /\ reserved[b] = Submission(a)
    BY <1>1, <1>2, <1>7, OwnRow
  <1> QED BY <1>1, <1>2, <1>5, <1>6, <1>7 DEF Fate, Row

LEMMA StepReserve ==
    ASSUME Journal, AttemptsHeld, ReservationsSound, AttemptsReserve,
           NEW a \in Attempts, Step(a)
    PROVE  AttemptsReserve'
  <1> SUFFICES ASSUME NEW c \in Attempts, attempt'[c].pc \in Replacing,
                      NEW b \in ClaimBatches(c)'
               PROVE  reserved'[b] = Submission(c)'
    BY DEF AttemptsReserve
  <1>1. CASE c = a
    <2>1. /\ SameClaim(attempt[a], attempt'[a])
          /\ \/ attempt[a].pc \in Replacing /\ UNCHANGED reserved
             \/ /\ attempt[a].pc = "reserve"
                /\ Reserve(Submission(a), ClaimBatches(a))
      BY <1>1, ReplacingMove
    <2>2. Submission(c)' = Submission(a) /\ b \in ClaimBatches(a)
      BY <1>1, <2>1 DEF Submission, ClaimBatches, SameClaim
    <2>3. ClaimBatches(a) \subseteq Batches
      BY TypedFacts, MembersAssumption DEF ClaimBatches, Journal
    <2> QED BY <2>1, <2>2, <2>3 DEF AttemptsReserve, Reserve
  <1>2. CASE c # a
    <2>1. attempt'[c] = attempt[c]
      <3>1. \E q : attempt' = [attempt EXCEPT ![a] = q]
        BY StepMovesOne
      <3> QED BY <1>2, <3>1, StateFacts DEF Journal
    <2>2. Submission(c)' = Submission(c) /\ b \in ClaimBatches(c)
      BY <2>1 DEF Submission, ClaimBatches
    <2>3. ClaimBatches(c) \subseteq Batches
      BY TypedFacts, MembersAssumption DEF ClaimBatches, Journal
    <2> QED BY <1>2, <2>1, <2>2, <2>3, OthersReserve DEF AttemptsReserve
  <1> QED BY <1>1, <1>2

\* All that its payload counts of a batch is among what it reserved.
LEMMA SentIsReserved ==
    ASSUME Inv, AttemptsReserve, NEW a \in Attempts,
           attempt[a].pc \in Replacing, NEW b \in attempt[a].hash.prod
    PROVE  reserved[b] = Submission(a)
  <1>1. attempt[a].pc \in Checked BY GateNames DEF Replacing
  <1>2. b \in Members[attempt[a].rem] /\ attempt[a].seen[b] \in {None, attempt[a].rem}
    BY <1>1 DEF Inv, AttemptsFit, Fits
  <1>3. b \in ClaimBatches(a) BY <1>2 DEF ClaimBatches, IncludesProduction
  <1> QED BY <1>3 DEF AttemptsReserve

-----------------------------------------------------------------------------
(* What reached the registry, and who answers for it.                      *)

Slots == [rem : Removals, ver : 1 .. MaxVersion]

Wrote(s) == ~WroteNothing(s) \/ ~NothingUnderway(s)

Writing(a, s) ==
    /\ attempt[a].pc \in Owning
    /\ attempt[a].rem = s.rem /\ attempt[a].ver = s.ver
    /\ ledger[s.rem][s.ver].status = "draft" /\ attempt[a].mutation # "none"

\* A version that wrote is marked, or the attempt that wrote still runs.
WritesKnown ==
    \A s \in Slots : Wrote(s) =>
        /\ s.ver \in Versions(s.rem)
        /\ \/ Marked(ledger[s.rem][s.ver])
           \/ \E a \in Attempts : Writing(a, s)

\* What a version sent is claimed by its Removal, or reserved for it.
WritesOwned ==
    \A s \in Slots : Wrote(s) =>
        \A b \in ledger[s.rem][s.ver].hash.prod :
            claimed[b] = s.rem \/ reserved[b] = s

LEMMA SlotFacts ==
    ASSUME NEW s \in Slots
    PROVE  /\ s.rem \in Removals /\ s.ver \in 1 .. MaxVersion
           /\ s = [rem |-> s.rem, ver |-> s.ver]
  BY DEF Slots

LEMMA SlotOfAttempt ==
    ASSUME NEW a \in Attempts, NEW s \in Slots, attempt[a].rem = s.rem,
           attempt[a].ver = s.ver
    PROVE  Submission(a) = s /\ Row(a) = ledger[s.rem][s.ver]
  BY SlotFacts DEF Submission, Row

LEMMA SameWrites ==
    ASSUME UNCHANGED <<registry, wire>>, NEW s
    PROVE  Wrote(s)' <=> Wrote(s)
  BY DEF Wrote, WroteNothing, NothingUnderway

\* A record under one reference is a write of one version only.
LEMMA RecordWrites ==
    ASSUME Typed, NEW ref \in References,
           CreateRecord(ref) \/ UNCHANGED registry,
           \A req \in wire' : req \in wire \/ req.ref = ref,
           NEW s \in Slots, Wrote(s)'
    PROVE  Wrote(s) \/ (s.rem = ref.rem /\ s.ver = ref.ver)
  <1> SUFFICES ASSUME ~(s.rem = ref.rem /\ s.ver = ref.ver)
               PROVE  Wrote(s)
    OBVIOUS
  <1>1. \A other \in References :
            other.rem = s.rem /\ other.ver = s.ver =>
                registry'[other] = registry[other]
    BY CreateRecordMove
  <1>2. ~NothingUnderway(s)' => ~NothingUnderway(s) BY DEF NothingUnderway
  <1>3. ~WroteNothing(s)' => ~WroteNothing(s) BY <1>1 DEF WroteNothing
  <1> QED BY <1>2, <1>3 DEF Wrote

\* Only a post reaches the registry.
LEMMA OnlyPostsWrite ==
    ASSUME Journal, NEW a \in Attempts, Step(a)
    PROVE  UNCHANGED <<registry, wire>> \/ PostAnswered(a) \/ PostUnanswered(a)
  <1>1. CASE Preparation(a) BY <1>1, PreparingMove
  <1>2. CASE GateStep(a) \/ Retire(a) \/ Confirm(a) \/ Verify(a)
               \/ FinalizeSubmission(a) \/ RecordFailure(a)
    BY <1>2, GateMove DEF Retire, Confirm, Verify, FinalizeSubmission,
       RecordFailure
  <1>3. CASE CreateDraft(a) \/ ResetDraft(a) \/ ReserveClaims(a) \/ FailStep(a)
               \/ LookupFound(a) \/ LookupNone(a) \/ LookupFails(a)
               \/ PostRefused(a) \/ Reconcile(a)
    BY <1>3 DEF CreateDraft, ResetDraft, ReserveClaims, FailStep,
       LookupFound, LookupNone, LookupFails, PostRefused, Reconcile
  <1> QED BY <1>1, <1>2, <1>3 DEF Step, Preparation, GateStep

LEMMA StepWrites ==
    ASSUME Journal, NEW a \in Attempts, Step(a), NEW s \in Slots, Wrote(s)'
    PROVE  \/ Wrote(s)
           \/ /\ Exchange(a) /\ attempt[a].pc = "post"
              /\ attempt[a].rem = s.rem /\ attempt[a].ver = s.ver
              /\ ~UNCHANGED <<registry, wire>>
  <1> SUFFICES ASSUME ~UNCHANGED <<registry, wire>>
               PROVE  \/ Wrote(s)
                      \/ /\ Exchange(a) /\ attempt[a].pc = "post"
                         /\ attempt[a].rem = s.rem /\ attempt[a].ver = s.ver
    BY SameWrites
  <1>1. PostAnswered(a) \/ PostUnanswered(a) BY OnlyPostsWrite
  <1>2. Exchange(a) /\ attempt[a].pc = "post"
    BY <1>1 DEF PostAnswered, PostUnanswered, Exchange, Is
  <1>3. Reference(a) \in References
    BY <1>2, PlaceNames, NamedFacts DEF Journal
  <1>4. /\ CreateRecord(Reference(a)) \/ UNCHANGED registry
        /\ \A req \in wire' : req \in wire \/ req.ref = Reference(a)
    BY <1>1 DEF PostAnswered, PostUnanswered
  <1>5. Wrote(s) \/ (s.rem = Reference(a).rem /\ s.ver = Reference(a).ver)
    BY <1>3, <1>4, RecordWrites DEF Journal
  <1> QED BY <1>2, <1>5 DEF Reference

LEMMA StepHashes ==
    ASSUME Journal, NEW a \in Attempts, Step(a)
    PROVE  HashesKept
  <1> DEFINE r == attempt[a].rem
             v == attempt[a].ver
  <1>1. ASSUME attempt[a].pc \in Owning \cup {"resetting"},
               NEW row \in Rows(Payloads), WriteRow(r, v, row),
               row.hash = ledger[r][v].hash
        PROVE  HashesKept
    <2>1. r \in Removals /\ v \in Versions(r)
      BY <1>1, TypedFacts, NamedFacts DEF Journal
    <2>2. /\ \A s \in Removals : Len(ledger'[s]) = Len(ledger[s])
          /\ \A s \in Removals : \A u \in Versions(s) :
                ledger'[s][u] = IF s = r /\ u = v THEN row ELSE ledger[s][u]
      BY <1>1, <2>1, WriteRowRows DEF Journal
    <2> QED BY <1>1, <2>2 DEF HashesKept, Versions
  <1>2. CASE UNCHANGED ledger BY <1>2 DEF HashesKept, Versions
  <1>3. CASE CreateDraft(a) /\ ~(Stop(a) /\ UNCHANGED ledger)
    <2> DEFINE new == Len(ledger[r]) + 1
    <2>1. /\ \A s \in Removals : Len(ledger'[s]) =
                 IF s = r THEN new ELSE Len(ledger[s])
          /\ \A s \in Removals : \A u \in Versions(s) :
                 ledger'[s][u] = ledger[s][u]
      BY <1>3, CreateDraftMove
    <2>2. \A s \in Removals : Len(ledger[s]) \in Nat BY StateFacts DEF Journal
    <2> QED BY <2>1, <2>2 DEF HashesKept, Versions
  <1>4. CASE ResetDraft(a)
    <2>1. attempt[a].pc = "resetting" BY <1>4 DEF ResetDraft, Is
    <2>2. CASE CanResetToDraft(ledger[r][v], attempt[a].bypass, attempt[a].began)
      <3>1. PICK row \in Rows(Payloads), q \in Attempt :
                WriteRow(r, v, row) /\ row.hash = ledger[r][v].hash
        BY <1>4, <2>2, ResetDraftMove
      <3> QED BY <1>1, <2>1, <3>1
    <2> QED BY <1>2, <1>4, <2>2 DEF ResetDraft
  <1>5. CASE Retire(a) \/ Confirm(a) \/ RecordFailure(a)
    <2>1. attempt[a].pc \in Owning /\ Row(a) = ledger[r][v]
      BY <1>5, RetireMove, ConfirmMove, RecordFailureMove, PlaceNames
      DEF Journal, Row
    <2>2. \/ UNCHANGED ledger
          \/ \E row \in Rows(Payloads) :
                 WriteRow(r, v, row) /\ row.hash = Row(a).hash
      BY <1>5, RetireMove, ConfirmMove, RecordFailureMove DEF Journal
    <2> QED BY <1>1, <1>2, <2>1, <2>2
  <1>6. CASE FinalizeSubmission(a) /\ ~UNCHANGED ledger
    <2>1. /\ attempt[a].pc = "finalize"
          /\ Finalize([rem |-> r, ver |-> v], attempt[a].ext, attempt[a].prev,
                 ClaimBatches(a))
      BY <1>6, FinalizeMove DEF Journal
    <2>2. r \in Removals /\ v \in Versions(r) /\ attempt[a].ext \in Nat
      BY <2>1, PlaceNames, TypedFacts, NamedFacts DEF Journal
    <2>3. /\ \A q \in Removals : Len(ledger'[q]) = Len(ledger[q])
          /\ \A q \in Removals : \A u \in Versions(q) :
                ledger'[q][u].hash = ledger[q][u].hash
      BY <2>1, <2>2, FinalizeRows DEF Journal
    <2> QED BY <2>3 DEF HashesKept, Versions
  <1> QED BY <1>2, <1>3, <1>4, <1>5, <1>6, SameLedger DEF Step, GateStep

LEMMA WritingStays ==
    ASSUME Journal, NEW a \in Attempts, NEW s \in Slots, Writing(a, s),
           NEW pc \in Owning, NEW mutation, NEW prev, NEW kind, NEW ext,
           Becomes(a, pc, mutation, prev, kind, ext), UNCHANGED ledger,
           mutation # "none"
    PROVE  Writing(a, s)'
  <1>1. PICK q \in Attempt :
            /\ attempt' = [attempt EXCEPT ![a] = q]
            /\ SameClaim(attempt[a], q) /\ q.pc = pc /\ q.mutation = mutation
    BY DEF Becomes
  <1>2. attempt'[a] = q BY <1>1, StateFacts DEF Journal
  <1> QED BY <1>1, <1>2 DEF Writing, SameClaim

\* An attempt that wrote marks its row before it lets go of it.
LEMMA OwnWriting ==
    ASSUME Journal, AttemptsHeld, Marks, NEW a \in Attempts, Step(a),
           NEW s \in Slots, Writing(a, s)
    PROVE  Marked(ledger'[s.rem][s.ver]) \/ Writing(a, s)'
  <1> DEFINE r == attempt[a].rem
             v == attempt[a].ver
             Quiet(pc, mutation) == \E prev, kind, ext :
                 Becomes(a, pc, mutation, prev, kind, ext)
  <1>1. /\ attempt[a].pc \in Owning /\ r = s.rem /\ v = s.ver
        /\ Row(a) = ledger[r][v] /\ Row(a).status = "draft"
        /\ attempt[a].mutation # "none"
    BY DEF Writing, Row
  <1>2. r \in Removals /\ v \in Versions(r)
    BY <1>1, TypedFacts, NamedFacts DEF Journal
  <1>3. Informed(attempt[a], Row(a)) BY <1>1 DEF Marks, AttemptsInformed
  <1>4. ASSUME UNCHANGED ledger, NEW pc \in Owning, NEW mutation,
               Quiet(pc, mutation), mutation # "none"
        PROVE  Writing(a, s)'
    BY <1>4, WritingStays
  <1>5. ASSUME UNCHANGED ledger, NEW pc \in Owning \cap Steps, Goto(a, pc)
        PROVE  Writing(a, s)'
    <2>1. Quiet(pc, attempt[a].mutation)
      BY <1>5, GotoAdvances DEF Advances, Journal
    <2> HIDE DEF Quiet
    <2> QED BY <1>1, <1>4, <1>5, <2>1
  <1>6. "fail" \in Owning \cap Steps /\ "finalize" \in Owning BY PlaceNames
  <1>7. ~Preparation(a) /\ ~CreateDraft(a) /\ ~ResetDraft(a)
    BY <1>1, PreparingMove, StepNames DEF CreateDraft, ResetDraft, Is
  <1>8. CASE GateStep(a)
    <2>1. PICK pc \in {"scope", "contend", "rebuild", "reserve", "retire", "fail"} :
              Goto(a, pc)
      BY <1>8, GateMove
    <2> HIDE DEF Quiet
    <2> QED BY <1>5, <1>8, <2>1, PlaceNames, SameLedger
  <1>9. CASE ReserveClaims(a)
    <2>1. \/ Throw(a)
          \/ \E pc \in {"lookup", "post"} : Quiet(pc, attempt[a].mutation)
      BY <1>9, ReserveMove DEF Journal
    <2>2. {"lookup", "post"} \subseteq Owning BY PlaceNames
    <2>3. UNCHANGED ledger BY <1>9, SameLedger
    <2> HIDE DEF Quiet
    <2> QED BY <1>1, <1>4, <1>5, <1>6, <2>1, <2>2, <2>3 DEF Throw
  <1>10. CASE Exchange(a)
    <2>1. PICK pc \in {"confirm", "post", "answer", "fail"},
               mutation \in {"none", "possible", "confirmed"}, ext \in Nat :
              /\ Becomes(a, pc, mutation, attempt[a].prev, attempt[a].kind, ext)
              /\ attempt[a].mutation # "none" => mutation # "none"
      BY <1>10, ExchangeMove
    <2>2. pc \in Owning /\ UNCHANGED ledger
      BY <1>10, ExchangeMove, PlaceNames DEF ledgerVars
    <2> QED BY <1>1, <1>4, <2>1, <2>2
  <1>11. CASE Retire(a)
    <2>1. attempt[a].pc = "retire" BY <1>11, RetireMove DEF Journal
    <2> QED BY <1>1, <2>1 DEF AttemptsHeld, KeepsLock
  <1>12. CASE Confirm(a)
    <2>1. CASE UNCHANGED ledger
               /\ Becomes(a, NextAfterInputs(a), attempt[a].mutation,
                     attempt[a].prev, "entry", attempt[a].ext)
      <3>1. NextAfterInputs(a) \in Owning BY PlaceNames DEF NextAfterInputs
      <3> QED BY <1>1, <1>4, <2>1, <3>1
    <2>2. ASSUME NEW row \in Rows(Payloads), WriteRow(r, v, row),
                 row.mutation = "confirmed"
          PROVE  Marked(ledger'[s.rem][s.ver])
      <3>1. ledger'[r][v] = row BY <1>2, <2>2, WriteRowRows DEF Journal
      <3> QED BY <1>1, <2>2, <3>1 DEF Marked, HasPossibleExternalMutation
    <2>3. CASE Throw(a) /\ UNCHANGED ledger
      BY <1>5, <1>6, <2>3 DEF Throw
    <2> HIDE DEF Quiet
    <2> QED BY <1>12, <2>1, <2>2, <2>3, ConfirmMove DEF Journal
  <1>13. CASE Verify(a)
    <2>1. Quiet("finalize", "confirmed") /\ UNCHANGED ledger
      BY <1>13, VerifyMove DEF Journal, ledgerVars
    <2> HIDE DEF Quiet
    <2> QED BY <1>4, <1>6, <2>1
  <1>14. CASE FinalizeSubmission(a)
    <2>1. attempt[a].pc = "finalize" BY <1>14, FinalizeMove DEF Journal
    <2>2. CASE Throw(a) /\ UNCHANGED <<ledger, claimed, reserved>>
      BY <1>5, <1>6, <2>2 DEF Throw
    <2>3. CASE ~(Throw(a) /\ UNCHANGED <<ledger, claimed, reserved>>)
      <3>1. Finalize([rem |-> r, ver |-> v], attempt[a].ext, attempt[a].prev,
                ClaimBatches(a))
        BY <1>14, <2>3, FinalizeMove DEF Journal
      <3>2. attempt[a].ext \in Nat /\ attempt[a].ext # 0
        BY <1>3, <2>1, TypedFacts DEF Informed, Journal
      <3>3. ledger'[r][v].ext = attempt[a].ext
        BY <1>2, <3>1, <3>2, FinalizeRows DEF Journal
      <3> QED BY <1>1, <3>2, <3>3 DEF Marked
    <2> QED BY <2>2, <2>3
  <1>15. CASE FailStep(a)
    BY <1>5, <1>6, <1>15, SameLedger DEF FailStep, Throw
  <1>16. CASE RecordFailure(a)
    <2>1. HoldsLock(r, v, attempt[a].stamp) BY <1>1, HeldIsFresh
    <2>2. WriteRow(r, v, [ledger[r][v] EXCEPT
              !.outcome = "interrupted", !.mutation = attempt[a].mutation])
      BY <1>1, <1>16, <2>1 DEF RecordFailure, MarkInterrupted
    <2>3. ledger[r][v] \in Rows(Payloads) BY <1>2, RowFacts DEF Journal
    <2>4. attempt[a].mutation \in {"possible", "confirmed"}
      BY <1>1, TypedFacts DEF Journal
    <2>5. ledger'[r][v].mutation = attempt[a].mutation
      <3>1. ledger \in [Removals -> Seq(Rows(Payloads))]
        BY StateFacts DEF Journal
      <3>2. ledger' = [ledger EXCEPT ![r][v] = [ledger[r][v] EXCEPT
                !.outcome = "interrupted", !.mutation = attempt[a].mutation]]
        BY <2>2 DEF WriteRow
      <3>3. ledger[r] \in Seq(Rows(Payloads)) /\ v \in DOMAIN ledger[r]
        BY <1>2, <3>1 DEF Versions
      <3>4. ledger'[r][v] = [ledger[r][v] EXCEPT
                !.outcome = "interrupted", !.mutation = attempt[a].mutation]
        BY <1>2, <3>1, <3>2, <3>3
      <3> QED BY <2>3, <3>4 DEF Rows
    <2> QED BY <1>1, <2>4, <2>5 DEF Marked, HasPossibleExternalMutation
  <1> QED BY <1>7, <1>8, <1>9, <1>10, <1>11, <1>12, <1>13, <1>14, <1>15, <1>16
       DEF Step, Preparation, GateStep, Exchange

LEMMA OthersWriting ==
    ASSUME Journal, AttemptsHeld, NEW a \in Attempts, Step(a),
           NEW c \in Attempts \ {a}, NEW s \in Slots, Writing(c, s)
    PROVE  Writing(c, s)'
  <1>1. attempt'[c] = attempt[c]
    <2>1. PICK q : attempt' = [attempt EXCEPT ![a] = q] BY StepMovesOne
    <2> QED BY <2>1, StateFacts DEF Journal
  <1>2. ForeignRowsKept(a) BY StepForeign
  <1> QED BY <1>1, <1>2 DEF Writing, ForeignRowsKept

LEMMA StepKnown ==
    ASSUME Journal, AttemptsHeld, Marks, WritesKnown,
           NEW a \in Attempts, Step(a)
    PROVE  WritesKnown'
  <1> SUFFICES ASSUME NEW s \in Slots, Wrote(s)'
               PROVE  /\ s.ver \in Versions(s.rem)'
                      /\ \/ Marked(ledger'[s.rem][s.ver])
                         \/ \E c \in Attempts : Writing(c, s)'
    BY DEF WritesKnown
  <1>1. HashesKept /\ MarksKept BY StepHashes, StepMarks
  <1>2. CASE Wrote(s)
    <2>1. s.ver \in Versions(s.rem) /\ s.rem \in Removals
      BY <1>2, SlotFacts DEF WritesKnown
    <2>2. s.ver \in Versions(s.rem)' BY <1>1, <2>1 DEF HashesKept, Versions
    <2>3. CASE Marked(ledger[s.rem][s.ver])
      BY <1>1, <2>1, <2>2, <2>3 DEF MarksKept
    <2>4. CASE \E c \in Attempts : Writing(c, s)
      BY <2>2, <2>4, OwnWriting, OthersWriting
    <2> QED BY <1>2, <2>3, <2>4 DEF WritesKnown
  <1>3. CASE ~Wrote(s)
    <2>1. /\ Exchange(a) /\ attempt[a].pc = "post"
          /\ attempt[a].rem = s.rem /\ attempt[a].ver = s.ver
          /\ ~UNCHANGED <<registry, wire>>
      BY <1>3, StepWrites
    <2>2. /\ "post" \in Owning
          /\ {"confirm", "post", "answer", "fail"} \subseteq Owning
      BY PlaceNames
    <2>3. /\ s.ver \in Versions(s.rem) /\ UNCHANGED ledger
      BY <2>1, <2>2, NamedFacts, ExchangeMove DEF Journal, ledgerVars
    <2>4. ledger[s.rem][s.ver].status = "draft"
      BY <2>1, <2>2 DEF AttemptsHeld, KeepsLock, RowHeld
    <2>5. PICK pc \in {"confirm", "post", "answer", "fail"},
               mutation \in {"none", "possible", "confirmed"}, ext \in Nat :
              /\ Becomes(a, pc, mutation, attempt[a].prev, attempt[a].kind, ext)
              /\ mutation # "none"
      BY <2>1, ExchangeMove
    <2>6. PICK q \in Attempt :
              /\ attempt' = [attempt EXCEPT ![a] = q]
              /\ SameClaim(attempt[a], q) /\ q.pc = pc /\ q.mutation = mutation
      BY <2>5 DEF Becomes
    <2>7. attempt'[a] = q BY <2>6, StateFacts DEF Journal
    <2>8. Writing(a, s)'
      BY <2>1, <2>2, <2>3, <2>4, <2>5, <2>6, <2>7 DEF Writing, SameClaim
    <2> QED BY <2>3, <2>8 DEF Versions
  <1> QED BY <1>2, <1>3

\* A reservation that may be taken over belongs to a version that wrote
\* nothing: it would be marked, or its writer's lock would be fresh.
LEMMA TransferIsUnwritten ==
    ASSUME Journal, AttemptsHeld, ReservationsSound, Marks, WritesKnown,
           NEW b \in Batches, reserved[b] # NoSubmission,
           CanTransferReservation(ledger[reserved[b].rem][reserved[b].ver], clock)
    PROVE  reserved[b] \in Slots /\ ~Wrote(reserved[b])
  <1> DEFINE s == reserved[b]
  <1>1. /\ s.rem \in Removals /\ s.ver \in Versions(s.rem)
        /\ s = [rem |-> s.rem, ver |-> s.ver]
        /\ ledger[s.rem][s.ver].status = "draft"
    BY ReservedFacts DEF Reserves, Journal
  <1>2. s \in Slots
    <2>1. s.ver \in 1 .. MaxVersion BY <1>1, RowFacts DEF Journal
    <2> QED BY <1>1, <2>1 DEF Slots
  <1>3. ~Marked(ledger[s.rem][s.ver])
    <2>1. RowMarked(ledger[s.rem][s.ver]) BY <1>1 DEF Marks, RowsMarked
    <2> QED BY <1>1, <2>1
         DEF RowMarked, Marked, CanTransferReservation,
             HasPossibleExternalMutation
  <1>4. ASSUME NEW a \in Attempts, Writing(a, s) PROVE FALSE
    <2>1. LockIsFresh(ledger[s.rem][s.ver], clock)
      BY <1>4, HeldIsFresh DEF Writing, Row
    <2> QED BY <1>1, <2>1 DEF CanTransferReservation
  <1> QED BY <1>2, <1>3, <1>4 DEF WritesKnown

\* So does one that is released by an attempt that wrote nothing.
LEMMA ReleaseIsUnwritten ==
    ASSUME Journal, AttemptsHeld, Marks, WritesKnown,
           NEW a \in Attempts, attempt[a].pc \in Owning,
           attempt[a].mutation = "none", Row(a).status = "draft",
           NEW s \in Slots, attempt[a].rem = s.rem, attempt[a].ver = s.ver
    PROVE  ~Wrote(s)
  <1>1. Row(a) = ledger[s.rem][s.ver] BY SlotOfAttempt
  <1>2. ~Marked(Row(a)) BY <1>1 DEF Marks, AttemptsInformed, Informed
  <1>3. ASSUME NEW c \in Attempts, Writing(c, s) PROVE FALSE
    <2>1. c # a BY <1>3 DEF Writing
    <2> QED BY <1>3, <2>1, OwnRow DEF Writing
  <1> QED BY <1>1, <1>2, <1>3 DEF WritesKnown

LEMMA StepOwned ==
    ASSUME Inv, Journal, AttemptsHeld, ReservationsSound, Marks,
           AttemptsReserve, WritesKnown, WritesOwned, ClaimsKept,
           NEW a \in Attempts, Step(a)
    PROVE  WritesOwned'
  <1> SUFFICES ASSUME NEW s \in Slots, Wrote(s)',
                      NEW b \in ledger'[s.rem][s.ver].hash.prod
               PROVE  claimed'[b] = s.rem \/ reserved'[b] = s
    BY DEF WritesOwned
  <1>1. s.rem \in Removals /\ None \notin Removals
    BY SlotFacts, NoneAssumption
  <1>2. CASE Wrote(s)
    <2>1. s.ver \in Versions(s.rem) BY <1>2 DEF WritesKnown
    <2>2. ledger'[s.rem][s.ver].hash = ledger[s.rem][s.ver].hash
      BY <1>1, <2>1, StepHashes DEF HashesKept
    <2>3. b \in Batches
      BY <1>1, <2>1, <2>2, RowFacts DEF Journal, Payloads
    <2>4. CASE claimed[b] = s.rem BY <1>1, <2>3, <2>4 DEF ClaimsKept
    <2>5. CASE reserved[b] = s /\ reserved'[b] # s
      <3>1. reserved[b] # NoSubmission BY <1>1, <2>5 DEF NoSubmission
      <3>2. Fate(a, b) BY <2>3, <2>5, <3>1, ReservationFate
      <3>3. {"retire", "fail"} \subseteq Owning BY PlaceNames
      <3>4. reserved[b] = Submission(a) =>
                attempt[a].rem = s.rem /\ attempt[a].ver = s.ver
        BY <2>5, SubmissionNames
      <3>5. ~CanTransferReservation(ledger[reserved[b].rem][reserved[b].ver],
                clock)
        BY <1>2, <2>3, <2>5, <3>1, TransferIsUnwritten
      <3> QED BY <1>2, <3>2, <3>3, <3>4, <3>5, ReleaseIsUnwritten DEF Fate
    <2> QED BY <1>2, <2>2, <2>4, <2>5 DEF WritesOwned
  <1>3. CASE ~Wrote(s)
    <2>1. /\ Exchange(a) /\ attempt[a].pc = "post"
          /\ attempt[a].rem = s.rem /\ attempt[a].ver = s.ver
      BY <1>3, StepWrites
    <2>2. "post" \in Owning /\ "post" \in Checked /\ "post" \in Replacing
      BY PlaceNames, GateNames
    <2>3. UNCHANGED <<ledger, reserved>> BY <2>1, ExchangeMove DEF ledgerVars
    <2>4. b \in Members[s.rem] /\ attempt[a].seen[b] \in {None, s.rem}
      <3>1. Fits(attempt[a], ledger, claimed) BY DEF Inv, AttemptsFit
      <3> QED BY <2>1, <2>2, <2>3, <3>1 DEF Fits
    <2>5. b \in ClaimBatches(a)
      BY <2>1, <2>4 DEF ClaimBatches, IncludesProduction
    <2>6. reserved[b] = Submission(a) BY <2>1, <2>2, <2>5 DEF AttemptsReserve
    <2> QED BY <2>1, <2>3, <2>6, SlotOfAttempt
  <1> QED BY <1>2, <1>3

LEMMA EnvironmentReserve ==
    ASSUME Journal, AttemptsReserve,
           \/ \E a \in Attempts : Crash(a)
           \/ \E req \in wire : Deliver(req)
           \/ \E r \in Removals : Change(r)
           \/ Tick \/ UNCHANGED vars
    PROVE  AttemptsReserve'
  <1>1. UNCHANGED reserved
    BY DEF Crash, Deliver, Change, Tick, ledgerVars, vars
  <1>2. \A c \in Attempts : attempt'[c].pc \in Replacing =>
            attempt'[c] = attempt[c]
    <2>1. CASE \E a \in Attempts : Crash(a)
      <3>1. PICK a \in Attempts : attempt' = [attempt EXCEPT ![a] = Idle]
        BY <2>1 DEF Crash, Stop
      <3>2. "idle" \notin Replacing BY StepNames, PlaceNames
      <3>3. \A c \in Attempts : attempt'[c] = IF c = a THEN Idle ELSE attempt[c]
        BY <3>1, StateFacts DEF Journal
      <3> QED BY <3>2, <3>3, IdleType
    <2>2. CASE UNCHANGED attempt BY <2>2
    <2> QED BY <2>1, <2>2 DEF Deliver, Change, Tick, vars
  <1> SUFFICES ASSUME NEW c \in Attempts, attempt'[c].pc \in Replacing,
                      NEW b \in ClaimBatches(c)'
               PROVE  reserved'[b] = Submission(c)'
    BY DEF AttemptsReserve
  <1>3. Submission(c)' = Submission(c) /\ b \in ClaimBatches(c)
    BY <1>2 DEF Submission, ClaimBatches
  <1> QED BY <1>1, <1>2, <1>3 DEF AttemptsReserve

\* A late request was a write already when it was sent.
LEMMA DeliverWrites ==
    ASSUME Typed, NEW req \in wire, Deliver(req), NEW s \in Slots, Wrote(s)'
    PROVE  Wrote(s)
  <1>1. req.ref \in References BY StateFacts DEF Requests
  <1>2. /\ CreateRecord(req.ref) \/ UNCHANGED registry
        /\ \A other \in wire' : other \in wire
    BY DEF Deliver
  <1>3. Wrote(s) \/ (s.rem = req.ref.rem /\ s.ver = req.ref.ver)
    BY <1>1, <1>2, RecordWrites
  <1> QED BY <1>3 DEF Wrote, NothingUnderway

LEMMA EnvironmentWrites ==
    ASSUME Journal, WritesKnown, WritesOwned,
           \/ \E req \in wire : Deliver(req)
           \/ \E r \in Removals : Change(r)
           \/ Tick \/ UNCHANGED vars
    PROVE  WritesKnown' /\ WritesOwned'
  <1>1. UNCHANGED <<ledger, claimed, reserved, attempt>>
    BY DEF Deliver, Change, Tick, ledgerVars, vars
  <1>2. ASSUME NEW s \in Slots, Wrote(s)' PROVE Wrote(s)
    <2>1. CASE \E req \in wire : Deliver(req)
      BY <1>2, <2>1, DeliverWrites DEF Journal
    <2>2. CASE UNCHANGED <<registry, wire>> BY <1>2, <2>2, SameWrites
    <2> QED BY <2>1, <2>2 DEF Change, Tick, vars
  <1>3. \A a \in Attempts, s \in Slots : Writing(a, s) => Writing(a, s)'
    BY <1>1 DEF Writing
  <1>4. WritesKnown' BY <1>1, <1>2, <1>3 DEF WritesKnown, Versions
  <1>5. WritesOwned' BY <1>1, <1>2 DEF WritesOwned
  <1> QED BY <1>4, <1>5

-----------------------------------------------------------------------------
(* The invariant, and what follows from it.                                *)

RegistryInv ==
    /\ LocksInv /\ ReservationsSound
    /\ Timely => Marks /\ AttemptsReserve
    /\ Timely /\ ~Crashes => WritesKnown /\ WritesOwned

LEMMA InitEstablishesRegistry == Init => RegistryInv
  <1> SUFFICES ASSUME Init PROVE RegistryInv OBVIOUS
  <1>1. LocksInv BY InitEstablishesLocks
  <1>2. /\ \A a \in Attempts : attempt[a].pc = "idle"
        /\ \A r \in Removals : ledger[r] = << >>
        /\ \A b \in Batches : reserved[b] = NoSubmission
        /\ registry = [ref \in References |-> << >>] /\ wire = {}
    BY IdleType DEF Init, LedgerInit
  <1>3. "idle" \notin Owning /\ "idle" \notin Replacing
    BY StepNames, PlaceNames
  <1>4. ReservationsSound BY <1>2 DEF ReservationsSound
  <1>5. Marks
    <2>1. \A r \in Removals : Versions(r) = {} BY <1>2 DEF Versions
    <2> QED BY <1>2, <1>3, <2>1 DEF Marks, RowsMarked, AttemptsInformed
  <1>6. AttemptsReserve BY <1>2, <1>3 DEF AttemptsReserve
  <1>7. \A s \in Slots : ~Wrote(s)
    BY <1>2 DEF Wrote, WroteNothing, NothingUnderway
  <1> QED BY <1>1, <1>4, <1>5, <1>6, <1>7 DEF RegistryInv, WritesKnown, WritesOwned

LEMMA NextKeepsRegistry == RegistryInv /\ [Next]_vars => RegistryInv'
  <1> SUFFICES ASSUME RegistryInv, [Next]_vars PROVE RegistryInv' OBVIOUS
  <1>1. LocksInv' /\ LocksInv BY NextKeepsLocks DEF RegistryInv
  <1>2. JournalInv /\ Journal /\ Inv BY <1>1 DEF LocksInv, JournalInv
  <1>3. ReservationsSound'
    BY <1>2, NextKeepsReservations DEF ClaimingInv, RegistryInv
  <1>4. ClaimsKept BY <1>2, NextKeepsClaims
  <1>5. ASSUME Timely PROVE Marks' /\ AttemptsReserve'
    <2>1. Marks /\ AttemptsReserve /\ AttemptsHeld /\ ReservationsSound
      BY <1>1, <1>5 DEF RegistryInv, LocksInv
    <2>2. CASE \E a \in Attempts : Step(a)
      BY <1>2, <2>1, <2>2, StepMarks, StepReserve
    <2>3. CASE \/ \E a \in Attempts : Crash(a)
               \/ \E req \in wire : Deliver(req)
               \/ \E r \in Removals : Change(r)
               \/ Tick \/ UNCHANGED vars
      BY <1>2, <2>1, <2>3, EnvironmentMarks, EnvironmentReserve
    <2> QED BY <2>2, <2>3 DEF Next
  <1>6. ASSUME Timely, ~Crashes PROVE WritesKnown' /\ WritesOwned'
    <2>1. /\ Marks /\ AttemptsReserve /\ AttemptsHeld /\ ReservationsSound
          /\ WritesKnown /\ WritesOwned
      BY <1>1, <1>6 DEF RegistryInv, LocksInv
    <2>2. CASE \E a \in Attempts : Step(a)
      BY <1>2, <1>4, <2>1, <2>2, StepKnown, StepOwned
    <2>3. CASE \/ \E req \in wire : Deliver(req)
               \/ \E r \in Removals : Change(r)
               \/ Tick \/ UNCHANGED vars
      BY <1>2, <2>1, <2>3, EnvironmentWrites
    <2>4. \A a \in Attempts : ~Crash(a) BY <1>6 DEF Crash
    <2> QED BY <2>2, <2>3, <2>4 DEF Next
  <1> QED BY <1>1, <1>3, <1>5, <1>6 DEF RegistryInv

(* The inductive invariant holds in every behaviour.                       *)
THEOREM RegistryInvariance == Spec => []RegistryInv
  BY InitEstablishesRegistry, NextKeepsRegistry, PTL DEF Spec

LEMMA SlotOfId ==
    ASSUME Journal, NEW s \in SubmissionIds
    PROVE  /\ s \in Slots /\ s.ver \in Versions(s.rem) /\ s.rem \in Removals
           /\ RowOf(s) = ledger[s.rem][s.ver]
           /\ ~Wrote(s) <=> WroteNothing(s) /\ NothingUnderway(s)
  BY NamedRow DEF SubmissionIds, Slots, Wrote

\* A row that is neither marked nor a draft wrote nothing.
LEMMA UnmarkedIsUnwritten ==
    ASSUME Journal, Marks, WritesKnown, NEW s \in SubmissionIds,
           RowOf(s).status # "draft", RowOf(s).ext = 0
    PROVE  WroteNothing(s) /\ NothingUnderway(s)
  <1>1. RowMarked(RowOf(s)) BY SlotOfId DEF Marks, RowsMarked
  <1>2. ~Marked(RowOf(s)) BY <1>1 DEF RowMarked, Marked
  <1>3. \A a \in Attempts : ~Writing(a, s) BY SlotOfId DEF Writing
  <1> QED BY <1>2, <1>3, SlotOfId DEF WritesKnown

(* When rejectSubmissionAndReleaseProductionClaims rejects a version that  *)
(* has no registry id, nothing was created under any of its references and *)
(* no request of it is underway: the caller may correct and resubmit.      *)
THEOREM RejectionsDefinitive ==
    ASSUME Timely, ~Crashes
    PROVE  Spec => []RejectionIsDefinitive
  <1>1. RegistryInv => RejectionIsDefinitive
    BY UnmarkedIsUnwritten
    DEF RegistryInv, LocksInv, JournalInv, RejectionIsDefinitive
  <1> QED BY <1>1, RegistryInvariance, PTL

(* A draft that retireClaimedRemovalDraftForDrift retires never reached    *)
(* the registry, and no request of it is underway, so the version that     *)
(* replaces it under new references duplicates nothing.                    *)
THEOREM RetirementsDefinitive ==
    ASSUME Timely, ~Crashes
    PROVE  Spec => []RetirementIsDefinitive
  <1>1. RegistryInv => RetirementIsDefinitive
    BY UnmarkedIsUnwritten
    DEF RegistryInv, LocksInv, JournalInv, RetirementIsDefinitive
  <1> QED BY <1>1, RegistryInvariance, PTL

(* Two Removals never both send the production inputs of one credit batch, *)
(* whatever the order in which reserveProductionEmissionsClaims and        *)
(* markSubmissionSubmitted serve them.                                     *)
THEOREM ProductionSubmittedOnce ==
    ASSUME Timely, ~Crashes
    PROVE  Spec => []ProductionSentOnce
  <1>1. RegistryInv => ProductionSentOnce
    <2> SUFFICES ASSUME RegistryInv, NEW s \in SubmissionIds,
                        NEW t \in SubmissionIds, s.rem # t.rem,
                        ~WroteNothing(s), ~WroteNothing(t),
                        NEW b \in RowOf(s).hash.prod, b \in RowOf(t).hash.prod
                 PROVE  FALSE
      BY DEF ProductionSentOnce
    <2>1. Journal /\ ReservationsSound /\ WritesOwned
      BY DEF RegistryInv, LocksInv, JournalInv
    <2>2. /\ s \in Slots /\ t \in Slots /\ s.rem \in Removals
          /\ t.rem \in Removals /\ Wrote(s) /\ Wrote(t)
          /\ RowOf(s) = ledger[s.rem][s.ver] /\ RowOf(t) = ledger[t.rem][t.ver]
      BY <2>1, SlotOfId
    <2>3. b \in Batches
      BY <2>1, <2>2, SlotOfId, RowFacts DEF Journal, Payloads
    <2>4. /\ claimed[b] = s.rem \/ reserved[b] = s
          /\ claimed[b] = t.rem \/ reserved[b] = t
      BY <2>1, <2>2 DEF WritesOwned
    <2>5. ASSUME reserved[b] \in {s, t}
          PROVE  claimed[b] \in {None, reserved[b].rem}
      <3>1. reserved[b] # NoSubmission
        BY <2>2, <2>5, NoneAssumption DEF NoSubmission
      <3> QED BY <2>1, <2>3, <3>1 DEF ReservationsSound, Reserves
    <2> QED BY <2>2, <2>4, <2>5, NoneAssumption
  <1> QED BY <1>1, RegistryInvariance, PTL

-----------------------------------------------------------------------------
(* What a takeover never reaches, crashes included.                        *)

\* A draft whose writes are in doubt: it is marked, or its attempt knows.
AtStake(s) ==
    /\ s.ver \in Versions(s.rem) /\ ledger[s.rem][s.ver].status = "draft"
    /\ \/ Marked(ledger[s.rem][s.ver])
       \/ \E a \in Attempts : Writing(a, s)

\* Its production stays reserved for it.
StakesReserved ==
    \A s \in Slots : AtStake(s) =>
        \A b \in ledger[s.rem][s.ver].hash.prod : reserved[b] = s

\* What only an attempt past its reservation can put at stake.
Stakes(a, s) ==
    /\ attempt[a].pc \in Replacing /\ UNCHANGED <<claimed, reserved>>
    /\ attempt[a].rem = s.rem /\ attempt[a].ver = s.ver

\* A draft that is marked was at stake, or is the one the attempt confirms.
LEMMA NewMarks ==
    ASSUME Journal, AttemptsHeld, Marks, NEW a \in Attempts, Step(a),
           NEW s \in Slots, s.ver \in Versions(s.rem)',
           ledger'[s.rem][s.ver].status = "draft",
           Marked(ledger'[s.rem][s.ver])
    PROVE  AtStake(s) \/ Stakes(a, s)
  <1> DEFINE r == attempt[a].rem
             v == attempt[a].ver
  <1>1. s.rem \in Removals /\ s.ver \in 1 .. MaxVersion BY SlotFacts
  <1>2. ASSUME s.ver \in Versions(s.rem),
               ledger'[s.rem][s.ver] = ledger[s.rem][s.ver]
        PROVE  AtStake(s)
    BY <1>2 DEF AtStake
  <1>3. CASE UNCHANGED ledger BY <1>2, <1>3 DEF Versions
  <1>4. ASSUME attempt[a].pc \in Owning \cup {"resetting"},
               NEW row \in Rows(Payloads), WriteRow(r, v, row)
        PROVE  AtStake(s) \/ (s.rem = r /\ s.ver = v /\ ledger'[r][v] = row)
    <2>1. r \in Removals /\ v \in Versions(r)
      BY <1>4, TypedFacts, NamedFacts DEF Journal
    <2>2. /\ Len(ledger'[s.rem]) = Len(ledger[s.rem])
          /\ \A q \in Removals : \A u \in Versions(q) :
                ledger'[q][u] = IF q = r /\ u = v THEN row ELSE ledger[q][u]
      BY <1>1, <1>4, <2>1, WriteRowRows DEF Journal
    <2>3. s.ver \in Versions(s.rem) BY <2>2 DEF Versions
    <2> QED BY <1>1, <1>2, <2>1, <2>2, <2>3
  <1>5. CASE CreateDraft(a) /\ ~(Stop(a) /\ UNCHANGED ledger)
    <2> DEFINE new == Len(ledger[r]) + 1
    <2>1. /\ \A q \in Removals : Len(ledger'[q]) =
                 IF q = r THEN new ELSE Len(ledger[q])
          /\ \A q \in Removals : \A u \in Versions(q) :
                 ledger'[q][u] = ledger[q][u]
      BY <1>5, CreateDraftMove
    <2>2. ~Marked(ledger'[r][new])
      <3>1. PICK prev \in Nat : ledger'[r][new] =
               [status |-> "draft", hash |-> attempt[a].payload, ext |-> 0,
                lockedAt |-> [by |-> a, at |-> clock], outcome |-> "none",
                mutation |-> "unset", refresh |-> FALSE, prev |-> prev]
        BY <1>5, CreateDraftMove
      <3> QED BY <3>1 DEF Marked, HasPossibleExternalMutation
    <2>3. Len(ledger[s.rem]) \in Nat BY <1>1, StateFacts DEF Journal
    <2>4. s.ver \in Versions(s.rem) \/ (s.rem = r /\ s.ver = new)
      BY <1>1, <2>1, <2>3 DEF Versions
    <2> QED BY <1>1, <1>2, <2>1, <2>2, <2>4
  <1>6. CASE ResetDraft(a) /\ ~UNCHANGED ledger
    <2>1. attempt[a].pc = "resetting" BY <1>6 DEF ResetDraft, Is
    <2>2. r \in Removals /\ v \in Versions(r)
      BY <2>1, TypedFacts, NamedFacts DEF Journal
    <2>3. PICK row \in Rows(Payloads) :
            /\ WriteRow(r, v, row) /\ row.ext = ledger[r][v].ext
            /\ row.mutation = ledger[r][v].mutation
      BY <1>6, ResetDraftMove DEF ResetDraft
    <2>4. CASE s.rem = r /\ s.ver = v /\ ledger'[r][v] = row
      <3>1. Marked(ledger[r][v])
        BY <2>3, <2>4 DEF Marked, HasPossibleExternalMutation
      <3>2. RowMarked(ledger[r][v]) BY <2>2 DEF Marks, RowsMarked
      <3>3. ledger[r][v].status = "draft"
        BY <2>1, <3>1, <3>2
        DEF AttemptsHeld, KeepsLock, Resettable, RowMarked, Marked
      <3> QED BY <2>2, <2>4, <3>1, <3>3 DEF AtStake
    <2> QED BY <1>4, <2>1, <2>3, <2>4
  <1>7. CASE Retire(a) /\ ~UNCHANGED ledger
    <2>1. PICK row \in Rows(Payloads) :
              WriteRow(r, v, row) /\ row.status = "superseded"
      BY <1>7, RetireMove DEF Journal
    <2>2. attempt[a].pc \in Owning BY <1>7, RetireMove, PlaceNames DEF Journal
    <2> QED BY <1>4, <2>1, <2>2
  <1>8. CASE Confirm(a) /\ ~UNCHANGED ledger
    <2>1. /\ attempt[a].pc \in Replacing /\ attempt[a].pc \in Owning
          /\ UNCHANGED <<claimed, reserved>>
          /\ \E row \in Rows(Payloads) : WriteRow(r, v, row)
      BY <1>8, ConfirmMove, PlaceNames DEF Journal
    <2> QED BY <1>4, <2>1 DEF Stakes
  <1>9. CASE RecordFailure(a) /\ ~UNCHANGED ledger
    <2>1. attempt[a].pc \in Owning
      BY <1>9, RecordFailureMove, PlaceNames DEF Journal
    <2>2. r \in Removals /\ v \in Versions(r)
      BY <2>1, TypedFacts, NamedFacts DEF Journal
    <2>3. PICK row \in Rows(Payloads) :
            /\ WriteRow(r, v, row) /\ HoldsLock(r, v, attempt[a].stamp)
            /\ row.status = "rejected" \/ attempt[a].mutation # "none"
      BY <1>9, RecordFailureMove DEF Journal
    <2>4. CASE s.rem = r /\ s.ver = v /\ attempt[a].mutation # "none"
      BY <2>1, <2>2, <2>3, <2>4 DEF AtStake, Writing, HoldsLock
    <2> QED BY <1>4, <2>1, <2>3, <2>4
  <1>10. CASE FinalizeSubmission(a) /\ ~UNCHANGED ledger
    <2>1. /\ attempt[a].pc = "finalize"
          /\ Finalize([rem |-> r, ver |-> v], attempt[a].ext, attempt[a].prev,
                 ClaimBatches(a))
      BY <1>10, FinalizeMove DEF Journal
    <2>2. r \in Removals /\ v \in Versions(r) /\ attempt[a].ext \in Nat
      BY <2>1, PlaceNames, TypedFacts, NamedFacts DEF Journal
    <2>3. /\ \A q \in Removals : Len(ledger'[q]) = Len(ledger[q])
          /\ ledger'[r][v].status = "submitted"
          /\ \A u \in Versions(r) \ {v} : u = attempt[a].prev =>
               ledger'[r][u].status = "superseded"
          /\ \A q \in Removals : \A u \in Versions(q) :
               ~(q = r /\ u \in {v, attempt[a].prev}) =>
                   ledger'[q][u] = ledger[q][u]
      <3>1. FinalRows(r, v, attempt[a].ext, attempt[a].prev)
        BY <2>1, <2>2, FinalRowsAre DEF Journal
      <3> QED BY <3>1 DEF FinalRows, SubmittedRow, SupersededRow
    <2>4. s.ver \in Versions(s.rem) BY <1>1, <2>3 DEF Versions
    <2> QED BY <1>1, <1>2, <2>3, <2>4
  <1> QED BY <1>3, <1>5, <1>6, <1>7, <1>8, <1>9, <1>10, SameLedger
       DEF Step, GateStep

\* An attempt learns of a write past its reservation, or from a marked row.
LEMMA NewWriter ==
    ASSUME Journal, AttemptsHeld, Marks, NEW a \in Attempts, Step(a),
           NEW s \in Slots, Writing(a, s)'
    PROVE  AtStake(s) \/ Stakes(a, s)
  <1> DEFINE r == attempt[a].rem
             v == attempt[a].ver
  <1>1. /\ attempt'[a].pc \in Owning /\ attempt'[a].mutation # "none"
        /\ attempt'[a].rem = s.rem /\ attempt'[a].ver = s.ver
        /\ ledger'[s.rem][s.ver].status = "draft"
    BY DEF Writing
  <1>2. ASSUME NEW q, attempt' = [attempt EXCEPT ![a] = q]
        PROVE  attempt'[a] = q
    BY <1>2, StateFacts DEF Journal
  <1>3. ASSUME NEW pc, NEW mutation, NEW prev, NEW kind, NEW ext,
               Becomes(a, pc, mutation, prev, kind, ext)
        PROVE  s.rem = r /\ s.ver = v /\ mutation # "none"
    <2>1. PICK q \in Attempt : /\ attempt' = [attempt EXCEPT ![a] = q]
                               /\ SameClaim(attempt[a], q)
                               /\ q.mutation = mutation
      BY <1>3 DEF Becomes
    <2> QED BY <1>1, <1>2, <2>1 DEF SameClaim
  <1>4. ~Stop(a) BY <1>1, <1>2, IdleType, StepNames DEF Stop
  <1>5. ASSUME attempt[a].pc \in Owning, UNCHANGED ledger,
               NEW pc, NEW prev, NEW kind, NEW ext,
               Becomes(a, pc, attempt[a].mutation, prev, kind, ext)
        PROVE  AtStake(s)
    <2>1. s.rem = r /\ s.ver = v /\ attempt[a].mutation # "none"
      BY <1>3, <1>5
    <2>2. v \in Versions(r) BY <1>5, NamedFacts DEF Journal
    <2> QED BY <1>1, <1>5, <2>1, <2>2 DEF AtStake, Writing
  <1>6. ASSUME attempt[a].pc \in Owning, UNCHANGED ledger,
               NEW pc \in Steps, Goto(a, pc)
        PROVE  AtStake(s)
    BY <1>5, <1>6, GotoAdvances DEF Advances, Journal
  <1>7. CASE Preparation(a) BY <1>1, <1>2, <1>7, PreparingMove
  <1>8. CASE CreateDraft(a)
    <2>1. PICK q \in Attempt : TakesDraft(a, q)
      BY <1>4, <1>8, CreateDraftTurn
    <2>2. attempt'[a].mutation = attempt[a].mutation
      BY <1>2, <2>1 DEF TakesDraft
    <2>3. attempt[a].pc \notin Owning
      BY <1>8, CreateDraftMove, StepNames
    <2>4. attempt[a].mutation = "none"
      BY <2>3 DEF Journal, AttemptsSound, Sound, Fresh
    <2> QED BY <1>1, <2>2, <2>4
  <1>9. CASE ResetDraft(a)
    <2>1. attempt[a].pc = "resetting" BY <1>9 DEF ResetDraft, Is
    <2>2. r \in Removals /\ v \in Versions(r)
      BY <2>1, TypedFacts, NamedFacts DEF Journal
    <2>3. PICK q \in Attempt :
            /\ attempt' = [attempt EXCEPT ![a] = q]
            /\ q.rem = r /\ q.ver = v
            /\ q.mutation = InheritedMutation(ledger[r][v])
      BY <1>4, <1>9, ResetDraftMove DEF ResetDraft
    <2>4. s.rem = r /\ s.ver = v
          /\ InheritedMutation(ledger[r][v]) # "none"
      BY <1>1, <1>2, <2>3
    <2>5. Marked(ledger[r][v]) BY <2>4 DEF InheritedMutation, Marked
    <2>6. RowMarked(ledger[r][v]) BY <2>2 DEF Marks, RowsMarked
    <2>7. ledger[r][v].status = "draft"
      BY <2>1, <2>5, <2>6
      DEF AttemptsHeld, KeepsLock, Resettable, RowMarked, Marked
    <2> QED BY <2>2, <2>4, <2>5, <2>7 DEF AtStake
  <1>10. CASE GateStep(a)
    <2>1. PICK pc \in {"scope", "contend", "rebuild", "reserve", "retire", "fail"} :
              Goto(a, pc) /\ attempt[a].pc \in Owning
      BY <1>10, GateMove, PlaceNames
    <2> QED BY <1>6, <1>10, <2>1, PlaceNames, SameLedger
  <1>11. CASE ReserveClaims(a)
    <2>1. attempt[a].pc \in Owning /\ UNCHANGED ledger /\ "fail" \in Steps
      BY <1>11, ReserveMove, PlaceNames DEF Journal
    <2> QED BY <1>5, <1>6, <1>11, <2>1, ReserveMove DEF Throw, Journal
  <1>12. CASE Exchange(a)
    <2>1. attempt[a].pc \in Replacing /\ UNCHANGED <<claimed, reserved>>
      BY <1>12, ExchangeMove, PlaceNames DEF ledgerVars
    <2> QED BY <1>3, <1>12, <2>1, ExchangeMove DEF Stakes
  <1>13. CASE Verify(a)
    <2>1. attempt[a].pc \in Replacing /\ UNCHANGED <<claimed, reserved>>
      BY <1>13, VerifyMove, PlaceNames DEF Journal, ledgerVars
    <2> QED BY <1>3, <1>13, <2>1, VerifyMove DEF Stakes, Journal
  <1>14. CASE Confirm(a)
    <2>1. attempt[a].pc \in Replacing /\ UNCHANGED <<claimed, reserved>>
      BY <1>14, ConfirmMove, PlaceNames DEF Journal
    <2>2. \E pc, mutation, prev, kind, ext :
              Becomes(a, pc, mutation, prev, kind, ext)
      BY <1>14, ConfirmMove, PlaceNames, GotoAdvances
      DEF Journal, Throw, Advances
    <2> QED BY <1>3, <2>1, <2>2 DEF Stakes
  <1>15. CASE Retire(a)
    <2>1. attempt[a].pc = "retire" /\ attempt[a].pc \in Owning /\ Throw(a)
      BY <1>15, RetireMove, PlaceNames DEF Journal
    <2>2. attempt[a].mutation = "none" BY <2>1 DEF AttemptsHeld, KeepsLock
    <2>3. Becomes(a, "fail", attempt[a].mutation, attempt[a].prev,
              attempt[a].kind, attempt[a].ext)
      BY <2>1, PlaceNames, GotoAdvances DEF Throw, Advances, Journal
    <2> QED BY <1>3, <2>2, <2>3
  <1>16. CASE FailStep(a) \/ FinalizeSubmission(a)
    <2>1. attempt[a].pc \in Owning /\ "fail" \in Steps
      BY <1>16, FinalizeMove, GateNames, PlaceNames DEF FailStep, Journal
    <2>2. Throw(a) /\ UNCHANGED ledger
      BY <1>4, <1>16, FinalizeMove, SameLedger DEF FailStep, Journal
    <2> QED BY <1>6, <2>1, <2>2 DEF Throw
  <1>17. CASE RecordFailure(a)
    BY <1>4, <1>17, RecordFailureMove DEF Journal
  <1> QED BY <1>7, <1>8, <1>9, <1>10, <1>11, <1>12, <1>13, <1>14, <1>15,
          <1>16, <1>17
       DEF Step, Preparation, GateStep, Exchange

\* Another attempt's step makes nobody a writer.
LEMMA OtherWriter ==
    ASSUME Journal, AttemptsHeld, NEW a \in Attempts, Step(a),
           NEW c \in Attempts \ {a}, NEW s \in Slots, Writing(c, s)'
    PROVE  AtStake(s)
  <1>1. attempt'[c] = attempt[c]
    <2>1. PICK q : attempt' = [attempt EXCEPT ![a] = q] BY StepMovesOne
    <2> QED BY <2>1, StateFacts DEF Journal
  <1>2. /\ attempt[c].pc \in Owning /\ attempt[c].mutation # "none"
        /\ attempt[c].rem = s.rem /\ attempt[c].ver = s.ver
        /\ ledger'[s.rem][s.ver].status = "draft"
    BY <1>1 DEF Writing
  <1>3. ledger[s.rem][s.ver].status = "draft"
    BY <1>2, StepForeign DEF ForeignRowsKept
  <1>4. s.ver \in Versions(s.rem) BY <1>2, NamedFacts DEF Journal
  <1> QED BY <1>2, <1>3, <1>4 DEF AtStake, Writing

\* A takeover reaches no draft at stake, and only its end releases it.
LEMMA StakeStays ==
    ASSUME Journal, AttemptsHeld, ReservationsSound, Marks,
           NEW a \in Attempts, Step(a), NEW s \in Slots, AtStake(s),
           ledger'[s.rem][s.ver].status = "draft",
           NEW b \in Batches, reserved[b] = s
    PROVE  reserved'[b] = s
  <1> SUFFICES ASSUME reserved'[b] # reserved[b] PROVE FALSE OBVIOUS
  <1>1. s # NoSubmission /\ s.rem \in Removals
    BY SlotFacts, NoneAssumption DEF NoSubmission
  <1>2. Fate(a, b) BY <1>1, ReservationFate
  <1>3. {"retire", "fail", "finalize"} \subseteq Owning BY PlaceNames
  <1>4. ledger[s.rem][s.ver].status = "draft" /\ s.ver \in Versions(s.rem)
    BY DEF AtStake
  <1>5. CASE /\ attempt[a].pc \in Owning /\ attempt[a].mutation = "none"
             /\ reserved[b] = Submission(a) /\ Row(a).status = "draft"
    <2>1. attempt[a].rem = s.rem /\ attempt[a].ver = s.ver
      BY <1>5, SubmissionNames
    <2>2. ~Marked(ledger[s.rem][s.ver])
      BY <1>4, <1>5, <2>1 DEF Marks, AttemptsInformed, Informed
    <2>3. PICK c \in Attempts : Writing(c, s) BY <2>2 DEF AtStake
    <2>4. c # a BY <1>5, <2>3 DEF Writing
    <2> QED BY <1>5, <2>1, <2>3, <2>4, OwnRow DEF Writing
  <1>6. CASE CanTransferReservation(ledger[s.rem][s.ver], clock)
    <2>1. ~HasPossibleExternalMutation(ledger[s.rem][s.ver])
      BY <1>6 DEF CanTransferReservation
    <2>2. RowMarked(ledger[s.rem][s.ver])
      BY <1>1, <1>4 DEF Marks, RowsMarked
    <2>3. ~Marked(ledger[s.rem][s.ver])
      BY <1>4, <2>1, <2>2 DEF RowMarked, Marked, HasPossibleExternalMutation
    <2>4. PICK c \in Attempts : Writing(c, s) BY <2>3 DEF AtStake
    <2>5. LockIsFresh(ledger[s.rem][s.ver], clock)
      BY <2>4, HeldIsFresh DEF Writing, Row
    <2> QED BY <1>4, <1>6, <2>5 DEF CanTransferReservation
  <1>7. CASE attempt[a].pc = "finalize" /\ reserved[b] = Submission(a)
    <2>1. attempt[a].rem = s.rem /\ attempt[a].ver = s.ver
      BY <1>7, SubmissionNames
    <2>2. FinalizeSubmission(a) /\ ~UNCHANGED reserved
      BY <1>7, ReservingStep DEF Retire, ReserveClaims, RecordFailure, Is
    <2>3. Finalize([rem |-> s.rem, ver |-> s.ver], attempt[a].ext,
              attempt[a].prev, ClaimBatches(a))
      BY <2>1, <2>2, FinalizeMove DEF Journal
    <2>4. attempt[a].ext \in Nat BY TypedFacts DEF Journal
    <2>5. ledger'[s.rem][s.ver].status = "submitted"
      BY <1>1, <1>4, <2>3, <2>4, FinalizeRows DEF Journal
    <2> QED BY <2>5
  <1> QED BY <1>2, <1>3, <1>5, <1>6, <1>7 DEF Fate

LEMMA StepStakes ==
    ASSUME Inv, Journal, AttemptsHeld, ReservationsSound, Marks,
           AttemptsReserve, StakesReserved, NEW a \in Attempts, Step(a)
    PROVE  StakesReserved'
  <1> SUFFICES ASSUME NEW s \in Slots, AtStake(s)',
                      NEW b \in ledger'[s.rem][s.ver].hash.prod
               PROVE  reserved'[b] = s
    BY DEF StakesReserved
  <1>1. /\ s.ver \in Versions(s.rem)' /\ s.rem \in Removals
        /\ ledger'[s.rem][s.ver].status = "draft"
    BY SlotFacts DEF AtStake
  <1>2. AtStake(s) \/ Stakes(a, s)
    <2>1. CASE Marked(ledger'[s.rem][s.ver]) BY <1>1, <2>1, NewMarks
    <2>2. CASE \E c \in Attempts : Writing(c, s)'
      BY <2>2, NewWriter, OtherWriter
    <2> QED BY <2>1, <2>2 DEF AtStake
  <1>3. s.ver \in Versions(s.rem)
    <2>1. CASE Stakes(a, s)
      BY <2>1, PlaceNames, NamedFacts DEF Stakes, Journal
    <2> QED BY <1>2, <2>1 DEF AtStake
  <1>4. b \in ledger[s.rem][s.ver].hash.prod
    BY <1>1, <1>3, StepHashes DEF HashesKept
  <1>5. CASE AtStake(s)
    <2>1. reserved[b] = s BY <1>4, <1>5 DEF StakesReserved
    <2>2. b \in Batches BY <1>1, <1>3, <1>4, RowFacts DEF Journal, Payloads
    <2> QED BY <1>1, <1>5, <2>1, <2>2, StakeStays
  <1>6. CASE Stakes(a, s)
    <2>1. attempt[a].hash = ledger[s.rem][s.ver].hash
      BY <1>6, PlaceNames DEF Stakes, Inv, AttemptsFit, Fits
    <2>2. reserved[b] = Submission(a)
      BY <1>4, <1>6, <2>1, SentIsReserved DEF Stakes
    <2>3. Submission(a) = s BY <1>6, SlotOfAttempt DEF Stakes
    <2> QED BY <1>6, <2>2, <2>3 DEF Stakes
  <1> QED BY <1>2, <1>5, <1>6

LEMMA EnvironmentStakes ==
    ASSUME Journal, StakesReserved,
           \/ \E a \in Attempts : Crash(a)
           \/ \E req \in wire : Deliver(req)
           \/ \E r \in Removals : Change(r)
           \/ Tick \/ UNCHANGED vars
    PROVE  StakesReserved'
  <1>1. UNCHANGED <<ledger, reserved>>
    BY DEF Crash, Deliver, Change, Tick, ledgerVars, vars
  <1>2. \A c \in Attempts : attempt'[c].pc \in Owning =>
            attempt'[c] = attempt[c]
    <2>1. CASE \E a \in Attempts : Crash(a)
      <3>1. PICK a \in Attempts : attempt' = [attempt EXCEPT ![a] = Idle]
        BY <2>1 DEF Crash, Stop
      <3>2. \A c \in Attempts : attempt'[c] = IF c = a THEN Idle ELSE attempt[c]
        BY <3>1, StateFacts DEF Journal
      <3> QED BY <3>2, IdleType, StepNames
    <2>2. CASE UNCHANGED attempt BY <2>2
    <2> QED BY <2>1, <2>2 DEF Deliver, Change, Tick, vars
  <1>3. \A c \in Attempts, s \in Slots : Writing(c, s)' => Writing(c, s)
    BY <1>1, <1>2 DEF Writing
  <1>4. \A s \in Slots : AtStake(s)' => AtStake(s)
    BY <1>1, <1>3 DEF AtStake, Versions
  <1> QED BY <1>1, <1>4 DEF StakesReserved

StakesInv == RegistryInv /\ (Timely => StakesReserved)

LEMMA InitEstablishesStakes == Init => StakesInv
  <1> SUFFICES ASSUME Init PROVE StakesInv OBVIOUS
  <1>1. RegistryInv BY InitEstablishesRegistry
  <1>2. \A r \in Removals : Versions(r) = {}
    BY DEF Init, LedgerInit, Versions
  <1>3. \A s \in Slots : ~AtStake(s) BY <1>2, SlotFacts DEF AtStake
  <1> QED BY <1>1, <1>3 DEF StakesInv, StakesReserved

LEMMA NextKeepsStakes == StakesInv /\ [Next]_vars => StakesInv'
  <1> SUFFICES ASSUME StakesInv, [Next]_vars PROVE StakesInv' OBVIOUS
  <1>1. RegistryInv' /\ RegistryInv BY NextKeepsRegistry DEF StakesInv
  <1>2. ASSUME Timely PROVE StakesReserved'
    <2>1. /\ Inv /\ Journal /\ AttemptsHeld /\ ReservationsSound
          /\ Marks /\ AttemptsReserve /\ StakesReserved
      BY <1>1, <1>2 DEF StakesInv, RegistryInv, LocksInv, JournalInv
    <2>2. CASE \E a \in Attempts : Step(a) BY <2>1, <2>2, StepStakes
    <2>3. CASE \/ \E a \in Attempts : Crash(a)
               \/ \E req \in wire : Deliver(req)
               \/ \E r \in Removals : Change(r)
               \/ Tick \/ UNCHANGED vars
      BY <2>1, <2>3, EnvironmentStakes
    <2> QED BY <2>2, <2>3 DEF Next
  <1> QED BY <1>1, <1>2 DEF StakesInv

(* What follows from it: a draft that                                      *)
(* recordConfirmedSubmissionIdentity or an interruption marked keeps the   *)
(* reservations of all its payload counts, through crashes and expired     *)
(* locks: reserveProductionEmissionsClaims never takes one of them over.   *)
THEOREM MarkedDraftsKeepProduction ==
    ASSUME Timely
    PROVE  Spec => []MarkedKeepsProduction
  <1>1. StakesInv => MarkedKeepsProduction
    <2> SUFFICES ASSUME StakesInv, NEW s \in SubmissionIds,
                        RowOf(s).status = "draft",
                        HasPossibleExternalMutation(RowOf(s)),
                        NEW b \in RowOf(s).hash.prod
                 PROVE  reserved[b] = s
      BY DEF MarkedKeepsProduction
    <2>1. Journal /\ StakesReserved
      BY DEF StakesInv, RegistryInv, LocksInv, JournalInv
    <2>2. /\ s \in Slots /\ s.ver \in Versions(s.rem)
          /\ RowOf(s) = ledger[s.rem][s.ver]
      BY <2>1, SlotOfId
    <2>3. AtStake(s) BY <2>2 DEF AtStake, Marked
    <2> QED BY <2>1, <2>2, <2>3 DEF StakesReserved
  <1>2. Spec => []StakesInv
    BY InitEstablishesStakes, NextKeepsStakes, PTL DEF Spec
  <1> QED BY <1>1, <1>2, PTL

(* From the reservation to the finalization, whatever an attempt sends of  *)
(* a credit batch's production is reserved for its submission, resumed     *)
(* drafts that had been taken from included: no takeover meets a sender.   *)
THEOREM SendersHoldProduction ==
    ASSUME Timely
    PROVE  Spec => []SendersHoldTheirProduction
  <1>1. RegistryInv => SendersHoldTheirProduction
    BY SentIsReserved
    DEF RegistryInv, LocksInv, JournalInv, SendersHoldTheirProduction, Replacing
  <1> QED BY <1>1, RegistryInvariance, PTL

-----------------------------------------------------------------------------
(* One record per supplier reference.                                      *)

\* Submitting never deletes a record.
RecordsLive ==
    \A ref \in References : \A id \in DOMAIN registry[ref] : registry[ref][id]

\* No record names a version that does not exist yet.
RecordsVersioned ==
    \A ref \in References :
        ref.ver \notin Versions(ref.rem) => registry[ref] = << >>

\* No record of these is there (any more).
NoneLeft(records) == \A id \in DOMAIN records : ~records[id]

\* What an attempt has not sent yet, by its place in the code.
Unsent(q, regs) ==
    LET Nothing(kind) ==
            NoneLeft(regs[[kind |-> kind, rem |-> q.rem, ver |-> q.ver]])
    IN  /\ q.pc = "post" => Nothing(q.kind)
        /\ q.pc \in Gating /\ ~q.resumed => Nothing("inputs") /\ Nothing("entry")
        /\ q.pc \in Sending /\ q.kind = "inputs" /\ ~q.resumed => Nothing("entry")

AttemptsUnsent == \A a \in Attempts : Unsent(attempt[a], registry)

LEMMA NothingFound ==
    ASSUME NEW ref
    PROVE  ~Found(ref) <=> NoneLeft(registry[ref])
  BY DEF Found, Matches, NoneLeft

LEMMA EmptyRecords ==
    ASSUME Typed, RecordsLive, NEW ref \in References, NoneLeft(registry[ref])
    PROVE  registry[ref] = << >>
  <1>1. registry[ref] \in Seq(BOOLEAN) BY StateFacts
  <1>2. DOMAIN registry[ref] = 1 .. Len(registry[ref]) /\ Len(registry[ref]) \in Nat
    BY <1>1, LenProperties
  <1>3. DOMAIN registry[ref] = {} BY DEF RecordsLive, NoneLeft
  <1>4. Len(registry[ref]) = 0
    <2>1. ASSUME NEW n \in Nat, 1 .. n = {} PROVE n = 0 BY <2>1
    <2> QED BY <1>2, <1>3, <2>1
  <1> QED BY <1>1, <1>4, EmptySeq

LEMMA AppendedTrue ==
    ASSUME NEW records \in Seq(BOOLEAN)
    PROVE  /\ Len(Append(records, TRUE)) = Len(records) + 1
           /\ Append(records, TRUE) \in Seq(BOOLEAN)
           /\ Append(records, TRUE)[Len(records) + 1]
           /\ \A id \in 1 .. Len(records) :
                 Append(records, TRUE)[id] = records[id]
  <1>1. /\ Append(records, TRUE)[Len(records) + 1]
        /\ Append(records, TRUE) \in Seq(BOOLEAN)
    OBVIOUS
  <1>2. /\ Len(Append(records, TRUE)) = Len(records) + 1
        /\ \A id \in 1 .. Len(records) : Append(records, TRUE)[id] = records[id]
    OBVIOUS
  <1> QED BY <1>1, <1>2

LEMMA CreatedLive ==
    ASSUME Typed, RecordsLive, NEW ref \in References, CreateRecord(ref)
    PROVE  RecordsLive'
  <1>1. registry[ref] \in Seq(BOOLEAN) BY StateFacts
  <1>2. /\ registry'[ref] = Append(registry[ref], TRUE)
        /\ \A other \in References \ {ref} : registry'[other] = registry[other]
    BY CreateRecordMove
  <1>3. \A id \in DOMAIN registry'[ref] : registry'[ref][id]
    <2> DEFINE n == Len(registry[ref])
    <2>1. /\ Len(Append(registry[ref], TRUE)) = n + 1
          /\ Append(registry[ref], TRUE) \in Seq(BOOLEAN)
          /\ \A id \in 1 .. n : Append(registry[ref], TRUE)[id] = registry[ref][id]
          /\ Append(registry[ref], TRUE)[n + 1]
      BY <1>1, AppendedTrue
    <2>3. n \in Nat /\ DOMAIN registry[ref] = 1 .. n BY <1>1, LenProperties
    <2>4. DOMAIN registry'[ref] = 1 .. n + 1 BY <1>2, <2>1, LenProperties
    <2>5. ASSUME NEW id \in 1 .. n PROVE registry'[ref][id]
      <3>1. registry[ref][id] BY <2>3 DEF RecordsLive
      <3> QED BY <1>2, <2>1, <3>1
    <2>6. registry'[ref][n + 1] BY <1>2, <2>1
    <2> HIDE DEF n
    <2>7. \A id \in 1 .. n + 1 : id \in 1 .. n \/ id = n + 1 BY <2>3
    <2> QED BY <2>4, <2>5, <2>6, <2>7
  <1> QED BY <1>2, <1>3 DEF RecordsLive

LEMMA CreatedOnce ==
    ASSUME Typed, OneRecordPerReference, NEW ref \in References,
           CreateRecord(ref), registry[ref] = << >>
    PROVE  OneRecordPerReference'
  <1>1. /\ Len(registry'[ref]) = NewId(ref)
        /\ \A other \in References \ {ref} : registry'[other] = registry[other]
    BY CreateRecordMove
  <1>2. registry[ref] \in Seq(BOOLEAN) BY StateFacts
  <1>3. Len(registry[ref]) = 0 BY <1>2, EmptySeq
  <1>4. Len(registry'[ref]) = 1 BY <1>1, <1>3 DEF NewId
  <1> SUFFICES ASSUME NEW other \in References
               PROVE  Len(registry'[other]) <= 1
    BY DEF OneRecordPerReference
  <1>5. CASE other = ref
    <2>1. Len(registry'[other]) = 1 BY <1>4, <1>5
    <2> QED BY <2>1
  <1>6. CASE other # ref BY <1>1, <1>6 DEF OneRecordPerReference
  <1> QED BY <1>5, <1>6

\* Only a post changes the registry, under its own reference.
LEMMA StepRecords ==
    ASSUME Journal, NEW a \in Attempts, Step(a)
    PROVE  \/ UNCHANGED registry
           \/ /\ attempt[a].pc = "post" /\ Reference(a) \in References
              /\ CanCreate(Reference(a)) /\ CreateRecord(Reference(a))
  <1> SUFFICES ASSUME ~UNCHANGED registry
               PROVE  /\ attempt[a].pc = "post" /\ Reference(a) \in References
                      /\ CanCreate(Reference(a)) /\ CreateRecord(Reference(a))
    OBVIOUS
  <1>1. PostAnswered(a) \/ PostUnanswered(a) BY OnlyPostsWrite
  <1>2. /\ attempt[a].pc = "post" /\ CanCreate(Reference(a))
        /\ CreateRecord(Reference(a))
    BY <1>1 DEF PostAnswered, PostUnanswered, Is
  <1> QED BY <1>2, PlaceNames, NamedFacts DEF Journal

LEMMA StepWire ==
    ASSUME Journal, NEW a \in Attempts, Step(a), ~LateRequests
    PROVE  UNCHANGED wire
  BY OnlyPostsWrite DEF PostAnswered, PostUnanswered

LEMMA StepVersioned ==
    ASSUME Journal, RecordsVersioned, NEW a \in Attempts, Step(a)
    PROVE  RecordsVersioned'
  <1> SUFFICES ASSUME NEW ref \in References,
                      ref.ver \notin Versions(ref.rem)'
               PROVE  registry'[ref] = << >>
    BY DEF RecordsVersioned
  <1>1. ref.rem \in Removals BY DEF References
  <1>2. Versions(ref.rem) \subseteq Versions(ref.rem)'
    BY <1>1, StepHashes DEF HashesKept, Versions
  <1>3. registry[ref] = << >> BY <1>2 DEF RecordsVersioned
  <1>4. CASE UNCHANGED registry BY <1>3, <1>4
  <1>5. CASE attempt[a].pc = "post" /\ Reference(a) \in References
             /\ CreateRecord(Reference(a))
    <2>1. attempt[a].ver \in Versions(attempt[a].rem)
      BY <1>5, PlaceNames, NamedFacts DEF Journal
    <2>2. ref # Reference(a) BY <1>2, <2>1 DEF Reference
    <2> QED BY <1>3, <1>5, <2>2, CreateRecordMove DEF Journal
  <1> QED BY <1>4, <1>5, StepRecords

\* The records of the versions other attempts own stay as they are.
LEMMA OthersUnsent ==
    ASSUME Journal, AttemptsHeld, NEW a \in Attempts, Step(a),
           NEW c \in Attempts \ {a}, Unsent(attempt[c], registry)
    PROVE  Unsent(attempt[c], registry')
  <1>1. CASE UNCHANGED registry BY <1>1
  <1>2. CASE attempt[c].pc \notin Owning
    BY <1>2, PlaceNames DEF Unsent, Owning
  <1>3. CASE /\ attempt[c].pc \in Owning
             /\ attempt[a].pc = "post" /\ Reference(a) \in References
             /\ CreateRecord(Reference(a))
    <2>1. attempt[a].pc \in Owning /\ Row(a).status = "draft"
      BY <1>3, PlaceNames DEF AttemptsHeld, KeepsLock, RowHeld, Row
    <2>2. ~(attempt[c].rem = attempt[a].rem /\ attempt[c].ver = attempt[a].ver)
      BY <1>3, <2>1, OwnRow
    <2>3. \A kind \in Kinds :
            LET ref == [kind |-> kind, rem |-> attempt[c].rem,
                        ver |-> attempt[c].ver]
            IN  ref \in References /\ ref # Reference(a)
      BY <1>3, <2>2, TypedFacts, NamedFacts DEF Journal, References, Reference
    <2>4. \A kind \in Kinds :
            LET ref == [kind |-> kind, rem |-> attempt[c].rem,
                        ver |-> attempt[c].ver]
            IN  registry'[ref] = registry[ref]
      BY <1>3, <2>3, CreateRecordMove DEF Journal
    <2>5. attempt[c].kind \in Kinds /\ {"inputs", "entry"} = Kinds
      BY TypedFacts DEF Journal, Kinds
    <2> QED BY <2>4, <2>5 DEF Unsent
  <1> QED BY <1>1, <1>2, <1>3, StepRecords

LEMMA UnsentStep ==
    ASSUME Journal, AttemptsHeld, AttemptsUnsent, NEW a \in Attempts, Step(a),
           NEW q, attempt' = [attempt EXCEPT ![a] = q], Unsent(q, registry')
    PROVE  AttemptsUnsent'
  <1>1. \A b \in Attempts : attempt'[b] = IF b = a THEN q ELSE attempt[b]
    BY StateFacts DEF Journal
  <1> QED BY <1>1, OthersUnsent DEF AttemptsUnsent

LEMMA UnsentElsewhere ==
    ASSUME Journal, AttemptsHeld, AttemptsUnsent, NEW a \in Attempts, Step(a),
           NEW q, attempt' = [attempt EXCEPT ![a] = q],
           q.pc \notin Gating \cup Sending
    PROVE  AttemptsUnsent'
  <1>1. Unsent(q, registry') BY DEF Unsent, Sending
  <1> QED BY <1>1, UnsentStep

LEMMA UnsentBecomes ==
    ASSUME Journal, AttemptsHeld, AttemptsUnsent, NEW a \in Attempts, Step(a),
           NEW pc, NEW mutation, NEW prev, NEW kind, NEW ext,
           Becomes(a, pc, mutation, prev, kind, ext),
           LET Nothing(k) ==
                   NoneLeft(registry'[[kind |-> k, rem |-> attempt[a].rem,
                                       ver |-> attempt[a].ver]])
           IN  /\ pc = "post" => Nothing(kind)
               /\ pc \in Gating /\ ~attempt[a].resumed =>
                    Nothing("inputs") /\ Nothing("entry")
               /\ pc \in Sending /\ kind = "inputs" /\ ~attempt[a].resumed =>
                    Nothing("entry")
    PROVE  AttemptsUnsent'
  <1>1. PICK q \in Attempt :
            /\ attempt' = [attempt EXCEPT ![a] = q]
            /\ SameClaim(attempt[a], q) /\ q.pc = pc /\ q.kind = kind
    BY DEF Becomes
  <1>2. Unsent(q, registry') BY <1>1 DEF Unsent, SameClaim
  <1> QED BY <1>1, <1>2, UnsentStep

LEMMA UnsentAway ==
    ASSUME Journal, AttemptsHeld, AttemptsUnsent, NEW a \in Attempts, Step(a),
           \/ Stop(a) \/ Throw(a)
           \/ \E mutation, prev, kind, ext :
                \/ Becomes(a, "verify", mutation, prev, kind, ext)
                \/ Becomes(a, "finalize", mutation, prev, kind, ext)
    PROVE  AttemptsUnsent'
  <1>1. {"idle", "fail", "verify", "finalize"} \cap (Gating \cup Sending) = {}
    BY DEF Gating, Sending
  <1>2. CASE Stop(a) BY <1>1, <1>2, IdleType, UnsentElsewhere DEF Stop
  <1>3. CASE Throw(a)
    <2>1. Becomes(a, "fail", attempt[a].mutation, attempt[a].prev,
              attempt[a].kind, attempt[a].ext)
      BY <1>3, PlaceNames, GotoAdvances DEF Throw, Advances, Journal
    <2>2. PICK q \in Attempt :
              attempt' = [attempt EXCEPT ![a] = q] /\ q.pc = "fail"
      BY <2>1 DEF Becomes
    <2> QED BY <1>1, <2>2, UnsentElsewhere
  <1>4. ASSUME NEW mutation, NEW prev, NEW kind, NEW ext,
               \/ Becomes(a, "verify", mutation, prev, kind, ext)
               \/ Becomes(a, "finalize", mutation, prev, kind, ext)
        PROVE  AttemptsUnsent'
    <2>1. PICK q \in Attempt :
              /\ attempt' = [attempt EXCEPT ![a] = q]
              /\ q.pc \in {"verify", "finalize"}
      BY <1>4 DEF Becomes
    <2> QED BY <1>1, <2>1, UnsentElsewhere
  <1> QED BY <1>2, <1>3, <1>4

LEMMA CreateDraftUnsent ==
    ASSUME Journal, AttemptsHeld, AttemptsUnsent, RecordsVersioned,
           NEW a \in Attempts, CreateDraft(a)
    PROVE  AttemptsUnsent'
  <1> DEFINE r   == attempt[a].rem
             new == Len(ledger[r]) + 1
  <1>1. Step(a) BY DEF Step
  <1>2. CASE Stop(a) BY <1>1, <1>2, UnsentAway
  <1>3. CASE ~Stop(a)
    <2>1. PICK q \in Attempt :
            /\ attempt' = [attempt EXCEPT ![a] = q]
            /\ q.pc = "scope" /\ q.rem = r /\ q.ver = new
      BY <1>3, CreateDraftTurn DEF TakesDraft
    <2>2. UNCHANGED registry /\ new \in 1 .. MaxVersion /\ r \in Removals
      BY <1>3, CreateDraftMove, TypedFacts DEF Journal
    <2>3. new \notin Versions(r)
      BY <2>2, StateFacts DEF Versions, Journal
    <2>4. \A kind \in Kinds :
              NoneLeft(registry'[[kind |-> kind, rem |-> q.rem, ver |-> q.ver]])
      <3>1. NoneLeft(<< >>) BY DEF NoneLeft
      <3> QED BY <2>1, <2>2, <2>3, <3>1 DEF RecordsVersioned, References
    <2>5. {"inputs", "entry"} = Kinds /\ "scope" # "post" /\ "scope" \notin Sending
      BY DEF Kinds, Sending
    <2>6. Unsent(q, registry') BY <2>1, <2>4, <2>5 DEF Unsent
    <2> QED BY <1>1, <2>1, <2>6, UnsentStep
  <1> QED BY <1>2, <1>3

LEMMA ResetDraftUnsent ==
    ASSUME Journal, AttemptsHeld, AttemptsUnsent, NEW a \in Attempts,
           ResetDraft(a)
    PROVE  AttemptsUnsent'
  <1>1. Step(a) BY DEF Step
  <1>2. CASE Stop(a) BY <1>1, <1>2, UnsentAway
  <1>3. CASE ~Stop(a)
    <2>1. PICK q \in Attempt :
            /\ attempt' = [attempt EXCEPT ![a] = q]
            /\ q.pc = "revision" /\ q.resumed
      BY <1>3, ResetDraftMove DEF ResetDraft
    <2>2. Unsent(q, registry') BY <2>1 DEF Unsent
    <2> QED BY <1>1, <2>1, <2>2, UnsentStep
  <1> QED BY <1>2, <1>3

LEMMA GateUnsent ==
    ASSUME Journal, AttemptsHeld, AttemptsUnsent, NEW a \in Attempts,
           GateStep(a) \/ ReserveClaims(a)
    PROVE  AttemptsUnsent'
  <1>1. Step(a) BY DEF Step, GateStep
  <1>2. Unsent(attempt[a], registry) BY DEF AttemptsUnsent
  <1>3. UNCHANGED registry BY GateMove DEF ReserveClaims
  <1>4. attempt[a].pc \in Gating BY GateMove DEF ReserveClaims, Is, Gating
  <1>5. CASE GateStep(a)
    <2>1. PICK pc \in {"scope", "contend", "rebuild", "reserve", "retire", "fail"} :
              Goto(a, pc)
      BY <1>5, GateMove
    <2>2. Becomes(a, pc, attempt[a].mutation, attempt[a].prev,
              attempt[a].kind, attempt[a].ext)
      BY <2>1, PlaceNames, GotoAdvances DEF Advances, Journal
    <2>3. pc # "post" /\ pc \notin Sending BY DEF Sending
    <2> QED BY <1>1, <1>2, <1>3, <1>4, <2>2, <2>3, UnsentBecomes DEF Unsent
  <1>6. CASE ReserveClaims(a)
    <2> DEFINE next == IF attempt[a].resumed THEN "lookup" ELSE "post"
               prev == IF attempt[a].resumed
                   THEN ResumedPrevious(attempt[a].rem, attempt[a].ver)
                   ELSE attempt[a].prev
    <2>1. \/ Throw(a)
          \/ Becomes(a, next, attempt[a].mutation, prev, "inputs", attempt[a].ext)
      BY <1>6, ReserveMove DEF Journal
    <2>2. next = "post" => ~attempt[a].resumed OBVIOUS
    <2>3. next \notin Gating BY DEF Gating
    <2> HIDE DEF next, prev
    <2> QED BY <1>1, <1>2, <1>3, <1>4, <2>1, <2>2, <2>3, UnsentAway,
            UnsentBecomes DEF Unsent
  <1> QED BY <1>5, <1>6

LEMMA ExchangeUnsent ==
    ASSUME Journal, AttemptsHeld, AttemptsUnsent,
           NEW a \in Attempts, Exchange(a)
    PROVE  AttemptsUnsent'
  <1> DEFINE Ref(k) == [kind |-> k, rem |-> attempt[a].rem,
                        ver |-> attempt[a].ver]
  <1>1. Step(a) BY DEF Step, Exchange
  <1>2. Unsent(attempt[a], registry) BY DEF AttemptsUnsent
  <1>3. PICK pc \in {"confirm", "post", "answer", "fail"},
             mutation \in {"none", "possible", "confirmed"}, ext \in Nat :
            /\ Becomes(a, pc, mutation, attempt[a].prev, attempt[a].kind, ext)
            /\ pc = "post" => LookupNone(a)
    BY ExchangeMove
  <1>4. attempt[a].pc \in Sending /\ pc \notin Gating
    BY ExchangeMove DEF Sending, Gating
  <1>5. Reference(a) \in References /\ Reference(a) = Ref(attempt[a].kind)
    BY <1>4, NamedFacts DEF Journal, Owning, Reference
  <1>6. Ref("entry") \in References
    BY <1>5 DEF Reference, References, Kinds
  <1>7. pc = "post" => NoneLeft(registry'[Ref(attempt[a].kind)])
    BY <1>3, <1>5, NothingFound DEF LookupNone
  <1>8. attempt[a].kind = "inputs" => registry'[Ref("entry")] = registry[Ref("entry")]
    <2>1. CASE UNCHANGED registry BY <2>1
    <2>2. CASE CreateRecord(Reference(a))
      <3>1. attempt[a].kind = "inputs" => Ref("entry") # Reference(a)
        BY <1>5
      <3> QED BY <1>5, <1>6, <2>2, <3>1, CreateRecordMove DEF Journal
    <2> QED BY <1>1, <2>1, <2>2, StepRecords
  <1>9. attempt[a].kind = "inputs" /\ ~attempt[a].resumed =>
            NoneLeft(registry'[Ref("entry")])
    BY <1>2, <1>4, <1>8 DEF Unsent
  <1> HIDE DEF Ref
  <1> QED BY <1>1, <1>3, <1>4, <1>7, <1>9, UnsentBecomes DEF Ref

LEMMA ConfirmUnsent ==
    ASSUME Journal, AttemptsHeld, AttemptsUnsent, NEW a \in Attempts, Confirm(a)
    PROVE  AttemptsUnsent'
  <1>1. Step(a) BY DEF Step
  <1>2. Unsent(attempt[a], registry) BY DEF AttemptsUnsent
  <1>3. UNCHANGED registry /\ attempt[a].pc \in Sending
    BY ConfirmMove DEF Journal, Sending
  <1>4. CASE attempt[a].kind = "inputs"
             /\ Becomes(a, NextAfterInputs(a), attempt[a].mutation,
                    attempt[a].prev, "entry", attempt[a].ext)
    <2>1. /\ NextAfterInputs(a) \notin Gating
          /\ NextAfterInputs(a) = "post" => ~attempt[a].resumed
      BY DEF NextAfterInputs, Gating
    <2> QED BY <1>1, <1>2, <1>3, <1>4, <2>1, UnsentBecomes DEF Unsent
  <1>5. CASE Advances(a, "verify") \/ Throw(a)
    BY <1>1, <1>5, UnsentAway DEF Advances
  <1> QED BY <1>4, <1>5, ConfirmMove DEF Journal

LEMMA StepUnsent ==
    ASSUME Journal, AttemptsHeld, AttemptsUnsent, RecordsVersioned,
           NEW a \in Attempts, Step(a)
    PROVE  AttemptsUnsent'
  <1>1. CASE Preparation(a)
    <2>1. PICK q : attempt' = [attempt EXCEPT ![a] = q] /\ q.pc \notin Owning
      BY <1>1, PreparingMove
    <2> QED BY <2>1, UnsentElsewhere DEF Owning
  <1>2. CASE Verify(a)
    BY <1>2, VerifyMove, UnsentAway DEF Journal
  <1>3. CASE Retire(a) \/ FinalizeSubmission(a) \/ FailStep(a)
               \/ RecordFailure(a)
    BY <1>3, RetireMove, FinalizeMove, RecordFailureMove, UnsentAway
    DEF FailStep, Journal
  <1> QED BY <1>1, <1>2, <1>3, CreateDraftUnsent, ResetDraftUnsent, GateUnsent,
          ExchangeUnsent, ConfirmUnsent
       DEF Step, Preparation, GateStep, Exchange

-----------------------------------------------------------------------------
(* The invariant, and the guarantee.                                       *)

\* A registry that refuses duplicates, or requests that do not land late.
Guarded == UniqueReferences \/ (Timely /\ ~LateRequests)

RecordsInv ==
    /\ LocksInv /\ RecordsLive
    /\ Guarded => OneRecordPerReference
    /\ Timely /\ ~LateRequests =>
         wire = {} /\ RecordsVersioned /\ AttemptsUnsent

LEMMA InitEstablishesRecords == Init => RecordsInv
  <1> SUFFICES ASSUME Init PROVE RecordsInv OBVIOUS
  <1>1. /\ \A a \in Attempts : attempt[a].pc = "idle"
        /\ \A ref \in References : registry[ref] = << >>
        /\ wire = {}
    BY IdleType DEF Init
  <1>2. "idle" # "post" /\ "idle" \notin Gating /\ "idle" \notin Sending
    BY DEF Gating, Sending
  <1>3. AttemptsUnsent BY <1>1, <1>2 DEF AttemptsUnsent, Unsent
  <1>4. RecordsLive BY <1>1 DEF RecordsLive
  <1>5. OneRecordPerReference BY <1>1 DEF OneRecordPerReference
  <1>6. RecordsVersioned BY <1>1 DEF RecordsVersioned
  <1> QED BY <1>1, <1>3, <1>4, <1>5, <1>6, InitEstablishesLocks DEF RecordsInv

\* Every record is created under a reference that holds none.
LEMMA CreatedRecords ==
    ASSUME Typed, RecordsLive, NEW ref \in References, CanCreate(ref),
           CreateRecord(ref), Guarded => OneRecordPerReference,
           ~UniqueReferences /\ Guarded => registry[ref] = << >>
    PROVE  RecordsLive' /\ (Guarded => OneRecordPerReference')
  <1>1. UniqueReferences => registry[ref] = << >>
    BY EmptyRecords, NothingFound DEF CanCreate
  <1> QED BY <1>1, CreatedLive, CreatedOnce

LEMMA NextKeepsRecords == RecordsInv /\ [Next]_vars => RecordsInv'
  <1> SUFFICES ASSUME RecordsInv, [Next]_vars PROVE RecordsInv' OBVIOUS
  <1>1. LocksInv' /\ LocksInv BY NextKeepsLocks DEF RecordsInv
  <1>2. Journal /\ Typed /\ (Timely => AttemptsHeld)
    BY <1>1 DEF LocksInv, JournalInv, Journal
  <1>3. RecordsLive /\ (Guarded => OneRecordPerReference) BY DEF RecordsInv
  <1>4. ASSUME UNCHANGED registry
        PROVE  RecordsLive' /\ (Guarded => OneRecordPerReference')
    BY <1>3, <1>4 DEF RecordsLive, OneRecordPerReference
  <1>5. ASSUME NEW a \in Attempts, Step(a) PROVE RecordsInv'
    <2>1. RecordsLive' /\ (Guarded => OneRecordPerReference')
      <3>1. CASE attempt[a].pc = "post" /\ Reference(a) \in References
                 /\ CanCreate(Reference(a)) /\ CreateRecord(Reference(a))
        <4>1. Timely /\ ~LateRequests => registry[Reference(a)] = << >>
          <5>1. Timely /\ ~LateRequests => NoneLeft(registry[Reference(a)])
            BY <3>1 DEF RecordsInv, AttemptsUnsent, Unsent, Reference
          <5> QED BY <1>2, <1>3, <3>1, <5>1, EmptyRecords
        <4> QED BY <1>2, <1>3, <3>1, <4>1, CreatedRecords DEF Guarded
      <3> QED BY <1>2, <1>4, <1>5, <3>1, StepRecords
    <2>2. ASSUME Timely, ~LateRequests
          PROVE  wire' = {} /\ RecordsVersioned' /\ AttemptsUnsent'
      <3>1. wire = {} /\ RecordsVersioned /\ AttemptsUnsent
        BY <2>2 DEF RecordsInv
      <3>2. UNCHANGED wire BY <1>2, <1>5, <2>2, StepWire
      <3> QED BY <1>2, <1>3, <1>5, <2>2, <3>1, <3>2, StepVersioned, StepUnsent
    <2> QED BY <1>1, <2>1, <2>2 DEF RecordsInv
  <1>6. ASSUME NEW req \in wire, Deliver(req) PROVE RecordsInv'
    <2>1. ~(Timely /\ ~LateRequests) BY DEF RecordsInv
    <2>2. req.ref \in References BY <1>2, StateFacts DEF Requests
    <2>3. \/ UNCHANGED registry
          \/ CanCreate(req.ref) /\ CreateRecord(req.ref)
      BY <1>6 DEF Deliver
    <2>4. RecordsLive' /\ (Guarded => OneRecordPerReference')
      BY <1>2, <1>3, <1>4, <2>1, <2>2, <2>3, CreatedRecords DEF Guarded
    <2> QED BY <1>1, <2>1, <2>4 DEF RecordsInv
  <1>7. CASE \/ \E a \in Attempts : Crash(a)
             \/ \E r \in Removals : Change(r)
             \/ Tick \/ UNCHANGED vars
    <2>1. UNCHANGED <<ledger, registry, wire>>
      BY <1>7 DEF Crash, Change, Tick, ledgerVars, vars
    <2>2. ASSUME AttemptsUnsent PROVE AttemptsUnsent'
      <3>1. CASE \E a \in Attempts : Crash(a)
        <4>1. PICK a \in Attempts : attempt' = [attempt EXCEPT ![a] = Idle]
          BY <3>1 DEF Crash, Stop
        <4>2. \A b \in Attempts : attempt'[b] = IF b = a THEN Idle ELSE attempt[b]
          BY <1>2, <4>1, StateFacts
        <4>3. Unsent(Idle, registry')
          BY IdleType DEF Unsent, Gating, Sending
        <4> QED BY <2>1, <2>2, <4>2, <4>3 DEF AttemptsUnsent
      <3>2. CASE UNCHANGED attempt BY <2>1, <2>2, <3>2 DEF AttemptsUnsent
      <3> QED BY <1>7, <3>1, <3>2 DEF Change, Tick, vars
    <2>3. RecordsVersioned => RecordsVersioned'
      BY <2>1 DEF RecordsVersioned, Versions
    <2> QED BY <1>1, <1>4, <2>1, <2>2, <2>3 DEF RecordsInv
  <1> QED BY <1>5, <1>6, <1>7 DEF Next

(* The inductive invariant holds in every behaviour.                       *)
THEOREM RecordsInvariance == Spec => []RecordsInv
  BY InitEstablishesRecords, NextKeepsRecords, PTL DEF Spec

(* No supplier reference ever names two registry records, when the         *)
(* registry refuses a reference it holds, or when attempts and their       *)
(* requests end before their row lock does: performRegistryCreate looks up *)
(* what an earlier attempt may have created, and only the lock holder      *)
(* sends.                                                                  *)
THEOREM RecordsCreatedOnce ==
    ASSUME UniqueReferences \/ (Timely /\ ~LateRequests)
    PROVE  Spec => []OneRecordPerReference
  <1>1. RecordsInv => OneRecordPerReference BY DEF RecordsInv, Guarded
  <1> QED BY <1>1, RecordsInvariance, PTL
=============================================================================
