---------------------- MODULE RemovalSubmission_proofs ----------------------
(***************************************************************************)
(* Proofs about RemovalSubmission, for any number of Removals, batches,    *)
(* attempts and versions, and for every setting of its switches.           *)
(*                                                                         *)
(* The inductive invariant Inv says that an attempt that owns a draft      *)
(* names an existing row and carries that row's payload, that the claims   *)
(* it has seen can only have been taken since by the Removals that hold    *)
(* them now, and that once the payload has been compared with the live one *)
(* its production is within the batches the attempt is going to claim.     *)
(***************************************************************************)
EXTENDS RemovalSubmission, SequenceTheorems, WellFoundedInduction, TLAPS

-----------------------------------------------------------------------------
(* The inductive invariant.                                                *)

Bounded == \A r \in Removals : Len(ledger[r]) \in 0 .. MaxVersion

\* Steps after the claimed payload was compared with the live one.
Checked == {"reserve", "verify", "finalize"} \cup Sending

Fits(q, rows, claims) ==
    /\ q.pc \in Owning \cup {"resetting"} => q.ver \in 1 .. Len(rows[q.rem])
    /\ q.pc \in Owning => q.hash = rows[q.rem][q.ver].hash
    /\ q.pc # "idle" => \A b \in Batches : q.seen[b] \in {None, claims[b]}
    /\ q.pc \in Checked => \A b \in q.hash.prod :
            b \in Members[q.rem] /\ q.seen[b] \in {None, q.rem}

AttemptsFit == \A a \in Attempts : Fits(attempt[a], ledger, claimed)

Inv == TypeOK /\ Bounded /\ AttemptsFit /\ SubmittedOwnsItsProduction

(* What every step does to the ledger and the claims: rows stay, with their *)
(* payload; only a finalization submits; claims are never taken back.       *)
HashesKept ==
    \A r \in Removals : \A v \in Versions(r) :
        v \in 1 .. Len(ledger'[r]) /\ ledger'[r][v].hash = ledger[r][v].hash
NoNewSubmitted ==
    \A r \in Removals : \A v \in 1 .. Len(ledger'[r]) :
        ledger'[r][v].status = "submitted" =>
            v \in Versions(r) /\ ledger[r][v].status = "submitted"
ClaimsKept ==
    \A b \in Batches : claimed[b] # None => claimed'[b] = claimed[b]

-----------------------------------------------------------------------------
(* What the writes to the ledger do to its rows.                           *)

LEMMA WriteRowEffect ==
    ASSUME LedgerTypeOK, NEW r \in Removals, NEW v \in Versions(r),
           NEW row \in Rows(Payloads), WriteRow(r, v, row)
    PROVE  /\ ledger' \in [Removals -> Seq(Rows(Payloads))]
           /\ \A q \in Removals : Len(ledger'[q]) = Len(ledger[q])
           /\ \A q \in Removals : \A u \in Versions(q) :
                ledger'[q][u] = IF q = r /\ u = v THEN row ELSE ledger[q][u]
  <1>1. ledger \in [Removals -> Seq(Rows(Payloads))] BY DEF LedgerTypeOK
  <1>2. /\ [ledger[r] EXCEPT ![v] = row] \in Seq(Rows(Payloads))
        /\ Len([ledger[r] EXCEPT ![v] = row]) = Len(ledger[r])
        /\ \A u \in Versions(r) : [ledger[r] EXCEPT ![v] = row][u]
                = IF u = v THEN row ELSE ledger[r][u]
    BY <1>1, ExceptSeq DEF Versions
  <1>3. ledger' = [ledger EXCEPT ![r] = [ledger[r] EXCEPT ![v] = row]]
    BY <1>1 DEF WriteRow
  <1> QED BY <1>1, <1>2, <1>3

LEMMA InsertDraftEffect ==
    ASSUME LedgerTypeOK, Bounded, NEW r \in Removals, NEW payload \in Payloads,
           NEW prev \in Nat, NEW stamp \in Locks,
           InsertDraft(r, payload, prev, stamp), Len(ledger[r]) + 1 <= MaxVersion
    PROVE  /\ ledger' \in [Removals -> Seq(Rows(Payloads))]
           /\ Len(ledger'[r]) = Len(ledger[r]) + 1
           /\ ledger'[r][Len(ledger[r]) + 1].hash = payload
           /\ HashesKept /\ NoNewSubmitted /\ Bounded'
  <1> DEFINE row == [status |-> "draft", hash |-> payload, ext |-> 0,
                     lockedAt |-> stamp, outcome |-> "none",
                     mutation |-> "unset", refresh |-> FALSE, prev |-> prev]
             rows == Append(ledger[r], row)
  <1>1. ledger \in [Removals -> Seq(Rows(Payloads))] BY DEF LedgerTypeOK
  <1>2. row \in Rows(Payloads) BY DEF Rows, Statuses, Outcomes, Mutations
  <1>3. /\ rows \in Seq(Rows(Payloads))
        /\ Len(rows) = Len(ledger[r]) + 1
        /\ \A u \in Versions(r) : rows[u] = ledger[r][u]
        /\ rows[Len(ledger[r]) + 1] = row
    <2> HIDE DEF row
    <2> QED BY <1>1, <1>2, AppendProperties DEF Versions
  <1>4. ledger' = [ledger EXCEPT ![r] = rows]
    BY <1>1 DEF InsertDraft
  <1>5. row.hash = payload /\ row.status = "draft" OBVIOUS
  <1> HIDE DEF row, rows
  <1>6. \A q \in Removals : ledger'[q] =
            IF q = r THEN rows ELSE ledger[q]
    BY <1>1, <1>4
  <1>7. \A q \in Removals : Len(ledger[q]) \in Nat BY <1>1, LenProperties
  <1>8. HashesKept BY <1>3, <1>6, <1>7 DEF HashesKept, Versions
  <1>9. NoNewSubmitted
    <2> SUFFICES ASSUME NEW q \in Removals, NEW u \in 1 .. Len(ledger'[q]),
                        ledger'[q][u].status = "submitted"
                 PROVE  u \in Versions(q) /\ ledger[q][u].status = "submitted"
      BY DEF NoNewSubmitted
    <2>1. CASE q # r BY <1>6, <2>1 DEF Versions
    <2>2. CASE q = r
      <3>1. u # Len(ledger[r]) + 1 BY <1>3, <1>5, <1>6, <2>2
      <3>2. u \in Versions(r) BY <1>3, <1>6, <1>7, <2>2, <3>1 DEF Versions
      <3> QED BY <1>3, <1>6, <2>2, <3>2
    <2> QED BY <2>1, <2>2
  <1>10. Bounded' BY <1>3, <1>6, <1>7, BoundsAssumption DEF Bounded
  <1> QED BY <1>1, <1>3, <1>4, <1>5, <1>8, <1>9, <1>10

LEMMA FinalizeEffect ==
    ASSUME LedgerTypeOK, NEW r \in Removals, NEW v \in Versions(r),
           NEW ext \in Nat, NEW prev, NEW batches \in SUBSET Batches,
           Finalize([rem |-> r, ver |-> v], ext, prev, batches)
    PROVE  /\ ledger' \in [Removals -> Seq(Rows(Payloads))]
           /\ \A q \in Removals : Len(ledger'[q]) = Len(ledger[q])
           /\ \A q \in Removals : \A u \in Versions(q) :
                /\ ledger'[q][u].hash = ledger[q][u].hash
                /\ ledger'[q][u].status = "submitted" =>
                     \/ q = r /\ u = v
                     \/ ledger[q][u].status = "submitted"
  <1> DEFINE new(u) == IF u = v
              THEN [ledger[r][u] EXCEPT !.status = "submitted", !.ext = ext,
                      !.lockedAt = NoLock, !.outcome = "none",
                      !.mutation = "unset"]
            ELSE IF u = prev THEN [ledger[r][u] EXCEPT !.status = "superseded"]
            ELSE ledger[r][u]
         rows == [u \in 1 .. Len(ledger[r]) |-> new(u)]
  <1>1. ledger \in [Removals -> Seq(Rows(Payloads))] BY DEF LedgerTypeOK
  <1>2. ledger' = [ledger EXCEPT ![r] = rows]
    BY <1>1, LenProperties DEF Finalize
  <1>3. \A u \in 1 .. Len(ledger[r]) : ledger[r][u] \in Rows(Payloads)
    BY <1>1, ElementOfSeq
  <1>4. \A u \in 1 .. Len(ledger[r]) :
            /\ new(u) \in Rows(Payloads)
            /\ new(u).hash = ledger[r][u].hash
            /\ new(u).status = "submitted" =>
                 u = v \/ ledger[r][u].status = "submitted"
    BY ZenonT(60), <1>3 DEF Rows, Statuses, Outcomes, Mutations, NoLock, Locks
  <1>5. Len(ledger[r]) \in Nat BY <1>1, LenProperties
  <1> HIDE DEF new
  <1>6. rows \in Seq(Rows(Payloads)) BY <1>4, <1>5, IsASeq
  <1>7. Len(rows) = Len(ledger[r]) BY <1>5, <1>6, LenProperties
  <1>8. \A u \in 1 .. Len(ledger[r]) : rows[u] = new(u) OBVIOUS
  <1> HIDE DEF rows
  <1> QED BY <1>1, <1>2, <1>4, <1>6, <1>7, <1>8 DEF Versions

-----------------------------------------------------------------------------
(* Lemmas about single values.                                             *)

LEMMA StepNames ==
    /\ Owning \subseteq Steps /\ Checked \subseteq Owning
    /\ {"idle", "loaded", "creating", "resuming", "resetting"} \subseteq Steps
    /\ {"idle", "loaded", "creating", "resuming", "resetting"} \cap Owning = {}
  BY DEF Steps, Owning, Preparing, Gating, Sending, Finishing, Checked

LEMMA IdleType == Idle \in Attempt /\ Idle.pc = "idle"
  <1>1. SomeRemoval \in Removals BY RemovalsAssumption DEF SomeRemoval
  <1>2. Blank \in Payloads BY ContentAssumption DEF Blank, Payloads
  <1>3. NoLock \in Locks BY DEF NoLock, Locks
  <1> QED BY <1>1, <1>2, <1>3, StepNames DEF Idle, Attempt, Kinds

LEMMA LivePayloadType ==
    ASSUME LedgerTypeOK, NEW r \in Removals
    PROVE  LivePayload(r) \in Payloads
           /\ MemberClaims(r) \in [Batches -> Removals \cup {None}]
  BY MembersAssumption DEF LedgerTypeOK, LivePayload, Payloads,
     ProductionBatches, MemberClaims

\* A resumed version exists; a created one is the next.
LEMMA DecisionShape ==
    ASSUME NEW rows \in Seq(Rows(Payloads)), NEW hash \in Payloads,
           NEW now \in Nat, NEW policy
    PROVE  LET d == DecideSubmissionClaim(rows, hash, now, policy)
           IN  /\ d.prev \in Nat
               /\ d.kind = "create" => d.version = Len(rows) + 1
               /\ d.kind = "resume" => d.version \in 1 .. Len(rows)
  <1>1. CASE rows = << >> BY <1>1 DEF DecideSubmissionClaim, CreateVersion
  <1>2. CASE rows # << >>
    <2> DEFINE v == Len(rows)
    <2>1. v \in Nat \ {0} BY <1>2, EmptySeq
    <2>2. rows[v] \in Rows(Payloads) BY <2>1, ElementOfSeq
    <2>3. rows[v].status \in Statuses BY <2>2 DEF Rows
    <2> QED BY <1>2, <2>1, <2>3 DEF DecideSubmissionClaim, DecideDraft,
         DecideActive, DecideRejected, CreateVersion, ResumeVersion,
         ReturnExisting, Blocked, Statuses, ActiveStatuses
  <1> QED BY <1>1, <1>2

\* What the policy promises of the record's latest row.
DecisionIsSafe(rows, hash, now, policy) ==
    LET d == DecideSubmissionClaim(rows, hash, now, policy)
        n == Len(rows)
        last == rows[n]
    IN  /\ d.kind \in DecisionKinds
        /\ d.kind = "create" => d.version = n + 1 /\ d.prev \in {0, n}
        /\ d.kind \in {"resume", "existing"} => n > 0 /\ d.version = n
        /\ n > 0 /\ last.status = "draft" /\ d.kind # "blocked" =>
             CanReclaimInterrupted(last) \/ ~LockIsFresh(last, now)
        /\ n > 0 /\ last.status = "draft" /\ HasPossibleExternalMutation(last) =>
             d.kind \in {"blocked", "resume"}
        /\ n > 0 /\ last.ext # 0 /\ d.kind = "create" =>
             \/ last.status = "superseded"
             \/ /\ last.status \in ActiveStatuses /\ last.hash # hash
                /\ policy.supersede /\ d.prev = n

\* THEOREM ClaimsDecidedSafely. For every history of rows, payload, time and
\* policy (Removals, GHG statements), decideSubmissionClaim lets nobody in next
\* to a running attempt; a draft that may have written to the registry is
\* resumed or left alone, never replaced; and a row with a registry identity
\* gets a successor only when it is over or the successor names it.
THEOREM ClaimsDecidedSafely ==
    ASSUME NEW rows \in Seq(Rows(Payloads)), NEW hash \in Payloads,
           NEW now \in Nat, NEW policy
    PROVE  DecisionIsSafe(rows, hash, now, policy)
  <1> DEFINE n == Len(rows)
             last == rows[n]
  <1>1. n \in Nat BY LenProperties
  <1>2. CASE rows = << >>
    <2>1. n = 0 BY <1>2, EmptySeq
    <2> QED BY <1>2, <2>1
         DEF DecisionIsSafe, DecideSubmissionClaim, CreateVersion, DecisionKinds
  <1>3. CASE rows # << >>
    <2>1. n \in Nat \ {0} BY <1>3, EmptySeq
    <2>2. last \in Rows(Payloads) BY <2>1, ElementOfSeq
    <2>3. last.status \in Statuses BY <2>2 DEF Rows
    <2>4. CASE last.status = "draft"
      <3>1. DecideSubmissionClaim(rows, hash, now, policy) =
                DecideDraft(last, n, now, policy)
        BY <1>3, <2>4 DEF DecideSubmissionClaim, ActiveStatuses
      <3>2. CanRefreshEvidence(last) =>
                last.ext = 0 /\ ~HasPossibleExternalMutation(last)
        BY DEF CanRefreshEvidence, HasPossibleExternalMutation
      <3> HIDE DEF n, last
      <3> QED BY <2>1, <2>4, <3>1, <3>2
           DEF DecisionIsSafe, DecideDraft, CreateVersion, ResumeVersion,
               Blocked, DecisionKinds, n, last
    <2>5. CASE last.status \in ActiveStatuses
      <3>1. DecideSubmissionClaim(rows, hash, now, policy) =
                DecideActive(last, n, hash, policy)
        BY <1>3, <2>5 DEF DecideSubmissionClaim, ActiveStatuses
      <3> QED BY <2>1, <2>5, <3>1
           DEF DecisionIsSafe, DecideActive, CreateVersion, ReturnExisting,
               Blocked, DecisionKinds, ActiveStatuses
    <2>6. CASE last.status = "rejected"
      <3>1. DecideSubmissionClaim(rows, hash, now, policy) =
                DecideRejected(last, n, hash)
        BY <1>3, <2>6 DEF DecideSubmissionClaim, ActiveStatuses
      <3> QED BY <2>1, <2>6, <3>1
           DEF DecisionIsSafe, DecideRejected, CreateVersion, ResumeVersion,
               Blocked, DecisionKinds
    <2>7. CASE last.status = "superseded"
      <3>1. DecideSubmissionClaim(rows, hash, now, policy) =
                CreateVersion(n + 1, 0, "after-superseded")
        BY <1>3, <2>7 DEF DecideSubmissionClaim, ActiveStatuses
      <3> QED BY <2>1, <2>7, <3>1
           DEF DecisionIsSafe, CreateVersion, DecisionKinds
    <2> QED BY <2>3, <2>4, <2>5, <2>6, <2>7 DEF Statuses, ActiveStatuses
  <1> QED BY <1>2, <1>3

\* THEOREM ResetAgreesWithDecision. resumeDraft compares in SQL, strictly, with
\* the time its transaction began; decideSubmissionClaim compares in the
\* process, at its own clock.  A draft the compare-and-set takes is one the
\* decision takes at that time and at every later one.
THEOREM ResetAgreesWithDecision ==
    ASSUME NEW row \in Rows(Payloads), NEW began \in Nat, NEW now \in Nat,
           began <= now, NEW bypass \in BOOLEAN, NEW v \in Nat, NEW policy,
           CanResetToDraft(row, bypass, began)
    PROVE  DecideDraft(row, v, now, policy).kind # "blocked"
  <1>1. row.lockedAt.at \in Nat BY DEF Rows, Locks
  <1>2. CASE bypass
    <2>1. CanReclaimInterrupted(row) BY <1>2 DEF CanResetToDraft
    <2> QED BY <2>1 DEF DecideDraft, CreateVersion, ResumeVersion
  <1>3. CASE ~bypass
    <2>1. PICK at \in Nat : at = row.lockedAt.at BY <1>1
    <2>2. row.lockedAt = NoLock \/ at + LockTTL < began
      BY <1>3, <2>1 DEF CanResetToDraft, LockIsStale
    <2>3. at + LockTTL < began => ~(now - at < LockTTL)
      BY LockTTLAssumption
    <2>4. ~LockIsFresh(row, now) BY <2>1, <2>2, <2>3 DEF LockIsFresh
    <2> QED BY <2>4 DEF DecideDraft, CreateVersion, ResumeVersion
  <1> QED BY <1>2, <1>3

\* A set of version numbers that is not empty has a latest member.
LEMMA LatestExists ==
    ASSUME NEW n \in Nat, NEW S \in SUBSET (1 .. n - 1), S # {}
    PROVE  \E u \in S : \A w \in S : w <= u
  <1> DEFINE T == {m \in Nat : n - m \in S}
             less == OpToRel(<, Nat)
  <1>1. T \subseteq Nat OBVIOUS
  <1>2. T # {}
    <2>1. PICK u \in S : TRUE OBVIOUS
    <2>2. u \in 1 .. n - 1 OBVIOUS
    <2>3. n - u \in Nat /\ n - (n - u) = u BY <2>2
    <2> HIDE DEF less
    <2>4. n - u \in T BY <2>3
    <2> QED BY <2>4
  <1>3. IsWellFoundedOn(less, Nat) BY NatLessThanWellFounded
  <1>4. \A x, y \in Nat : y < x => <<y, x>> \in less BY DEF OpToRel
  <1> HIDE DEF T, less
  <1>5. PICK x \in T : \A y \in T : ~ (<<y, x>> \in less)
    BY <1>1, <1>2, <1>3, WFMin
  <1>6. \A y \in T : x <= y
    <2> SUFFICES ASSUME NEW y \in T PROVE x <= y OBVIOUS
    <2>1. x \in Nat /\ y \in Nat BY <1>1
    <2>2. ~(y < x) BY <2>1, <1>4, <1>5
    <2> QED BY <2>1, <2>2
  <1> SUFFICES ASSUME NEW w \in S PROVE w <= n - x
    BY <1>5 DEF T
  <1>7. w \in 1 .. n - 1 OBVIOUS
  <1>8. n - w \in Nat /\ n - (n - w) = w BY <1>7
  <1>9. n - w \in T BY <1>8 DEF T
  <1>10. x \in Nat BY <1>1
  <1> QED BY <1>6, <1>7, <1>9, <1>10

-----------------------------------------------------------------------------
(* Steps that keep the parts of the invariant.                             *)

LEMMA SubmittedKept ==
    ASSUME Inv, HashesKept, NoNewSubmitted, ClaimsKept, LedgerTypeOK'
    PROVE  SubmittedOwnsItsProduction'
  <1> SUFFICES ASSUME NEW s \in SubmissionIds',
                      RowOf(s)'.status = "submitted",
                      NEW b \in RowOf(s)'.hash.prod
               PROVE  claimed'[b] = s.rem
    BY DEF SubmittedOwnsItsProduction
  <1>1. s \in SubmissionIds /\ RowOf(s).status = "submitted"
        /\ RowOf(s)'.hash = RowOf(s).hash
    BY DEF SubmissionIds, RowOf, Versions, NoNewSubmitted, HashesKept
  <1>2. claimed[b] = s.rem /\ s.rem \in Removals
    BY <1>1 DEF Inv, SubmittedOwnsItsProduction, SubmissionIds
  <1>3. b \in Batches
    <2>1. ledger[s.rem] \in Seq(Rows(Payloads)) /\ s.ver \in 1 .. Len(ledger[s.rem])
      BY <1>1 DEF Inv, TypeOK, LedgerTypeOK, SubmissionIds, Versions
    <2>2. RowOf(s) \in Rows(Payloads) BY <2>1, ElementOfSeq DEF RowOf
    <2> QED BY <1>1, <2>2 DEF Rows, Payloads
  <1> QED BY <1>2, <1>3, NoneAssumption DEF ClaimsKept

LEMMA LedgerUntouched ==
    ASSUME Inv, UNCHANGED ledger
    PROVE  Bounded' /\ HashesKept /\ NoNewSubmitted
  BY DEF Inv, Bounded, HashesKept, NoNewSubmitted, Versions

\* Attempts keep fitting whatever the others do.
LEMMA OthersFit ==
    ASSUME Inv, HashesKept, ClaimsKept, NEW b \in Attempts
    PROVE  Fits(attempt[b], ledger', claimed')
  <1>1. attempt[b] \in Attempt /\ Fits(attempt[b], ledger, claimed)
    BY DEF Inv, TypeOK, AttemptsFit
  <1>2. attempt[b].rem \in Removals
        /\ attempt[b].seen \in [Batches -> Removals \cup {None}]
    BY <1>1 DEF Attempt
  <1> QED BY <1>1, <1>2, StepNames DEF Fits, HashesKept, ClaimsKept, Versions

\* One attempt takes the local state q.
LEMMA AttemptStep ==
    ASSUME Inv, HashesKept, ClaimsKept, NEW a \in Attempts, NEW q \in Attempt,
           attempt' = [attempt EXCEPT ![a] = q], Fits(q, ledger', claimed')
    PROVE  attempt' \in [Attempts -> Attempt] /\ AttemptsFit'
  <1>1. attempt \in [Attempts -> Attempt] BY DEF Inv, TypeOK
  <1>2. attempt' \in [Attempts -> Attempt] BY <1>1
  <1>3. \A b \in Attempts : attempt'[b] = IF b = a THEN q ELSE attempt[b]
    BY <1>1
  <1> QED BY <1>2, <1>3, OthersFit DEF AttemptsFit

LEMMA StopStep ==
    ASSUME Inv, HashesKept, ClaimsKept, NEW a \in Attempts, Stop(a)
    PROVE  attempt' \in [Attempts -> Attempt] /\ AttemptsFit'
  BY IdleType, StepNames, AttemptStep DEF Stop, Fits

\* An owning attempt moves on with the draft it owns.
LEMMA OwningStep ==
    ASSUME Inv, HashesKept, ClaimsKept, NEW a \in Attempts,
           attempt[a].pc \in Owning, NEW q \in Attempt, q.pc \in Owning,
           q.pc \in Checked => attempt[a].pc \in Checked,
           q.rem = attempt[a].rem, q.ver = attempt[a].ver,
           q.seen = attempt[a].seen, q.hash = attempt[a].hash,
           attempt' = [attempt EXCEPT ![a] = q]
    PROVE  attempt' \in [Attempts -> Attempt] /\ AttemptsFit'
  <1>1. Fits(attempt[a], ledger', claimed') BY OthersFit
  <1>2. attempt[a].pc # "idle" BY StepNames
  <1>3. Fits(q, ledger', claimed') BY <1>1, <1>2 DEF Fits
  <1> QED BY <1>3, AttemptStep

LEMMA GotoStep ==
    ASSUME Inv, HashesKept, ClaimsKept, NEW a \in Attempts,
           attempt[a].pc \in Owning, NEW pc \in Owning,
           pc \in Checked => attempt[a].pc \in Checked, Goto(a, pc)
    PROVE  attempt' \in [Attempts -> Attempt] /\ AttemptsFit'
  <1> DEFINE q == [attempt[a] EXCEPT !.pc = pc]
  <1>1. attempt \in [Attempts -> Attempt] BY DEF Inv, TypeOK
  <1>2. /\ q \in Attempt /\ q.pc = pc
        /\ q.ver = attempt[a].ver /\ q.rem = attempt[a].rem
        /\ q.seen = attempt[a].seen /\ q.hash = attempt[a].hash
    BY <1>1, StepNames DEF Attempt
  <1>3. attempt' = [attempt EXCEPT ![a] = q] BY <1>1 DEF Goto
  <1> HIDE DEF q
  <1> QED BY <1>2, <1>3, OwningStep

LEMMA ThrowStep ==
    ASSUME Inv, HashesKept, ClaimsKept, NEW a \in Attempts,
           attempt[a].pc \in Owning, Throw(a)
    PROVE  attempt' \in [Attempts -> Attempt] /\ AttemptsFit'
  <1>1. "fail" \in Owning /\ "fail" \notin Checked
    BY DEF Owning, Finishing, Checked, Sending
  <1> QED BY <1>1, GotoStep DEF Throw

\* A step that changes nothing outside the attempt and the registry.
LEMMA QuietStep ==
    ASSUME Inv, UNCHANGED <<clock, content, ledger, claimed, locker>>,
           reserved' \in [Batches -> Submissions \cup {NoSubmission}],
           registry' \in [References -> Seq(BOOLEAN)], wire' \subseteq Requests,
           attempt' \in [Attempts -> Attempt], AttemptsFit'
    PROVE  Inv'
  <1>1. LedgerTypeOK' BY DEF Inv, TypeOK, LedgerTypeOK
  <1>2. ClaimsKept BY DEF ClaimsKept
  <1> QED BY <1>1, <1>2, LedgerUntouched, SubmittedKept DEF Inv, TypeOK

LEMMA PureStep ==
    ASSUME Inv, UNCHANGED <<ledgerVars, registry, wire>>,
           attempt' \in [Attempts -> Attempt], AttemptsFit'
    PROVE  Inv'
  BY QuietStep DEF ledgerVars, Inv, TypeOK, LedgerTypeOK

LEMMA Untouched ==
    ASSUME Inv, UNCHANGED <<ledger, claimed>>
    PROVE  HashesKept /\ ClaimsKept
  BY LedgerUntouched DEF ClaimsKept

-----------------------------------------------------------------------------
(* Claiming a draft keeps the invariant.                                   *)

LEMMA LoadKeepsInv ==
    ASSUME Inv, NEW a \in Attempts, NEW r \in Removals, Load(a, r)
    PROVE  Inv'
  <1> DEFINE q == [Idle EXCEPT !.pc = "loaded", !.rem = r,
                     !.payload = LivePayload(r), !.seen = MemberClaims(r)]
  <1>1. LedgerTypeOK BY DEF Inv, TypeOK
  <1>2. /\ q \in Attempt /\ q.pc = "loaded" /\ q.seen = MemberClaims(r)
    BY <1>1, IdleType, LivePayloadType, StepNames DEF Attempt
  <1>3. attempt' = [attempt EXCEPT ![a] = q] BY DEF Load
  <1>4. UNCHANGED <<ledger, claimed>> BY DEF Load, ledgerVars
  <1>5. \A b \in Batches : q.seen[b] \in {None, claimed[b]}
    BY <1>2 DEF MemberClaims
  <1> HIDE DEF q
  <1>6. Fits(q, ledger', claimed') BY <1>2, <1>4, <1>5, StepNames DEF Fits
  <1>7. attempt' \in [Attempts -> Attempt] /\ AttemptsFit'
    BY <1>2, <1>3, <1>4, <1>6, AttemptStep, Untouched
  <1> QED BY <1>7, PureStep DEF Load

LEMMA RouteKeepsInv ==
    ASSUME Inv, NEW a \in Attempts, Route(a)
    PROVE  Inv'
  <1> DEFINE resuming == [attempt[a] EXCEPT !.pc = "resuming", !.began = clock]
             creating == [attempt[a] EXCEPT !.pc = "creating"]
  <1>1. /\ attempt \in [Attempts -> Attempt] /\ clock \in Nat
        /\ Fits(attempt[a], ledger, claimed)
    BY DEF Inv, TypeOK, LedgerTypeOK, AttemptsFit
  <1>2. /\ resuming \in Attempt /\ resuming.pc = "resuming"
        /\ creating \in Attempt /\ creating.pc = "creating"
        /\ resuming.seen = attempt[a].seen /\ creating.seen = attempt[a].seen
    BY ZenonT(60), <1>1, StepNames DEF Attempt
  <1>3. \/ attempt' = [attempt EXCEPT ![a] = resuming]
        \/ attempt' = [attempt EXCEPT ![a] = creating]
        \/ Stop(a)
    BY <1>1 DEF Route, Goto
  <1>4. UNCHANGED <<ledger, claimed>> BY DEF Route, ledgerVars
  <1>5. attempt[a].pc = "loaded" BY DEF Route, Is
  <1> HIDE DEF resuming, creating
  <1>6. Fits(resuming, ledger', claimed') /\ Fits(creating, ledger', claimed')
    BY <1>1, <1>2, <1>4, <1>5, StepNames DEF Fits
  <1>7. attempt' \in [Attempts -> Attempt] /\ AttemptsFit'
    BY <1>2, <1>3, <1>4, <1>6, AttemptStep, StopStep, Untouched
  <1> QED BY <1>7, PureStep DEF Route

LEMMA CreateDraftKeepsInv ==
    ASSUME Inv, NEW a \in Attempts, CreateDraft(a)
    PROVE  Inv'
  <1> DEFINE r == attempt[a].rem
             payload == attempt[a].payload
             stamp == [by |-> a, at |-> clock]
             d == DecideSubmissionClaim(ledger[r], payload, clock, RemovalPolicy)
             q == [attempt[a] EXCEPT !.pc = "scope", !.ver = d.version,
                     !.hash = payload, !.stamp = stamp, !.prev = d.prev]
  <1>1. /\ attempt \in [Attempts -> Attempt] /\ clock \in Nat
        /\ r \in Removals /\ payload \in Payloads
        /\ ledger \in [Removals -> Seq(Rows(Payloads))]
        /\ LedgerTypeOK /\ Fits(attempt[a], ledger, claimed)
    BY DEF Inv, TypeOK, LedgerTypeOK, AttemptsFit, Attempt
  <1>2. stamp \in Locks BY <1>1, AttemptsAssumption DEF Locks
  <1>3. d.prev \in Nat /\ (d.kind = "create" => d.version = Len(ledger[r]) + 1)
    BY <1>1, DecisionShape
  <1>4. UNCHANGED <<clock, content, claimed, reserved, locker, registry, wire>>
    BY DEF CreateDraft
  <1> HIDE DEF d
  <1>5. CASE d.kind = "create" /\ d.version <= MaxVersion
    <2>1. /\ InsertDraft(r, payload, d.prev, stamp)
          /\ attempt' = [attempt EXCEPT ![a] = q]
      BY <1>1, <1>5 DEF CreateDraft, d
    <2>2. /\ ledger' \in [Removals -> Seq(Rows(Payloads))]
          /\ Len(ledger'[r]) = d.version
          /\ ledger'[r][d.version].hash = payload
          /\ HashesKept /\ NoNewSubmitted /\ Bounded'
      BY <1>1, <1>2, <1>3, <1>5, <2>1, InsertDraftEffect DEF Inv
    <2>3. Len(ledger[r]) \in Nat BY <1>1, LenProperties
    <2>4. ClaimsKept BY <1>4 DEF ClaimsKept
    <2>5. LedgerTypeOK' BY <1>1, <1>4, <2>2 DEF LedgerTypeOK
    <2>6. /\ q \in Attempt /\ q.pc = "scope" /\ q.ver = d.version
          /\ q.rem = r /\ q.hash = payload /\ q.seen = attempt[a].seen
      <3>1. d.version \in Nat BY <1>1, <1>3, <1>5, <2>3
      <3>2. "scope" \in Steps BY DEF Steps, Owning, Gating
      <3> QED BY ZenonT(60), <1>1, <1>2, <1>3, <3>1, <3>2 DEF Attempt
    <2>7. attempt[a].pc = "creating" BY DEF CreateDraft, Is
    <2> HIDE DEF q
    <2>8. Fits(q, ledger', claimed')
      <3>1. q.pc \notin Checked /\ attempt[a].pc # "idle"
        BY <2>6, <2>7 DEF Checked, Sending
      <3>2. d.version \in 1 .. Len(ledger'[r])
        BY <1>1, <1>3, <1>5, <2>2, <2>3
      <3> QED BY <1>1, <1>4, <2>2, <2>6, <3>1, <3>2 DEF Fits
    <2>9. attempt' \in [Attempts -> Attempt] /\ AttemptsFit'
      BY <2>1, <2>2, <2>4, <2>6, <2>8, AttemptStep
    <2> QED BY <1>4, <2>2, <2>4, <2>5, <2>9, SubmittedKept DEF Inv, TypeOK
  <1>6. CASE ~(d.kind = "create" /\ d.version <= MaxVersion)
    <2>1. Stop(a) /\ UNCHANGED ledger BY <1>6 DEF CreateDraft, d
    <2> QED BY <1>4, <2>1, StopStep, Untouched, PureStep DEF ledgerVars
  <1> QED BY <1>5, <1>6

LEMMA DecideResumeKeepsInv ==
    ASSUME Inv, NEW a \in Attempts, DecideResume(a)
    PROVE  Inv'
  <1> DEFINE r == attempt[a].rem
             d == DecideSubmissionClaim(ledger[r], attempt[a].payload, clock,
                    RemovalPolicy)
  <1>1. /\ attempt \in [Attempts -> Attempt] /\ clock \in Nat
        /\ r \in Removals /\ attempt[a].payload \in Payloads
        /\ ledger \in [Removals -> Seq(Rows(Payloads))]
        /\ locker \in [Removals -> Owners \cup {None}]
        /\ LedgerTypeOK /\ Fits(attempt[a], ledger, claimed)
    BY DEF Inv, TypeOK, LedgerTypeOK, AttemptsFit, Attempt
  <1>2. d.kind = "resume" => d.version \in 1 .. Len(ledger[r])
    BY <1>1, DecisionShape
  <1>3. UNCHANGED <<clock, content, ledger, claimed, reserved, registry, wire>>
    BY DEF DecideResume
  <1> HIDE DEF d
  <1>4. CASE d.kind = "resume"
    <2>1. PICK bypass \in BOOLEAN :
            /\ attempt' = [attempt EXCEPT ![a] =
                  [attempt[a] EXCEPT !.pc = "resetting", !.ver = d.version,
                     !.bypass = bypass]]
            /\ locker' = [locker EXCEPT ![r] = a]
      <3>1. CanReclaimInterrupted(ledger[r][d.version]) \in BOOLEAN
        BY DEF CanReclaimInterrupted
      <3>2. /\ attempt' = [attempt EXCEPT
                  ![a].pc = "resetting", ![a].ver = d.version,
                  ![a].bypass = CanReclaimInterrupted(ledger[r][d.version])]
            /\ locker' = [locker EXCEPT ![r] = a]
        BY <1>4 DEF DecideResume, d
      <3> QED BY <1>1, <3>1, <3>2
    <2> DEFINE q == [attempt[a] EXCEPT !.pc = "resetting", !.ver = d.version,
                       !.bypass = bypass]
    <2>2. /\ q \in Attempt /\ q.pc = "resetting" /\ q.ver = d.version
          /\ q.rem = attempt[a].rem /\ q.seen = attempt[a].seen
      <3>1. d.version \in Nat BY <1>1, <1>2, <1>4, LenProperties
      <3>2. attempt[a] \in Attempt BY <1>1
      <3> QED BY <3>1, <3>2, StepNames DEF Attempt
    <2>3. /\ attempt[a].pc = "resuming"
          /\ attempt' = [attempt EXCEPT ![a] = q]
      BY <2>1 DEF DecideResume, Is
    <2> HIDE DEF q
    <2>4. Fits(q, ledger', claimed')
      BY <1>1, <1>2, <1>3, <1>4, <2>2, <2>3, StepNames DEF Fits
    <2>5. attempt' \in [Attempts -> Attempt] /\ AttemptsFit'
      BY <1>3, <2>2, <2>3, <2>4, AttemptStep, Untouched
    <2>6. LedgerTypeOK'
      BY <1>1, <1>3, <2>1, AttemptsAssumption DEF LedgerTypeOK
    <2> QED BY <1>3, <2>5, <2>6, LedgerUntouched, Untouched, SubmittedKept
            DEF Inv, TypeOK
  <1>5. CASE d.kind # "resume"
    <2>1. Stop(a) /\ UNCHANGED locker BY <1>5 DEF DecideResume, d
    <2> QED BY <1>3, <2>1, StopStep, Untouched, PureStep DEF ledgerVars
  <1> QED BY <1>4, <1>5

LEMMA RowType ==
    ASSUME Inv, NEW r \in Removals, NEW v \in Versions(r)
    PROVE  ledger[r][v] \in Rows(Payloads)
  BY ElementOfSeq DEF Inv, TypeOK, LedgerTypeOK, Versions

\* A row is rewritten with the same payload, and not as submitted.
LEMMA RowStep ==
    ASSUME Inv, NEW r \in Removals, NEW v \in Versions(r),
           NEW row \in Rows(Payloads), row.hash = ledger[r][v].hash,
           row.status = "submitted" => ledger[r][v].status = "submitted",
           WriteRow(r, v, row)
    PROVE  /\ ledger' \in [Removals -> Seq(Rows(Payloads))]
           /\ Bounded' /\ HashesKept /\ NoNewSubmitted
  <1>1. LedgerTypeOK /\ Bounded BY DEF Inv, TypeOK
  <1>2. /\ ledger' \in [Removals -> Seq(Rows(Payloads))]
        /\ \A q \in Removals : Len(ledger'[q]) = Len(ledger[q])
        /\ \A q \in Removals : \A u \in Versions(q) :
             ledger'[q][u] = IF q = r /\ u = v THEN row ELSE ledger[q][u]
    BY <1>1, WriteRowEffect
  <1>3. Bounded' BY <1>1, <1>2 DEF Bounded
  <1>4. HashesKept BY <1>2 DEF HashesKept, Versions
  <1>5. NoNewSubmitted BY <1>2 DEF NoNewSubmitted, Versions
  <1> QED BY <1>2, <1>3, <1>4, <1>5

LEMMA FullStep ==
    ASSUME Inv, LedgerTypeOK', Bounded',
           HashesKept, NoNewSubmitted, ClaimsKept,
           UNCHANGED <<registry, wire>>,
           attempt' \in [Attempts -> Attempt], AttemptsFit'
    PROVE  Inv'
  BY SubmittedKept DEF Inv, TypeOK

LEMMA InheritedMutationType ==
    ASSUME NEW row \in Rows(Payloads)
    PROVE  InheritedMutation(row) \in {"none", "possible", "confirmed"}
  BY DEF InheritedMutation, HasPossibleExternalMutation, Rows

\* What an owning attempt names.
LEMMA OwnerFacts ==
    ASSUME Inv, NEW a \in Attempts, attempt[a].pc \in Owning \cup {"resetting"}
    PROVE  /\ attempt[a] \in Attempt
           /\ attempt[a].rem \in Removals
           /\ attempt[a].ver \in Versions(attempt[a].rem)
           /\ Row(a) \in Rows(Payloads)
           /\ Reference(a) \in References
           /\ Submission(a) \in Submissions
           /\ Submission(a).rem = attempt[a].rem
           /\ Submission(a).ver = attempt[a].ver
           /\ ClaimBatches(a) \in SUBSET Batches
  <1>1. attempt[a] \in Attempt /\ Fits(attempt[a], ledger, claimed)
    BY DEF Inv, TypeOK, AttemptsFit
  <1>2. attempt[a].rem \in Removals /\ attempt[a].kind \in Kinds
    BY <1>1 DEF Attempt
  <1>3. attempt[a].ver \in Versions(attempt[a].rem)
    BY <1>1 DEF Fits, Versions
  <1>4. attempt[a].ver \in 1 .. MaxVersion
    BY <1>2, <1>3, BoundsAssumption DEF Inv, Bounded, Versions
  <1>5. Row(a) \in Rows(Payloads) BY <1>2, <1>3, RowType DEF Row
  <1>6. Reference(a) \in References BY <1>2, <1>4 DEF Reference, References
  <1>7. Submission(a) \in Submissions BY <1>2, <1>4 DEF Submission, Submissions
  <1>8. ClaimBatches(a) \in SUBSET Batches
    BY <1>2, MembersAssumption DEF ClaimBatches
  <1>9. /\ Submission(a).rem = attempt[a].rem
        /\ Submission(a).ver = attempt[a].ver
    BY DEF Submission
  <1> QED BY <1>1, <1>2, <1>3, <1>5, <1>6, <1>7, <1>8, <1>9

LEMMA ResetDraftKeepsInv ==
    ASSUME Inv, NEW a \in Attempts, ResetDraft(a)
    PROVE  Inv'
  <1> DEFINE r == attempt[a].rem
             v == attempt[a].ver
             stamp == [by |-> a, at |-> clock]
             row == ledger[r][v]
             mutation == InheritedMutation(row)
             new == [row EXCEPT !.status = "draft", !.lockedAt = stamp,
                       !.outcome = "none"]
             q == [attempt[a] EXCEPT !.pc = "revision", !.hash = row.hash,
                     !.stamp = stamp, !.resumed = TRUE,
                     !.mutation = mutation, !.ext = row.ext]
             can == CanResetToDraft(row, attempt[a].bypass, attempt[a].began)
  <1>1. attempt[a].pc = "resetting" BY DEF ResetDraft, Is
  <1>2. /\ attempt[a] \in Attempt /\ r \in Removals /\ v \in Versions(r)
        /\ row \in Rows(Payloads)
    BY <1>1, OwnerFacts DEF Row
  <1>3. /\ attempt \in [Attempts -> Attempt] /\ clock \in Nat /\ LedgerTypeOK
        /\ locker \in [Removals -> Owners \cup {None}]
        /\ Fits(attempt[a], ledger, claimed)
    BY DEF Inv, TypeOK, LedgerTypeOK, AttemptsFit
  <1>4. /\ UNCHANGED <<clock, content, claimed, reserved, registry, wire>>
        /\ locker' \in [Removals -> Owners \cup {None}]
    BY <1>2, <1>3 DEF ResetDraft, Unlock
  <1>5. stamp \in Locks BY <1>3, AttemptsAssumption DEF Locks
  <1>6. ClaimsKept BY <1>4 DEF ClaimsKept
  <1>7. CASE can
    <2>1. WriteRow(r, v, new) /\ attempt' = [attempt EXCEPT ![a] = q]
      <3>1. /\ ResetToDraft(r, v, stamp)
            /\ attempt' = [attempt EXCEPT
                  ![a].pc = "revision", ![a].hash = row.hash,
                  ![a].stamp = stamp, ![a].resumed = TRUE,
                  ![a].mutation = mutation, ![a].ext = row.ext]
        BY <1>7 DEF ResetDraft
      <3>2. attempt' = [attempt EXCEPT ![a] = q] BY <1>3, <3>1
      <3> QED BY <3>1, <3>2 DEF ResetToDraft
    <2>2. new \in Rows(Payloads) /\ new.hash = row.hash /\ new.status = "draft"
      BY <1>2, <1>5 DEF Rows, Statuses, Outcomes
    <2>3. mutation \in {"none", "possible", "confirmed"}
      BY <1>2, InheritedMutationType
    <2>4. row.hash \in Payloads /\ row.ext \in Nat BY <1>2 DEF Rows
    <2>5. "revision" \in Owning \ Checked
      BY DEF Owning, Gating, Checked, Sending
    <2> HIDE DEF stamp, mutation, row
    <2>6. /\ q \in Attempt /\ q.pc = "revision" /\ q.hash = row.hash
          /\ q.rem = r /\ q.ver = v /\ q.seen = attempt[a].seen
      BY <1>2, <1>5, <2>3, <2>4, <2>5, StepNames DEF Attempt
    <2> USE DEF row
    <2> HIDE DEF new, q
    <2>7. /\ ledger' \in [Removals -> Seq(Rows(Payloads))]
          /\ Bounded' /\ HashesKept /\ NoNewSubmitted
      BY <1>2, <2>1, <2>2, RowStep
    <2>8. Fits(q, ledger', claimed')
      <3>1. /\ v \in 1 .. Len(ledger'[r])
            /\ ledger'[r][v].hash = ledger[r][v].hash
        BY <1>2, <2>7 DEF HashesKept, Versions
      <3>2. \A b \in Batches : attempt[a].seen[b] \in {None, claimed[b]}
        BY <1>1, <1>3, StepNames DEF Fits
      <3> QED BY <1>4, <2>5, <2>6, <3>1, <3>2 DEF Fits
    <2>9. attempt' \in [Attempts -> Attempt] /\ AttemptsFit'
      BY <1>6, <2>1, <2>6, <2>7, <2>8, AttemptStep
    <2>10. LedgerTypeOK' BY <1>3, <1>4, <2>7 DEF LedgerTypeOK
    <2> QED BY <1>4, <1>6, <2>7, <2>9, <2>10, FullStep
  <1>8. CASE ~can
    <2>1. Stop(a) /\ UNCHANGED ledger BY <1>8 DEF ResetDraft
    <2>2. attempt' \in [Attempts -> Attempt] /\ AttemptsFit'
      BY <1>4, <2>1, StopStep, Untouched
    <2>3. LedgerTypeOK' BY <1>3, <1>4, <2>1 DEF LedgerTypeOK
    <2> QED BY <1>4, <1>6, <2>1, <2>2, <2>3, FullStep, LedgerUntouched
  <1> QED BY <1>7, <1>8

-----------------------------------------------------------------------------
(* The gates keep the invariant.                                           *)

LEMMA GateNames ==
    /\ Gating \subseteq Owning /\ Sending \subseteq Owning \cap Checked
    /\ Finishing \subseteq Owning
    /\ {"scope", "contend", "rebuild", "retire", "fail"}
            \subseteq Owning \ Checked
    /\ {"verify", "finalize", "reserve"} \subseteq Owning \cap Checked
    /\ {"lookup", "post", "answer", "confirm"} = Sending
  BY DEF Owning, Gating, Sending, Finishing, Checked

LEMMA DriftedStep ==
    ASSUME Inv, HashesKept, ClaimsKept, NEW a \in Attempts,
           attempt[a].pc \in Owning, Drifted(a)
    PROVE  attempt' \in [Attempts -> Attempt] /\ AttemptsFit'
  BY GateNames, GotoStep, ThrowStep DEF Drifted

LEMMA CheckRevisionKeepsInv ==
    ASSUME Inv, NEW a \in Attempts, CheckRevision(a)
    PROVE  Inv'
  <1>1. attempt[a].pc \in Owning BY DEF CheckRevision, Is, Owning, Gating
  <1>2. HashesKept /\ ClaimsKept BY Untouched DEF CheckRevision, ledgerVars
  <1>3. attempt' \in [Attempts -> Attempt] /\ AttemptsFit'
    BY <1>1, <1>2, GateNames, GotoStep, DriftedStep DEF CheckRevision
  <1> QED BY <1>3, PureStep DEF CheckRevision

LEMMA CheckScopeKeepsInv ==
    ASSUME Inv, NEW a \in Attempts, CheckScope(a)
    PROVE  Inv'
  <1>1. attempt[a].pc \in Owning BY DEF CheckScope, Is, Owning, Gating
  <1>2. HashesKept /\ ClaimsKept BY Untouched DEF CheckScope, ledgerVars
  <1>3. attempt' \in [Attempts -> Attempt] /\ AttemptsFit'
    BY <1>1, <1>2, GateNames, GotoStep, ThrowStep DEF CheckScope
  <1> QED BY <1>3, PureStep DEF CheckScope

LEMMA CheckContendersKeepsInv ==
    ASSUME Inv, NEW a \in Attempts, CheckContenders(a)
    PROVE  Inv'
  <1>1. attempt[a].pc \in Owning BY DEF CheckContenders, Is, Owning, Gating
  <1>2. HashesKept /\ ClaimsKept BY Untouched DEF CheckContenders, ledgerVars
  <1>3. Goto(a, "rebuild") \/ Throw(a) BY DEF CheckContenders
  <1>4. attempt' \in [Attempts -> Attempt] /\ AttemptsFit'
    BY <1>1, <1>2, <1>3, GateNames, GotoStep, ThrowStep
  <1> QED BY <1>4, PureStep DEF CheckContenders

\* The live payload's production batches are within what the attempt claims:
\* a claim it saw free is free, or has been taken by the one who holds it now.
LEMMA CheckPayloadKeepsInv ==
    ASSUME Inv, NEW a \in Attempts, CheckPayload(a)
    PROVE  Inv'
  <1>1. attempt[a].pc = "rebuild" BY DEF CheckPayload, Is
  <1>2. attempt[a].pc \in Owning BY <1>1, GateNames
  <1>3. HashesKept /\ ClaimsKept BY Untouched DEF CheckPayload, ledgerVars
  <1>4. UNCHANGED <<ledger, claimed>> BY DEF CheckPayload, ledgerVars
  <1>5. CASE LivePayload(attempt[a].rem) = attempt[a].hash
    <2> DEFINE q == [attempt[a] EXCEPT !.pc = "reserve"]
    <2>1. attempt \in [Attempts -> Attempt] /\ Fits(attempt[a], ledger, claimed)
      BY DEF Inv, TypeOK, AttemptsFit
    <2>2. /\ q \in Attempt /\ q.pc = "reserve" /\ q.ver = attempt[a].ver
          /\ q.rem = attempt[a].rem /\ q.seen = attempt[a].seen
          /\ q.hash = attempt[a].hash
      BY <2>1, StepNames, GateNames DEF Attempt
    <2>3. attempt' = [attempt EXCEPT ![a] = q]
      BY <1>5, <2>1 DEF CheckPayload, Goto
    <2>4. \A b \in attempt[a].hash.prod :
              b \in Members[attempt[a].rem] /\ claimed[b] \in {None, attempt[a].rem}
      BY <1>5 DEF LivePayload, ProductionBatches, IncludesProduction
    <2>5. attempt[a].rem \in Removals BY <2>1 DEF Attempt
    <2>6. \A b \in Members[attempt[a].rem] : b \in Batches
      BY <2>5, MembersAssumption
    <2> HIDE DEF q
    <2>7. Fits(q, ledger', claimed')
      BY <1>1, <1>2, <1>4, <2>1, <2>2, <2>4, <2>6, StepNames DEF Fits
    <2>8. attempt' \in [Attempts -> Attempt] /\ AttemptsFit'
      BY <1>3, <2>2, <2>3, <2>7, AttemptStep
    <2> QED BY <2>8, PureStep DEF CheckPayload
  <1>6. CASE LivePayload(attempt[a].rem) # attempt[a].hash
    <2>1. Drifted(a) BY <1>6 DEF CheckPayload
    <2>2. attempt' \in [Attempts -> Attempt] /\ AttemptsFit'
      BY <1>2, <1>3, <2>1, DriftedStep
    <2> QED BY <2>2, PureStep DEF CheckPayload
  <1> QED BY <1>5, <1>6

LEMMA ReleaseType ==
    ASSUME LedgerTypeOK, NEW s, Release(s)
    PROVE  reserved' \in [Batches -> Submissions \cup {NoSubmission}]
  BY DEF LedgerTypeOK, Release

LEMMA RetireDraftStep ==
    ASSUME Inv, NEW r \in Removals, NEW v \in Versions(r), RetireDraft(r, v)
    PROVE  /\ ledger' \in [Removals -> Seq(Rows(Payloads))]
           /\ Bounded' /\ HashesKept /\ NoNewSubmitted
           /\ reserved' \in [Batches -> Submissions \cup {NoSubmission}]
  <1> DEFINE row == [ledger[r][v] EXCEPT !.status = "superseded",
                       !.lockedAt = NoLock]
  <1>1. LedgerTypeOK BY DEF Inv, TypeOK
  <1>2. CASE ledger[r][v].status = "draft"
    <2>1. WriteRow(r, v, row) /\ Release([rem |-> r, ver |-> v])
      BY <1>2 DEF RetireDraft
    <2>2. ledger[r][v] \in Rows(Payloads) BY RowType
    <2>3. /\ row \in Rows(Payloads) /\ row.hash = ledger[r][v].hash
          /\ row.status = "superseded"
      BY <2>2 DEF Rows, Statuses, NoLock, Locks
    <2> HIDE DEF row
    <2> QED BY <1>1, <2>1, <2>3, RowStep, ReleaseType
  <1>3. CASE ledger[r][v].status # "draft"
    <2>1. UNCHANGED <<ledger, reserved>> BY <1>3 DEF RetireDraft
    <2> QED BY <1>1, <2>1, LedgerUntouched DEF LedgerTypeOK
  <1> QED BY <1>2, <1>3

LEMMA RetireKeepsInv ==
    ASSUME Inv, NEW a \in Attempts, Retire(a)
    PROVE  Inv'
  <1>1. attempt[a].pc \in Owning BY GateNames DEF Retire, Is
  <1>2. UNCHANGED <<clock, content, claimed, locker, registry, wire>>
    BY DEF Retire
  <1>3. attempt[a].rem \in Removals /\ attempt[a].ver \in Versions(attempt[a].rem)
    BY <1>1, OwnerFacts
  <1>4. RetireDraft(attempt[a].rem, attempt[a].ver) /\ Throw(a) BY DEF Retire
  <1>5. /\ ledger' \in [Removals -> Seq(Rows(Payloads))]
        /\ Bounded' /\ HashesKept /\ NoNewSubmitted
        /\ reserved' \in [Batches -> Submissions \cup {NoSubmission}]
    BY <1>3, <1>4, RetireDraftStep
  <1>6. ClaimsKept BY <1>2 DEF ClaimsKept
  <1>7. attempt' \in [Attempts -> Attempt] /\ AttemptsFit'
    BY <1>1, <1>4, <1>5, <1>6, ThrowStep
  <1>8. LedgerTypeOK' BY <1>2, <1>5 DEF Inv, TypeOK, LedgerTypeOK
  <1> QED BY <1>2, <1>5, <1>6, <1>7, <1>8, FullStep

LEMMA ReserveClaimsKeepsInv ==
    ASSUME Inv, NEW a \in Attempts, ReserveClaims(a)
    PROVE  Inv'
  <1>1. attempt[a].pc = "reserve" BY DEF ReserveClaims, Is
  <1>2. attempt[a].pc \in Owning /\ attempt[a].pc \in Checked
    BY <1>1, GateNames
  <1>3. UNCHANGED <<clock, content, ledger, claimed, locker, registry, wire>>
    BY DEF ReserveClaims
  <1>4. HashesKept /\ ClaimsKept BY <1>3, Untouched
  <1>5. registry' \in [References -> Seq(BOOLEAN)] /\ wire' \subseteq Requests
    BY <1>3 DEF Inv, TypeOK
  <1>6. reserved \in [Batches -> Submissions \cup {NoSubmission}]
    BY DEF Inv, TypeOK, LedgerTypeOK
  <1>7. CASE CanReserve(Submission(a), ClaimBatches(a))
    <2> DEFINE next == IF attempt[a].resumed THEN "lookup" ELSE "post"
               prev == IF attempt[a].resumed
                   THEN ResumedPrevious(attempt[a].rem, attempt[a].ver)
                   ELSE attempt[a].prev
               q == [attempt[a] EXCEPT !.pc = next, !.kind = "inputs",
                       !.prev = prev]
    <2>1. attempt \in [Attempts -> Attempt] /\ attempt[a] \in Attempt
      BY DEF Inv, TypeOK
    <2>2. /\ Reserve(Submission(a), ClaimBatches(a))
          /\ attempt' = [attempt EXCEPT ![a] = q]
      BY <1>7, <2>1 DEF ReserveClaims
    <2>3. reserved' \in [Batches -> Submissions \cup {NoSubmission}]
      BY <1>2, <1>6, <2>2, OwnerFacts DEF Reserve
    <2>4. next \in Sending BY GateNames
    <2>5. prev \in Nat
      <3>1. attempt[a].prev \in Nat BY <2>1 DEF Attempt
      <3>2. ledger[attempt[a].rem][attempt[a].ver].prev \in Nat
        BY <1>2, OwnerFacts DEF Row, Rows
      <3>3. PreviousActive(attempt[a].rem, attempt[a].ver) \in Nat
        <4> DEFINE active == {u \in 1 .. (attempt[a].ver - 1) :
                ledger[attempt[a].rem][u].status \in ActiveStatuses}
                   latest(u) == \A w \in active : w <= u
        <4>1. attempt[a].ver \in Nat BY <2>1 DEF Attempt
        <4>2. CASE active = {} BY <4>2 DEF PreviousActive
        <4>3. CASE active # {}
          <5> DEFINE top == CHOOSE u \in active : latest(u)
          <5>1. \E u \in active : latest(u)
            BY <4>1, <4>3, LatestExists
          <5>2. top \in active BY <5>1
          <5>3. PreviousActive(attempt[a].rem, attempt[a].ver) = top
            BY <4>3 DEF PreviousActive
          <5> HIDE DEF top
          <5>4. top \in 1 .. (attempt[a].ver - 1) BY <5>2
          <5>5. top \in Nat BY <4>1, <5>4
          <5> QED BY <5>3, <5>5
        <4> QED BY <4>2, <4>3
      <3> QED BY <3>1, <3>2, <3>3 DEF ResumedPrevious
    <2> HIDE DEF q
    <2>6. PICK pc \in Sending, prior \in Nat : attempt' = [attempt EXCEPT ![a] =
              [attempt[a] EXCEPT !.pc = pc, !.kind = "inputs", !.prev = prior]]
      BY <2>2, <2>4, <2>5 DEF q
    <2> DEFINE new == [attempt[a] EXCEPT !.pc = pc, !.kind = "inputs",
                         !.prev = prior]
    <2>7. /\ new \in Attempt /\ new.pc = pc /\ new.ver = attempt[a].ver
          /\ new.rem = attempt[a].rem /\ new.seen = attempt[a].seen
          /\ new.hash = attempt[a].hash
      BY <2>1, StepNames, GateNames DEF Attempt, Kinds
    <2> HIDE DEF new
    <2>8. attempt' \in [Attempts -> Attempt] /\ AttemptsFit'
      BY <1>2, <1>4, <2>6, <2>7, GateNames, OwningStep DEF new
    <2> QED BY <1>3, <1>5, <2>3, <2>8, QuietStep
  <1>8. CASE ~CanReserve(Submission(a), ClaimBatches(a))
    <2>1. Throw(a) /\ UNCHANGED reserved BY <1>8 DEF ReserveClaims
    <2>2. attempt' \in [Attempts -> Attempt] /\ AttemptsFit'
      BY <1>2, <1>4, <2>1, ThrowStep
    <2> QED BY <1>3, <1>5, <1>6, <2>1, <2>2, QuietStep
  <1> QED BY <1>7, <1>8

-----------------------------------------------------------------------------
(* Registry calls keep the invariant.                                      *)

\* The attempt's record exists: its id is noted, and nothing else moves.
LEMMA ConfirmedStep ==
    ASSUME Inv, HashesKept, ClaimsKept, NEW a \in Attempts,
           attempt[a].pc \in Sending, NEW id \in Nat, Confirmed(a, id)
    PROVE  attempt' \in [Attempts -> Attempt] /\ AttemptsFit'
  <1>1. attempt \in [Attempts -> Attempt] /\ attempt[a] \in Attempt
    BY DEF Inv, TypeOK
  <1>2. PICK ext \in Nat : attempt' = [attempt EXCEPT ![a] =
            [attempt[a] EXCEPT !.pc = "confirm", !.mutation = "confirmed",
               !.ext = ext]]
    <2>1. attempt[a].ext \in Nat BY <1>1 DEF Attempt
    <2> QED BY <1>1, <2>1 DEF Confirmed
  <1> DEFINE q == [attempt[a] EXCEPT !.pc = "confirm",
                     !.mutation = "confirmed", !.ext = ext]
  <1>3. /\ q \in Attempt /\ q.pc = "confirm" /\ q.ver = attempt[a].ver
        /\ q.rem = attempt[a].rem /\ q.seen = attempt[a].seen
        /\ q.hash = attempt[a].hash
    BY <1>1, StepNames, GateNames DEF Attempt
  <1> HIDE DEF q
  <1>4. attempt' = [attempt EXCEPT ![a] = q] BY <1>2 DEF q
  <1> QED BY <1>3, <1>4, GateNames, OwningStep

\* The attempt's own marker advances.
LEMMA MutationStep ==
    ASSUME Inv, HashesKept, ClaimsKept, NEW a \in Attempts,
           attempt[a].pc \in Owning, NEW pc \in Owning,
           pc \in Checked => attempt[a].pc \in Checked,
           NEW mutation \in {"none", "possible", "confirmed"},
           attempt' = [attempt EXCEPT ![a] =
               [attempt[a] EXCEPT !.pc = pc, !.mutation = mutation]]
    PROVE  attempt' \in [Attempts -> Attempt] /\ AttemptsFit'
  <1> DEFINE q == [attempt[a] EXCEPT !.pc = pc, !.mutation = mutation]
  <1>1. attempt[a] \in Attempt BY DEF Inv, TypeOK
  <1>2. /\ q \in Attempt /\ q.pc = pc /\ q.ver = attempt[a].ver
        /\ q.rem = attempt[a].rem /\ q.seen = attempt[a].seen
        /\ q.hash = attempt[a].hash
    BY <1>1, StepNames DEF Attempt
  <1> HIDE DEF q
  <1>3. attempt' = [attempt EXCEPT ![a] = q] BY DEF q
  <1> QED BY <1>2, <1>3, OwningStep

LEMMA AdvanceType ==
    ASSUME Inv, NEW a \in Attempts, NEW new \in {"possible", "confirmed"}
    PROVE  Advance(attempt[a].mutation, new) \in {"none", "possible", "confirmed"}
  <1>1. attempt[a] \in Attempt BY DEF Inv, TypeOK
  <1> QED BY <1>1 DEF Advance, Attempt

LEMMA CreateRecordType ==
    ASSUME Inv, NEW ref \in References, CreateRecord(ref)
    PROVE  registry' \in [References -> Seq(BOOLEAN)] /\ NewId(ref) \in Nat
  <1> DEFINE records == Append(registry[ref], TRUE)
  <1>1. /\ registry \in [References -> Seq(BOOLEAN)]
        /\ registry[ref] \in Seq(BOOLEAN)
    BY DEF Inv, TypeOK
  <1>2. registry' = [registry EXCEPT ![ref] = records] BY DEF CreateRecord
  <1>3. records \in Seq(BOOLEAN) BY <1>1, AppendProperties
  <1>4. NewId(ref) \in Nat BY <1>1, LenProperties DEF NewId
  <1> HIDE DEF records
  <1> QED BY <1>1, <1>2, <1>3, <1>4

LEMMA MatchesAreIds ==
    ASSUME Inv, NEW ref \in References
    PROVE  Matches(ref) \subseteq Nat
  <1>1. registry[ref] \in Seq(BOOLEAN) BY DEF Inv, TypeOK
  <1>2. DOMAIN registry[ref] \subseteq Nat BY <1>1, LenProperties
  <1> QED BY <1>2 DEF Matches

LEMMA LookupKeepsInv ==
    ASSUME Inv, NEW a \in Attempts,
           LookupFound(a) \/ LookupNone(a) \/ LookupFails(a)
    PROVE  Inv'
  <1>1. attempt[a].pc \in Sending /\ attempt[a].pc \in Owning
    BY GateNames DEF LookupFound, LookupNone, LookupFails, Is
  <1>2. UNCHANGED <<ledgerVars, registry, wire>>
    BY DEF LookupFound, LookupNone, LookupFails
  <1>3. HashesKept /\ ClaimsKept BY <1>2, Untouched DEF ledgerVars
  <1>4. attempt \in [Attempts -> Attempt] BY DEF Inv, TypeOK
  <1>5. CASE LookupFound(a)
    <2>1. PICK id \in Matches(Reference(a)) : Confirmed(a, id)
      BY <1>5 DEF LookupFound
    <2>2. id \in Nat BY <1>1, MatchesAreIds, OwnerFacts
    <2> QED BY <1>1, <1>2, <1>3, <2>1, <2>2, ConfirmedStep, PureStep
  <1>6. CASE LookupNone(a)
    <2>1. Goto(a, "post") BY <1>6 DEF LookupNone
    <2> QED BY <1>1, <1>2, <1>3, <2>1, GateNames, GotoStep, PureStep
  <1>7. CASE LookupFails(a)
    <2> DEFINE mutation == Advance(attempt[a].mutation, "possible")
    <2>1. attempt' = [attempt EXCEPT ![a] =
              [attempt[a] EXCEPT !.pc = "fail", !.mutation = mutation]]
      BY <1>4, <1>7 DEF LookupFails, ThrowWith
    <2>2. mutation \in {"none", "possible", "confirmed"} BY AdvanceType
    <2> HIDE DEF mutation
    <2>3. attempt' \in [Attempts -> Attempt] /\ AttemptsFit'
      BY <1>1, <1>3, <2>1, <2>2, GateNames, MutationStep
    <2> QED BY <1>2, <2>3, PureStep
  <1> QED BY <1>5, <1>6, <1>7

LEMMA PostKeepsInv ==
    ASSUME Inv, NEW a \in Attempts,
           PostAnswered(a) \/ PostRefused(a) \/ PostUnanswered(a)
    PROVE  Inv'
  <1>1. attempt[a].pc \in Sending /\ attempt[a].pc \in Owning
    BY GateNames DEF PostAnswered, PostRefused, PostUnanswered, Is
  <1>2. UNCHANGED ledgerVars
    BY DEF PostAnswered, PostRefused, PostUnanswered
  <1>3. HashesKept /\ ClaimsKept BY <1>2, Untouched DEF ledgerVars
  <1>4. /\ attempt \in [Attempts -> Attempt] /\ attempt[a] \in Attempt
        /\ wire \subseteq Requests /\ registry \in [References -> Seq(BOOLEAN)]
        /\ reserved \in [Batches -> Submissions \cup {NoSubmission}]
    BY DEF Inv, TypeOK, LedgerTypeOK
  <1>5. Reference(a) \in References BY <1>1, OwnerFacts
  <1>6. CASE PostAnswered(a)
    <2>1. /\ CreateRecord(Reference(a)) /\ UNCHANGED wire
          /\ Confirmed(a, NewId(Reference(a)))
      BY <1>6 DEF PostAnswered
    <2>2. /\ registry' \in [References -> Seq(BOOLEAN)]
          /\ NewId(Reference(a)) \in Nat
      BY <1>5, <2>1, CreateRecordType
    <2>3. attempt' \in [Attempts -> Attempt] /\ AttemptsFit'
      BY <1>1, <1>3, <2>1, <2>2, ConfirmedStep
    <2> QED BY <1>2, <1>4, <2>1, <2>2, <2>3, QuietStep DEF ledgerVars
  <1>7. CASE PostRefused(a)
    <2>1. Goto(a, "answer") /\ UNCHANGED <<ledgerVars, registry, wire>>
      BY <1>7 DEF PostRefused
    <2> QED BY <1>1, <1>3, <2>1, GateNames, GotoStep, PureStep
  <1>8. CASE PostUnanswered(a)
    <2> DEFINE mutation == Advance(attempt[a].mutation, "possible")
               req == [ref |-> Reference(a), lock |-> attempt[a].stamp]
    <2>1. /\ attempt' = [attempt EXCEPT ![a] =
                [attempt[a] EXCEPT !.pc = "answer", !.mutation = mutation]]
          /\ \/ UNCHANGED <<registry, wire>>
             \/ CreateRecord(Reference(a)) /\ UNCHANGED wire
             \/ wire' = wire \cup {req} /\ UNCHANGED registry
      BY <1>4, <1>8 DEF PostUnanswered
    <2>2. mutation \in {"none", "possible", "confirmed"} BY AdvanceType
    <2> HIDE DEF mutation
    <2>3. attempt' \in [Attempts -> Attempt] /\ AttemptsFit'
      BY <1>1, <1>3, <2>1, <2>2, GateNames, MutationStep
    <2>4. req \in Requests BY <1>4, <1>5 DEF Requests, Attempt
    <2>5. registry' \in [References -> Seq(BOOLEAN)] /\ wire' \subseteq Requests
      BY <1>4, <1>5, <2>1, <2>4, CreateRecordType
    <2> QED BY <1>2, <1>4, <2>3, <2>5, QuietStep DEF ledgerVars
  <1> QED BY <1>6, <1>7, <1>8

LEMMA ReconcileKeepsInv ==
    ASSUME Inv, NEW a \in Attempts, Reconcile(a)
    PROVE  Inv'
  <1>1. attempt[a].pc \in Sending /\ attempt[a].pc \in Owning
    BY GateNames DEF Reconcile, Is
  <1>2. UNCHANGED <<ledgerVars, registry, wire>> BY DEF Reconcile
  <1>3. HashesKept /\ ClaimsKept BY <1>2, Untouched DEF ledgerVars
  <1>4. Matches(Reference(a)) \subseteq Nat
    BY <1>1, MatchesAreIds, OwnerFacts
  <1>5. CASE \E id \in Matches(Reference(a)) : Confirmed(a, id)
    <2>1. attempt' \in [Attempts -> Attempt] /\ AttemptsFit'
      BY <1>1, <1>3, <1>4, <1>5, ConfirmedStep
    <2> QED BY <1>2, <2>1, PureStep
  <1>6. CASE Throw(a)
    <2>1. attempt' \in [Attempts -> Attempt] /\ AttemptsFit'
      BY <1>1, <1>3, <1>6, ThrowStep
    <2> QED BY <1>2, <2>1, PureStep
  <1>7. (\E id \in Matches(Reference(a)) : Confirmed(a, id)) \/ Throw(a)
    BY DEF Reconcile
  <1> QED BY <1>5, <1>6, <1>7

LEMMA ConfirmKeepsInv ==
    ASSUME Inv, NEW a \in Attempts, Confirm(a)
    PROVE  Inv'
  <1> DEFINE r == attempt[a].rem
             v == attempt[a].ver
  <1>1. attempt[a].pc \in Sending /\ attempt[a].pc \in Owning
    BY GateNames DEF Confirm, Is
  <1>2. /\ attempt[a] \in Attempt /\ r \in Removals /\ v \in Versions(r)
        /\ ledger[r][v] \in Rows(Payloads) /\ attempt[a].ext \in Nat
    BY <1>1, OwnerFacts DEF Row, Attempt
  <1>3. UNCHANGED <<clock, content, claimed, reserved, locker, registry, wire>>
    BY DEF Confirm
  <1>4. attempt \in [Attempts -> Attempt] /\ LedgerTypeOK BY DEF Inv, TypeOK
  <1>5. ClaimsKept BY <1>3 DEF ClaimsKept
  <1>6. CASE attempt[a].kind = "inputs"
    <2> DEFINE next == NextAfterInputs(a)
               q == [attempt[a] EXCEPT !.kind = "entry", !.pc = next]
    <2>1. attempt' = [attempt EXCEPT ![a] = q] /\ UNCHANGED ledger
      BY <1>4, <1>6 DEF Confirm
    <2>2. next \in {"verify", "lookup", "post"} BY DEF NextAfterInputs
    <2> HIDE DEF next
    <2>3. /\ q \in Attempt /\ q.pc = next /\ q.ver = attempt[a].ver
          /\ q.rem = attempt[a].rem /\ q.seen = attempt[a].seen
          /\ q.hash = attempt[a].hash
      <3>1. next \in Steps BY <2>2, StepNames, GateNames
      <3>2. "entry" \in Kinds BY DEF Kinds
      <3> QED BY <1>2, <3>1, <3>2 DEF Attempt
    <2> HIDE DEF q
    <2>4. next \in Owning \cap Checked /\ attempt[a].pc \in Checked
      BY <1>1, <2>2, GateNames
    <2>5. HashesKept BY <1>3, <2>1, Untouched
    <2>6. attempt' \in [Attempts -> Attempt] /\ AttemptsFit'
      BY <1>1, <1>5, <2>1, <2>3, <2>4, <2>5, OwningStep
    <2> QED BY <1>3, <2>1, <2>6, PureStep DEF ledgerVars
  <1>7. CASE attempt[a].kind = "entry" /\ HoldsLock(r, v, attempt[a].stamp)
    <2> DEFINE row == [ledger[r][v] EXCEPT !.ext = attempt[a].ext,
                         !.mutation = "confirmed"]
    <2>1. WriteRow(r, v, row) /\ Goto(a, "verify")
      BY <1>7 DEF Confirm, RecordIdentity
    <2>2. /\ row \in Rows(Payloads) /\ row.hash = ledger[r][v].hash
          /\ row.status = ledger[r][v].status
      BY <1>2 DEF Rows, Mutations
    <2> HIDE DEF row
    <2>3. /\ ledger' \in [Removals -> Seq(Rows(Payloads))]
          /\ Bounded' /\ HashesKept /\ NoNewSubmitted
      BY <1>2, <2>1, <2>2, RowStep
    <2>4. attempt' \in [Attempts -> Attempt] /\ AttemptsFit'
      BY <1>1, <1>5, <2>1, <2>3, GateNames, GotoStep
    <2>5. LedgerTypeOK' BY <1>3, <1>4, <2>3 DEF LedgerTypeOK
    <2> QED BY <1>3, <1>5, <2>3, <2>4, <2>5, FullStep
  <1>8. CASE ~(attempt[a].kind = "inputs") /\
             ~(attempt[a].kind = "entry" /\ HoldsLock(r, v, attempt[a].stamp))
    <2>1. Throw(a) /\ UNCHANGED ledger BY <1>8 DEF Confirm
    <2>2. attempt' \in [Attempts -> Attempt] /\ AttemptsFit'
      BY <1>1, <1>3, <2>1, ThrowStep, Untouched
    <2> QED BY <1>3, <2>1, <2>2, PureStep DEF ledgerVars
  <1> QED BY <1>6, <1>7, <1>8

-----------------------------------------------------------------------------
(* Finishing keeps the invariant.                                          *)

LEMMA VerifyKeepsInv ==
    ASSUME Inv, NEW a \in Attempts, Verify(a)
    PROVE  Inv'
  <1>1. attempt[a].pc \in Owning \cap Checked BY GateNames DEF Verify, Is
  <1>2. UNCHANGED <<ledgerVars, registry, wire>> BY DEF Verify
  <1>3. HashesKept /\ ClaimsKept BY <1>2, Untouched DEF ledgerVars
  <1>4. attempt \in [Attempts -> Attempt] BY DEF Inv, TypeOK
  <1>5. attempt' = [attempt EXCEPT ![a] =
            [attempt[a] EXCEPT !.pc = "finalize", !.mutation = "confirmed"]]
    BY <1>4 DEF Verify
  <1>6. attempt' \in [Attempts -> Attempt] /\ AttemptsFit'
    BY <1>1, <1>3, <1>5, GateNames, MutationStep
  <1> QED BY <1>2, <1>6, PureStep

LEMMA FailStepKeepsInv ==
    ASSUME Inv, NEW a \in Attempts, FailStep(a)
    PROVE  Inv'
  <1>1. attempt[a].pc \in Owning BY GateNames DEF FailStep
  <1>2. UNCHANGED <<ledgerVars, registry, wire>> /\ Throw(a) BY DEF FailStep
  <1>3. HashesKept /\ ClaimsKept BY <1>2, Untouched DEF ledgerVars
  <1> QED BY <1>1, <1>2, <1>3, ThrowStep, PureStep

\* Finalization claims every batch whose production the payload includes.
LEMMA FinalizeSubmissionKeepsInv ==
    ASSUME Inv, NEW a \in Attempts, FinalizeSubmission(a)
    PROVE  Inv'
  <1> DEFINE s == Submission(a)
             batches == ClaimBatches(a)
             r == attempt[a].rem
             v == attempt[a].ver
  <1>1. attempt[a].pc \in Owning /\ attempt[a].pc \in Checked
    BY GateNames DEF FinalizeSubmission, Is
  <1>2. /\ attempt[a] \in Attempt /\ r \in Removals /\ v \in Versions(r)
        /\ attempt[a].ext \in Nat /\ batches \in SUBSET Batches
        /\ s = [rem |-> r, ver |-> v]
    BY <1>1, OwnerFacts DEF Attempt, Submission
  <1>3. UNCHANGED <<clock, content, locker, registry, wire>>
    BY DEF FinalizeSubmission
  <1>4. LedgerTypeOK /\ Fits(attempt[a], ledger, claimed)
    BY DEF Inv, TypeOK, AttemptsFit
  <1>5. CASE CanFinalize(s, attempt[a].stamp, batches)
    <2>1. /\ Finalize([rem |-> r, ver |-> v], attempt[a].ext, attempt[a].prev,
                batches)
          /\ Stop(a)
      BY <1>2, <1>5 DEF FinalizeSubmission
    <2>2. /\ claimed' = [b \in Batches |-> IF b \in batches THEN r ELSE claimed[b]]
          /\ reserved' = [b \in Batches |->
                IF b \in batches THEN NoSubmission ELSE reserved[b]]
      BY <2>1 DEF Finalize
    <2>3. /\ ledger' \in [Removals -> Seq(Rows(Payloads))]
          /\ \A q \in Removals : Len(ledger'[q]) = Len(ledger[q])
          /\ \A q \in Removals : \A u \in Versions(q) :
                /\ ledger'[q][u].hash = ledger[q][u].hash
                /\ ledger'[q][u].status = "submitted" =>
                     \/ q = r /\ u = v
                     \/ ledger[q][u].status = "submitted"
      BY <1>2, <1>4, <2>1, FinalizeEffect
    <2>4. HashesKept BY <2>3 DEF HashesKept, Versions
    <2>5. Bounded' BY <2>3 DEF Inv, Bounded
    <2>6. \A b \in batches : claimed[b] \in {None, r}
      BY <1>2, <1>5 DEF CanFinalize
    <2>7. ClaimsKept BY <2>2, <2>6 DEF ClaimsKept
    <2>8. attempt' \in [Attempts -> Attempt] /\ AttemptsFit'
      BY <2>1, <2>4, <2>7, StopStep
    <2>9. LedgerTypeOK'
      BY <1>2, <1>3, <1>4, <2>2, <2>3 DEF LedgerTypeOK
    <2>10. \A b \in ledger[r][v].hash.prod : b \in batches
      BY <1>1, <1>4 DEF Fits, ClaimBatches, IncludesProduction
    <2>11. SubmittedOwnsItsProduction'
      <3> SUFFICES ASSUME NEW t \in SubmissionIds',
                          RowOf(t)'.status = "submitted",
                          NEW b \in RowOf(t)'.hash.prod
                   PROVE  claimed'[b] = t.rem
        BY DEF SubmittedOwnsItsProduction
      <3>1. /\ t \in SubmissionIds /\ t.rem \in Removals
            /\ t.ver \in Versions(t.rem) /\ RowOf(t)'.hash = RowOf(t).hash
        BY <2>3 DEF SubmissionIds, RowOf, Versions
      <3>2. b \in Batches
        BY <3>1, RowType DEF RowOf, Rows, Payloads
      <3>3. CASE t.rem = r /\ t.ver = v
        BY <2>2, <2>10, <3>1, <3>2, <3>3 DEF RowOf
      <3>4. CASE ~(t.rem = r /\ t.ver = v)
        <4>1. RowOf(t).status = "submitted" BY <2>3, <3>1, <3>4 DEF RowOf
        <4>2. claimed[b] = t.rem
          BY <3>1, <4>1 DEF Inv, SubmittedOwnsItsProduction
        <4> QED BY <2>7, <3>1, <3>2, <4>2, NoneAssumption DEF ClaimsKept
      <3> QED BY <3>3, <3>4
    <2> QED BY <1>3, <2>5, <2>8, <2>9, <2>11 DEF Inv, TypeOK
  <1>6. CASE ~CanFinalize(s, attempt[a].stamp, batches)
    <2>1. Throw(a) /\ UNCHANGED <<ledger, claimed, reserved>>
      BY <1>6 DEF FinalizeSubmission
    <2> QED BY <1>1, <1>3, <2>1, ThrowStep, Untouched, PureStep DEF ledgerVars
  <1> QED BY <1>5, <1>6

LEMMA RejectAndReleaseStep ==
    ASSUME Inv, NEW r \in Removals, NEW v \in Versions(r), NEW stamp,
           RejectAndRelease(r, v, stamp)
    PROVE  /\ ledger' \in [Removals -> Seq(Rows(Payloads))]
           /\ Bounded' /\ HashesKept /\ NoNewSubmitted
           /\ reserved' \in [Batches -> Submissions \cup {NoSubmission}]
  <1> DEFINE row == [ledger[r][v] EXCEPT !.status = "rejected",
                       !.lockedAt = NoLock, !.outcome = "none",
                       !.mutation = "unset"]
  <1>1. LedgerTypeOK /\ ledger[r][v] \in Rows(Payloads)
    BY RowType DEF Inv, TypeOK
  <1>2. /\ row \in Rows(Payloads) /\ row.hash = ledger[r][v].hash
        /\ row.status = "rejected"
    BY <1>1 DEF Rows, Statuses, Outcomes, Mutations, NoLock, Locks
  <1>3. /\ WriteRow(r, v, row) \/ UNCHANGED ledger
        /\ Release([rem |-> r, ver |-> v]) \/ UNCHANGED reserved
    BY DEF RejectAndRelease
  <1> HIDE DEF row
  <1>4. reserved' \in [Batches -> Submissions \cup {NoSubmission}]
    BY <1>1, <1>3, ReleaseType DEF LedgerTypeOK
  <1> QED BY <1>1, <1>2, <1>3, <1>4, RowStep, LedgerUntouched DEF LedgerTypeOK

LEMMA RecordFailureKeepsInv ==
    ASSUME Inv, NEW a \in Attempts, RecordFailure(a)
    PROVE  Inv'
  <1> DEFINE r == attempt[a].rem
             v == attempt[a].ver
  <1>1. attempt[a].pc \in Owning BY GateNames DEF RecordFailure, Is
  <1>2. /\ attempt[a] \in Attempt /\ r \in Removals /\ v \in Versions(r)
        /\ ledger[r][v] \in Rows(Payloads)
    BY <1>1, OwnerFacts DEF Row
  <1>3. UNCHANGED <<clock, content, claimed, locker, registry, wire>> /\ Stop(a)
    BY DEF RecordFailure
  <1>4. LedgerTypeOK BY DEF Inv, TypeOK
  <1>5. /\ ledger' \in [Removals -> Seq(Rows(Payloads))]
        /\ Bounded' /\ HashesKept /\ NoNewSubmitted
        /\ reserved' \in [Batches -> Submissions \cup {NoSubmission}]
    <2>1. CASE attempt[a].mutation = "none"
      <3>1. RejectAndRelease(r, v, attempt[a].stamp)
        BY <2>1 DEF RecordFailure
      <3> QED BY <1>2, <3>1, RejectAndReleaseStep
    <2>2. CASE attempt[a].mutation # "none"
      <3> DEFINE row == [ledger[r][v] EXCEPT !.outcome = "interrupted",
                           !.mutation = attempt[a].mutation]
      <3>1. /\ WriteRow(r, v, row) \/ UNCHANGED ledger
            /\ UNCHANGED reserved
        BY <2>2 DEF RecordFailure, MarkInterrupted
      <3>2. attempt[a].mutation \in Mutations BY <1>2 DEF Attempt, Mutations
      <3>3. /\ row \in Rows(Payloads) /\ row.hash = ledger[r][v].hash
            /\ row.status = ledger[r][v].status
        BY <1>2, <3>2 DEF Rows, Outcomes
      <3> HIDE DEF row
      <3> QED BY <1>2, <1>4, <3>1, <3>3, RowStep, LedgerUntouched
              DEF LedgerTypeOK
    <2> QED BY <2>1, <2>2
  <1>6. ClaimsKept BY <1>3 DEF ClaimsKept
  <1>7. attempt' \in [Attempts -> Attempt] /\ AttemptsFit'
    BY <1>3, <1>5, <1>6, StopStep
  <1>8. LedgerTypeOK' BY <1>3, <1>4, <1>5 DEF LedgerTypeOK
  <1> QED BY <1>3, <1>5, <1>6, <1>7, <1>8, FullStep

-----------------------------------------------------------------------------
(* The environment keeps the invariant.                                    *)

LEMMA EnvironmentKeepsInv ==
    ASSUME Inv,
           \/ \E a \in Attempts : Crash(a)
           \/ \E req \in wire : Deliver(req)
           \/ \E r \in Removals : Change(r)
           \/ Tick
    PROVE  Inv'
  <1>1. LedgerTypeOK /\ wire \subseteq Requests BY DEF Inv, TypeOK
  <1>2. ASSUME NEW a \in Attempts, Crash(a) PROVE Inv'
    <2>1. /\ UNCHANGED <<clock, content, ledger, claimed, reserved, registry, wire>>
          /\ Stop(a)
          /\ locker' \in [Removals -> Owners \cup {None}]
      BY <1>1, <1>2 DEF Crash, LedgerTypeOK
    <2>2. HashesKept /\ ClaimsKept BY <2>1, Untouched
    <2>3. attempt' \in [Attempts -> Attempt] /\ AttemptsFit'
      BY <2>1, <2>2, StopStep
    <2>4. LedgerTypeOK' BY <1>1, <2>1 DEF LedgerTypeOK
    <2> QED BY <2>1, <2>2, <2>3, <2>4, LedgerUntouched, FullStep
  <1>3. ASSUME NEW req \in wire, Deliver(req) PROVE Inv'
    <2>1. UNCHANGED <<ledgerVars, attempt>> /\ wire' = wire \ {req}
      BY <1>3 DEF Deliver
    <2>2. req.ref \in References BY <1>1 DEF Requests
    <2>3. registry' \in [References -> Seq(BOOLEAN)]
      BY <1>3, <2>2, CreateRecordType DEF Deliver, Inv, TypeOK
    <2>4. attempt' \in [Attempts -> Attempt] /\ AttemptsFit'
      BY <2>1 DEF Inv, TypeOK, AttemptsFit, ledgerVars
    <2>5. reserved' \in [Batches -> Submissions \cup {NoSubmission}]
      BY <1>1, <2>1 DEF LedgerTypeOK, ledgerVars
    <2> QED BY <1>1, <2>1, <2>3, <2>4, <2>5, QuietStep DEF ledgerVars
  <1>4. ASSUME NEW r \in Removals, Change(r) PROVE Inv'
    <2>1. /\ UNCHANGED <<clock, ledger, claimed, reserved, locker, attempt,
                         registry, wire>>
          /\ content' \in [Removals -> Content]
      BY <1>1, <1>4 DEF Change, LedgerTypeOK
    <2>2. LedgerTypeOK' BY <1>1, <2>1 DEF LedgerTypeOK
    <2>3. attempt' \in [Attempts -> Attempt] /\ AttemptsFit'
      BY <2>1 DEF Inv, TypeOK, AttemptsFit
    <2> QED BY <2>1, <2>2, <2>3, LedgerUntouched, Untouched, FullStep
  <1>5. ASSUME Tick PROVE Inv'
    <2>1. /\ UNCHANGED <<content, ledger, claimed, reserved, locker, attempt,
                         registry, wire>>
          /\ clock' \in Nat
      BY <1>1, <1>5 DEF Tick, LedgerTypeOK
    <2>2. LedgerTypeOK' BY <1>1, <2>1 DEF LedgerTypeOK
    <2>3. attempt' \in [Attempts -> Attempt] /\ AttemptsFit'
      BY <2>1 DEF Inv, TypeOK, AttemptsFit
    <2> QED BY <2>1, <2>2, <2>3, LedgerUntouched, Untouched, FullStep
  <1> QED BY <1>2, <1>3, <1>4, <1>5

-----------------------------------------------------------------------------
(* The theorems.                                                           *)

LEMMA InitEstablishesInv == Init => Inv
  <1> SUFFICES ASSUME Init PROVE Inv OBVIOUS
  <1>1. LedgerInit BY DEF Init
  <1>2. \A r \in Removals : ledger[r] = << >> BY <1>1 DEF LedgerInit
  <1>3. << >> \in Seq(Rows(Payloads)) /\ Len(<< >>) = 0 BY EmptySeq
  <1>4. LedgerTypeOK
    BY <1>1, <1>3 DEF LedgerInit, LedgerTypeOK
  <1>5. TypeOK BY <1>4, IdleType DEF Init, TypeOK
  <1>6. Bounded BY <1>2, <1>3, BoundsAssumption DEF Bounded
  <1>7. AttemptsFit BY IdleType, StepNames DEF Init, AttemptsFit, Fits
  <1>8. SubmittedOwnsItsProduction
    BY <1>2, <1>3 DEF SubmittedOwnsItsProduction, SubmissionIds, Versions
  <1> QED BY <1>5, <1>6, <1>7, <1>8 DEF Inv

LEMMA StepKeepsInv ==
    ASSUME Inv, NEW a \in Attempts, Step(a)
    PROVE  Inv'
  BY LoadKeepsInv, RouteKeepsInv, CreateDraftKeepsInv, DecideResumeKeepsInv,
     ResetDraftKeepsInv, CheckRevisionKeepsInv, CheckScopeKeepsInv,
     CheckContendersKeepsInv, CheckPayloadKeepsInv, RetireKeepsInv,
     ReserveClaimsKeepsInv, LookupKeepsInv, PostKeepsInv, ReconcileKeepsInv,
     ConfirmKeepsInv, VerifyKeepsInv, FinalizeSubmissionKeepsInv,
     FailStepKeepsInv, RecordFailureKeepsInv
  DEF Step

LEMMA NextKeepsInv == Inv /\ [Next]_vars => Inv'
  <1> SUFFICES ASSUME Inv, [Next]_vars PROVE Inv' OBVIOUS
  <1>1. CASE Next BY <1>1, StepKeepsInv, EnvironmentKeepsInv DEF Next
  <1>2. CASE UNCHANGED vars
    <2>1. UNCHANGED <<ledgerVars, registry, wire, attempt>>
      BY <1>2 DEF vars, ledgerVars
    <2>2. attempt' \in [Attempts -> Attempt] /\ AttemptsFit'
      BY <2>1 DEF Inv, TypeOK, AttemptsFit, ledgerVars
    <2> QED BY <2>1, <2>2, PureStep
  <1> QED BY <1>1, <1>2

(* The inductive invariant holds in every behaviour.                       *)
THEOREM Invariance == Spec => []Inv
  BY InitEstablishesInv, NextKeepsInv, PTL DEF Spec

(* Every value the pipeline writes to the ledger, the claims and the       *)
(* registry journal has the shape its columns and callers expect.          *)
THEOREM TypeCorrectness == Spec => []TypeOK
  <1>1. Inv => TypeOK BY DEF Inv
  <1> QED BY <1>1, Invariance, PTL

(* Whenever a Removal's submission is finalized, with any number of        *)
(* Removals, batches, attempts, crashes, late requests and edits, the      *)
(* production batches in the payload it sent are claimed by that Removal:  *)
(* markSubmissionSubmitted never finalizes a payload whose production      *)
(* belongs to somebody else.  Claims it saw free may have been taken since *)
(* the call loaded them, but the live-payload comparison and the claim     *)
(* stamps leave no gap between the two.                                    *)
THEOREM SubmittedOwnership == Spec => []SubmittedOwnsItsProduction
  <1>1. Inv => SubmittedOwnsItsProduction BY DEF Inv
  <1> QED BY <1>1, Invariance, PTL

LEMMA NextKeepsClaims == Inv /\ [Next]_vars => ClaimsKept
  <1>1. ASSUME NEW a \in Attempts, Step(a), ~FinalizeSubmission(a)
        PROVE  claimed' = claimed
    <2>1. CASE \E r \in Removals : Load(a, r) BY <2>1 DEF Load, ledgerVars
    <2>2. CASE Route(a) \/ CreateDraft(a) \/ DecideResume(a) \/ ResetDraft(a)
      BY <2>2 DEF Route, CreateDraft, DecideResume, ResetDraft, ledgerVars
    <2>3. CASE CheckRevision(a) \/ CheckScope(a) \/ CheckContenders(a)
            \/ CheckPayload(a) \/ Retire(a) \/ ReserveClaims(a)
      BY <2>3 DEF CheckRevision, CheckScope, CheckContenders, CheckPayload,
         Retire, ReserveClaims, ledgerVars
    <2>4. CASE LookupFound(a) \/ LookupNone(a) \/ LookupFails(a)
            \/ PostAnswered(a) \/ PostRefused(a) \/ PostUnanswered(a)
      BY <2>4 DEF LookupFound, LookupNone, LookupFails, PostAnswered,
         PostRefused, PostUnanswered, ledgerVars
    <2>5. CASE Reconcile(a) \/ Confirm(a) \/ Verify(a) \/ FailStep(a)
            \/ RecordFailure(a)
      BY <2>5 DEF Reconcile, Confirm, Verify, FailStep, RecordFailure, ledgerVars
    <2> QED BY <1>1, <2>1, <2>2, <2>3, <2>4, <2>5 DEF Step
  <1>2. ASSUME NEW a \in Attempts, FinalizeSubmission(a)
        PROVE  ClaimsKept
    <2>1. CASE CanFinalize(Submission(a), attempt[a].stamp, ClaimBatches(a))
      <3>1. Finalize(Submission(a), attempt[a].ext, attempt[a].prev,
                ClaimBatches(a))
        BY <1>2, <2>1 DEF FinalizeSubmission
      <3> QED BY <2>1, <3>1 DEF CanFinalize, Finalize, ClaimsKept
    <2>2. CASE ~CanFinalize(Submission(a), attempt[a].stamp, ClaimBatches(a))
      BY <1>2, <2>2 DEF FinalizeSubmission, ClaimsKept
    <2> QED BY <2>1, <2>2
  <1>3. ASSUME \/ \E a \in Attempts : Crash(a)
               \/ \E req \in wire : Deliver(req)
               \/ \E r \in Removals : Change(r)
               \/ Tick
        PROVE  claimed' = claimed
    BY <1>3 DEF Crash, Deliver, Change, Tick, ledgerVars
  <1>4. (UNCHANGED vars) => claimed' = claimed BY DEF vars
  <1>5. (claimed' = claimed) => ClaimsKept BY DEF ClaimsKept
  <1> QED BY <1>1, <1>2, <1>3, <1>4, <1>5 DEF Next

(* No submit, resume, rejection, retirement or crash takes a batch's       *)
(* production claim from the Removal that holds it, and no finalization    *)
(* hands it to another one.                                                *)
THEOREM ClaimPermanence == Spec => ClaimsArePermanent
  <1>1. Inv /\ [Next]_vars =>
            [\A b \in Batches : claimed[b] # None => claimed'[b] = claimed[b]]_vars
    BY NextKeepsClaims DEF ClaimsKept
  <1> QED BY <1>1, Invariance, PTL DEF Spec, ClaimsArePermanent
=============================================================================
