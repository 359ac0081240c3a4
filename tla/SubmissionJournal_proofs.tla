---------------------- MODULE SubmissionJournal_proofs ----------------------
(***************************************************************************)
(* What the ledger rows, the attempts and the registry say of one another  *)
(* in every behaviour of RemovalSubmission: for any number of Removals,    *)
(* batches, attempts and versions, and for every setting of its switches,  *)
(* so also when locks expire under a running attempt, when processes die   *)
(* and when requests land late.                                            *)
(*                                                                         *)
(* The inductive invariant Journal says which rows the ledger can hold     *)
(* (RowsSound: the latest version alone is a draft, and a row's external   *)
(* id is one the registry gave out under that row's own reference) and how *)
(* an attempt's local variables agree with them (AttemptsSound: the id it  *)
(* carries was given out under its reference, and past its gates it        *)
(* remembers which version its own replaces).                              *)
(*                                                                         *)
(* The Move lemmas state each action as a change of named fields; the      *)
(* proofs here and in the modules that extend this one start from them.    *)
(***************************************************************************)
EXTENDS RemovalSubmission_proofs

-----------------------------------------------------------------------------
(* What an attempt names, and what a step does to it.                      *)

Named ==
    \A a \in Attempts : attempt[a].pc \in Owning \cup {"resetting"} =>
        attempt[a].ver \in Versions(attempt[a].rem)

Typed == TypeOK /\ Bounded /\ Named

SameClaim(p, q) ==
    /\ q.rem = p.rem /\ q.ver = p.ver /\ q.hash = p.hash
    /\ q.stamp = p.stamp /\ q.seen = p.seen /\ q.resumed = p.resumed

\* The attempt keeps what it claimed, and its progress is as given.
Becomes(a, pc, mutation, prev, kind, ext) ==
    \E q \in Attempt :
        /\ attempt' = [attempt EXCEPT ![a] = q]
        /\ SameClaim(attempt[a], q)
        /\ q.pc = pc /\ q.mutation = mutation /\ q.prev = prev
        /\ q.kind = kind /\ q.ext = ext

\* Only the attempt's place in the code changes.
Advances(a, pc) ==
    Becomes(a, pc, attempt[a].mutation, attempt[a].prev, attempt[a].kind,
            attempt[a].ext)

LEMMA InvTyped == Inv => Typed
  BY DEF Inv, Typed, AttemptsFit, Fits, Named, Versions

LEMMA StateFacts ==
    ASSUME Typed
    PROVE  /\ attempt \in [Attempts -> Attempt] /\ clock \in Nat
           /\ ledger \in [Removals -> Seq(Rows(Payloads))]
           /\ registry \in [References -> Seq(BOOLEAN)]
           /\ wire \subseteq Requests
           /\ \A r \in Removals : Len(ledger[r]) \in 0 .. MaxVersion
  BY DEF Typed, TypeOK, LedgerTypeOK, Bounded

LEMMA TypedFacts ==
    ASSUME Typed, NEW a \in Attempts
    PROVE  /\ attempt \in [Attempts -> Attempt] /\ attempt[a] \in Attempt
           /\ attempt[a].rem \in Removals /\ attempt[a].ext \in Nat
           /\ attempt[a].ver \in Nat /\ attempt[a].prev \in Nat
           /\ attempt[a].kind \in Kinds /\ attempt[a].stamp \in Locks
           /\ attempt[a].pc \in Steps /\ attempt[a].payload \in Payloads
           /\ attempt[a].mutation \in {"none", "possible", "confirmed"}
           /\ clock \in Nat
           /\ ledger \in [Removals -> Seq(Rows(Payloads))]
           /\ registry \in [References -> Seq(BOOLEAN)]
           /\ wire \subseteq Requests
           /\ \A r \in Removals : Len(ledger[r]) \in 0 .. MaxVersion
  BY StateFacts DEF Attempt

LEMMA RowFacts ==
    ASSUME Typed, NEW r \in Removals, NEW v \in Versions(r)
    PROVE  /\ ledger[r][v] \in Rows(Payloads)
           /\ ledger[r][v].status \in Statuses /\ ledger[r][v].ext \in Nat
           /\ ledger[r][v].lockedAt \in Locks /\ ledger[r][v].prev \in Nat
           /\ ledger[r][v].hash \in Payloads
           /\ v \in 1 .. MaxVersion
  <1>1. ledger[r][v] \in Rows(Payloads)
    BY ElementOfSeq DEF Typed, TypeOK, LedgerTypeOK, Versions
  <1>2. v \in 1 .. MaxVersion
    BY BoundsAssumption DEF Typed, Bounded, Versions
  <1> QED BY <1>1, <1>2 DEF Rows

LEMMA NamedFacts ==
    ASSUME Typed, NEW a \in Attempts, attempt[a].pc \in Owning \cup {"resetting"}
    PROVE  /\ attempt[a].ver \in Versions(attempt[a].rem)
           /\ attempt[a].ver \in 1 .. MaxVersion
           /\ Reference(a) \in References
           /\ Row(a) \in Rows(Payloads)
           /\ Row(a) = ledger[attempt[a].rem][attempt[a].ver]
  <1>1. attempt[a].ver \in Versions(attempt[a].rem) BY DEF Typed, Named
  <1>2. attempt[a].rem \in Removals /\ attempt[a].kind \in Kinds BY TypedFacts
  <1> QED BY <1>1, <1>2, RowFacts DEF Reference, References, Row

LEMMA BecomesSet ==
    ASSUME Typed, NEW a \in Attempts, NEW pc \in Steps,
           NEW mutation \in {"none", "possible", "confirmed"}, NEW prev \in Nat,
           NEW kind \in Kinds, NEW ext \in Nat,
           attempt' = [attempt EXCEPT ![a] = [attempt[a] EXCEPT
               !.pc = pc, !.mutation = mutation, !.prev = prev, !.kind = kind,
               !.ext = ext]]
    PROVE  Becomes(a, pc, mutation, prev, kind, ext)
  <1> DEFINE q == [attempt[a] EXCEPT !.pc = pc, !.mutation = mutation,
                     !.prev = prev, !.kind = kind, !.ext = ext]
  <1>1. attempt[a] \in Attempt BY TypedFacts
  <1>2. q \in Attempt BY ZenonT(60), <1>1 DEF Attempt
  <1>3. /\ SameClaim(attempt[a], q) /\ q.pc = pc /\ q.mutation = mutation
        /\ q.prev = prev /\ q.kind = kind /\ q.ext = ext
    BY <1>1 DEF Attempt, SameClaim
  <1> HIDE DEF q
  <1>4. attempt' = [attempt EXCEPT ![a] = q] BY DEF q
  <1> QED BY <1>2, <1>3, <1>4 DEF Becomes

\* A record whose progress fields are set to what they are.
LEMMA SameFields ==
    ASSUME Typed, NEW a \in Attempts, NEW pc, NEW mutation, NEW ext
    PROVE  /\ [attempt[a] EXCEPT !.pc = pc, !.mutation = mutation] =
                [attempt[a] EXCEPT !.pc = pc, !.mutation = mutation,
                   !.prev = attempt[a].prev, !.kind = attempt[a].kind,
                   !.ext = attempt[a].ext]
           /\ [attempt[a] EXCEPT !.pc = pc] =
                [attempt[a] EXCEPT !.pc = pc, !.mutation = attempt[a].mutation,
                   !.prev = attempt[a].prev, !.kind = attempt[a].kind,
                   !.ext = attempt[a].ext]
           /\ [attempt[a] EXCEPT !.pc = pc, !.mutation = mutation, !.ext = ext] =
                [attempt[a] EXCEPT !.pc = pc, !.mutation = mutation,
                   !.prev = attempt[a].prev, !.kind = attempt[a].kind,
                   !.ext = ext]
  BY TypedFacts DEF Attempt

LEMMA GotoAdvances ==
    ASSUME Typed, NEW a \in Attempts, NEW pc \in Steps, Goto(a, pc)
    PROVE  Advances(a, pc)
  <1>1. attempt' = [attempt EXCEPT ![a] = [attempt[a] EXCEPT !.pc = pc,
            !.mutation = attempt[a].mutation, !.prev = attempt[a].prev,
            !.kind = attempt[a].kind, !.ext = attempt[a].ext]]
    BY TypedFacts, SameFields DEF Goto
  <1> QED BY <1>1, TypedFacts, BecomesSet DEF Advances

-----------------------------------------------------------------------------
(* The invariant of the journal: what rows, attempts and reservations say  *)
(* about one another however late an attempt runs.                         *)

EntryOn(r, v) == [kind |-> "entry", rem |-> r, ver |-> v]

RowsSound ==
    \A r \in Removals : \A v \in Versions(r) :
        /\ ledger[r][v].status # "accepted" /\ ~ledger[r][v].refresh
        /\ ledger[r][v].prev \in {0, v - 1}
        /\ ledger[r][v].status = "draft" =>
             v = Len(ledger[r]) /\ ledger[r][v].lockedAt # NoLock
        /\ ledger[r][v].ext <= Len(registry[EntryOn(r, v)])
        /\ v > 1 /\ ledger[r][v].status = "submitted" =>
             ledger[r][v - 1].status \in {"rejected", "superseded"}

\* The version before is not left submitted next to this one.
Replaces(q, rows) ==
    q.ver > 1 /\ rows[q.rem][q.ver - 1].status = "submitted" =>
        q.prev = q.ver - 1

Holds(q, rows) ==
    /\ rows[q.rem][q.ver].status = "draft"
    /\ rows[q.rem][q.ver].lockedAt = q.stamp

Fresh(q) ==
    /\ q.mutation = "none" /\ q.prev = 0 /\ q.kind = "inputs" /\ q.ext = 0
    /\ ~q.resumed

Replacing == Sending \cup {"verify", "finalize"}

Sound(a, q, rows, regs, locks) ==
    /\ q.pc \notin Owning => Fresh(q)
    /\ q.pc = "resetting" => locks[q.rem] = a /\ q.ver = Len(rows[q.rem])
    /\ q.pc \in Owning =>
        /\ q.stamp.by = a
        /\ q.prev < q.ver
        /\ q.ext <= Len(regs[EntryOn(q.rem, q.ver)])
        /\ Holds(q, rows) => rows[q.rem][q.ver].ext \in {0, q.ext}
        /\ q.kind = "entry" /\ q.pc \in {"lookup", "post", "answer"} => q.ext = 0
        /\ q.pc \in Replacing \/ ~q.resumed => Replaces(q, rows)

AttemptsSound ==
    \A a \in Attempts : Sound(a, attempt[a], ledger, registry, locker)

Journal == Typed /\ RowsSound /\ AttemptsSound

-----------------------------------------------------------------------------
(* What a step of attempt a leaves alone.                                  *)

RegistryGrows ==
    \A ref \in References : Len(registry'[ref]) >= Len(registry[ref])

\* Rows stay; one that is still a draft under somebody else's lock is as it
\* was; only the latest can become submitted; a held Removal gets no version.
RowsRespected(a) ==
    \A r \in Removals :
        /\ Len(ledger'[r]) >= Len(ledger[r])
        /\ locker[r] \notin {None, a} => Len(ledger'[r]) = Len(ledger[r])
        /\ \A v \in Versions(r) :
            /\ \/ ledger'[r][v] = ledger[r][v]
               \/ ledger'[r][v].status # "draft"
               \/ ledger'[r][v].lockedAt.by = a
            /\ v < Len(ledger[r]) /\ ledger'[r][v].status = "submitted" =>
                 ledger[r][v].status = "submitted"

LocksRespected(a) ==
    \A r \in Removals : locker[r] \notin {None, a} => locker'[r] = locker[r]

LEMMA OthersSound ==
    ASSUME Journal, NEW a, NEW b \in Attempts, b # a,
           RowsRespected(a), LocksRespected(a), RegistryGrows,
           ledger' \in [Removals -> Seq(Rows(Payloads))],
           registry' \in [References -> Seq(BOOLEAN)]
    PROVE  Sound(b, attempt[b], ledger', registry', locker')
  <1> DEFINE q == attempt[b]
             r == q.rem
             v == q.ver
  <1>1. /\ q \in Attempt /\ r \in Removals /\ v \in Nat /\ q.prev \in Nat
        /\ q.ext \in Nat /\ Len(ledger[r]) \in Nat
    BY TypedFacts DEF Journal
  <1>2. Sound(b, q, ledger, registry, locker) BY DEF Journal, AttemptsSound
  <1>3. b \notin {None, a} BY AttemptsAssumption, NoneAssumption
  <1>4. CASE q.pc \notin Owning \cup {"resetting"}
    BY <1>2, <1>4 DEF Sound
  <1>5. CASE q.pc = "resetting"
    <2>1. q.pc \notin Owning BY <1>5, StepNames
    <2>2. locker[r] = b /\ v = Len(ledger[r]) /\ Fresh(q)
      BY <1>2, <1>5, <2>1 DEF Sound
    <2> QED BY <1>1, <1>3, <1>5, <2>1, <2>2
         DEF Sound, RowsRespected, LocksRespected
  <1>6. CASE q.pc \in Owning
    <2>1. q.pc # "resetting" BY <1>6, StepNames
    <2>2. v \in Versions(r) /\ v \in 1 .. MaxVersion
      BY <1>6, NamedFacts DEF Journal
    <2>3. EntryOn(r, v) \in References
      BY <1>1, <2>2 DEF EntryOn, References, Kinds
    <2>4. Len(registry[EntryOn(r, v)]) \in Nat
          /\ Len(registry'[EntryOn(r, v)]) \in Nat
      BY <2>3, LenProperties, TypedFacts DEF Journal
    <2>5. q.ext <= Len(registry'[EntryOn(r, v)])
      BY <1>1, <1>2, <1>6, <2>3, <2>4 DEF Sound, RegistryGrows
    <2>6. Holds(q, ledger') => ledger'[r][v].ext \in {0, q.ext}
      <3> SUFFICES ASSUME Holds(q, ledger') PROVE ledger'[r][v].ext \in {0, q.ext}
        OBVIOUS
      <3>1. q.stamp.by = b BY <1>2, <1>6 DEF Sound
      <3>2. ledger'[r][v] = ledger[r][v]
        <4>1. /\ ledger'[r][v].status = "draft"
              /\ ledger'[r][v].lockedAt.by = b
          BY <3>1 DEF Holds
        <4>2. \/ ledger'[r][v] = ledger[r][v]
              \/ ledger'[r][v].status # "draft"
              \/ ledger'[r][v].lockedAt.by = a
          BY <1>1, <2>2 DEF RowsRespected
        <4> QED BY <1>3, <4>1, <4>2
      <3> QED BY <1>2, <1>6, <3>2 DEF Sound, Holds
    <2>7. Replaces(q, ledger) => Replaces(q, ledger')
      <3> SUFFICES ASSUME v > 1, ledger'[r][v - 1].status = "submitted"
                   PROVE  ledger[r][v - 1].status = "submitted"
        BY DEF Replaces
      <3>1. v - 1 \in Versions(r) /\ v - 1 < Len(ledger[r])
        BY <1>1, <2>2 DEF Versions
      <3> QED BY <1>1, <3>1 DEF RowsRespected
    <2> QED BY <1>2, <1>6, <2>1, <2>5, <2>6, <2>7 DEF Sound
  <1> QED BY <1>4, <1>5, <1>6

LEMMA OneMoves ==
    ASSUME Journal, NEW a \in Attempts, NEW q \in Attempt,
           attempt' = [attempt EXCEPT ![a] = q],
           RowsRespected(a), LocksRespected(a), RegistryGrows,
           ledger' \in [Removals -> Seq(Rows(Payloads))],
           registry' \in [References -> Seq(BOOLEAN)],
           Sound(a, q, ledger', registry', locker')
    PROVE  AttemptsSound'
  <1>1. \A b \in Attempts : attempt'[b] = IF b = a THEN q ELSE attempt[b]
    BY TypedFacts DEF Journal
  <1> QED BY <1>1, OthersSound DEF AttemptsSound

LEMMA RegistryFacts ==
    ASSUME Typed, NEW r \in Removals, NEW v \in 1 .. MaxVersion
    PROVE  /\ EntryOn(r, v) \in References
           /\ Len(registry[EntryOn(r, v)]) \in Nat
           /\ registry' \in [References -> Seq(BOOLEAN)] =>
                Len(registry'[EntryOn(r, v)]) \in Nat
  <1>1. EntryOn(r, v) \in References BY DEF EntryOn, References, Kinds
  <1> QED BY <1>1, LenProperties, StateFacts

LEMMA RowsQuiet ==
    ASSUME Journal, UNCHANGED ledger, RegistryGrows,
           registry' \in [References -> Seq(BOOLEAN)]
    PROVE  RowsSound'
  <1> SUFFICES ASSUME NEW r \in Removals, NEW v \in Versions(r)
               PROVE  ledger[r][v].ext <= Len(registry'[EntryOn(r, v)])
    BY DEF Journal, RowsSound, Versions
  <1>1. v \in 1 .. MaxVersion /\ ledger[r][v].ext \in Nat
    BY RowFacts DEF Journal
  <1>2. /\ EntryOn(r, v) \in References
        /\ Len(registry[EntryOn(r, v)]) \in Nat
        /\ Len(registry'[EntryOn(r, v)]) \in Nat
    BY <1>1, RegistryFacts DEF Journal
  <1>3. ledger[r][v].ext <= Len(registry[EntryOn(r, v)])
    BY DEF Journal, RowsSound
  <1> QED BY <1>1, <1>2, <1>3 DEF RegistryGrows

LEMMA QuietRespects ==
    ASSUME Typed, NEW a, UNCHANGED ledger
    PROVE  RowsRespected(a)
  <1>1. \A r \in Removals : Len(ledger[r]) \in Nat BY LenProperties DEF Typed, TypeOK, LedgerTypeOK
  <1> QED BY <1>1 DEF RowsRespected

LEMMA SameRegistryGrows ==
    ASSUME Typed, UNCHANGED registry
    PROVE  RegistryGrows /\ registry' \in [References -> Seq(BOOLEAN)]
  <1>1. registry \in [References -> Seq(BOOLEAN)] BY DEF Typed, TypeOK
  <1> QED BY <1>1, LenProperties DEF RegistryGrows

\* An owning attempt makes progress with the draft it claimed.
LEMMA BecomesSound ==
    ASSUME Journal, NEW a \in Attempts, attempt[a].pc \in Owning,
           NEW pc \in Owning, NEW mutation, NEW prev \in Nat, NEW kind, NEW ext,
           Becomes(a, pc, mutation, prev, kind, ext),
           RowsRespected(a), UNCHANGED locker, RegistryGrows,
           ledger' \in [Removals -> Seq(Rows(Payloads))],
           registry' \in [References -> Seq(BOOLEAN)],
           prev < attempt[a].ver,
           ext <= Len(registry'[EntryOn(attempt[a].rem, attempt[a].ver)]),
           Holds(attempt[a], ledger') =>
               ledger'[attempt[a].rem][attempt[a].ver].ext \in {0, ext},
           kind = "entry" /\ pc \in {"lookup", "post", "answer"} => ext = 0,
           pc \in Replacing \/ ~attempt[a].resumed =>
               (attempt[a].ver > 1
                  /\ ledger'[attempt[a].rem][attempt[a].ver - 1].status = "submitted"
                  => prev = attempt[a].ver - 1)
    PROVE  AttemptsSound'
  <1>1. PICK q \in Attempt :
            /\ attempt' = [attempt EXCEPT ![a] = q]
            /\ SameClaim(attempt[a], q)
            /\ q.pc = pc /\ q.mutation = mutation /\ q.prev = prev
            /\ q.kind = kind /\ q.ext = ext
    BY DEF Becomes
  <1>2. attempt[a].stamp.by = a BY DEF Journal, AttemptsSound, Sound
  <1>3. pc # "resetting" BY StepNames
  <1>4. Sound(a, q, ledger', registry', locker')
    BY <1>1, <1>2, <1>3 DEF Sound, SameClaim, Holds, Replaces
  <1>5. LocksRespected(a) BY DEF LocksRespected
  <1> QED BY <1>1, <1>4, <1>5, OneMoves

LEMMA QuietBecomes ==
    ASSUME Journal, NEW a \in Attempts, attempt[a].pc \in Owning,
           NEW pc \in Owning, NEW mutation, NEW ext,
           Becomes(a, pc, mutation, attempt[a].prev, attempt[a].kind, ext),
           UNCHANGED <<ledger, locker>>, RegistryGrows,
           registry' \in [References -> Seq(BOOLEAN)],
           \/ ext = attempt[a].ext
           \/ /\ ext <= Len(registry'[EntryOn(attempt[a].rem, attempt[a].ver)])
              /\ attempt[a].ext = 0,
           attempt[a].kind = "entry" /\ pc \in {"lookup", "post", "answer"} =>
               ext = 0,
           pc \in Replacing => attempt[a].pc \in Replacing
    PROVE  RowsSound' /\ AttemptsSound'
  <1>1. Sound(a, attempt[a], ledger, registry, locker)
    BY DEF Journal, AttemptsSound
  <1>2. /\ attempt[a].rem \in Removals /\ attempt[a].ver \in 1 .. MaxVersion
        /\ attempt[a].prev \in Nat /\ attempt[a].ext \in Nat
        /\ ledger \in [Removals -> Seq(Rows(Payloads))]
    BY TypedFacts, NamedFacts DEF Journal
  <1>3. /\ EntryOn(attempt[a].rem, attempt[a].ver) \in References
        /\ Len(registry[EntryOn(attempt[a].rem, attempt[a].ver)]) \in Nat
        /\ Len(registry'[EntryOn(attempt[a].rem, attempt[a].ver)]) \in Nat
    BY <1>2, RegistryFacts DEF Journal
  <1>4. ext <= Len(registry'[EntryOn(attempt[a].rem, attempt[a].ver)])
    BY <1>1, <1>2, <1>3 DEF Sound, RegistryGrows
  <1>5. Holds(attempt[a], ledger') =>
            ledger'[attempt[a].rem][attempt[a].ver].ext \in {0, ext}
    BY <1>1 DEF Sound
  <1>6. pc \in Replacing \/ ~attempt[a].resumed =>
            (attempt[a].ver > 1
               /\ ledger'[attempt[a].rem][attempt[a].ver - 1].status = "submitted"
               => attempt[a].prev = attempt[a].ver - 1)
    BY <1>1 DEF Sound, Replaces
  <1>7. RowsRespected(a) BY QuietRespects DEF Journal
  <1>8. attempt[a].prev < attempt[a].ver BY <1>1 DEF Sound
  <1>9. ledger' \in [Removals -> Seq(Rows(Payloads))] BY <1>2
  <1>10. AttemptsSound'
    BY <1>2, <1>4, <1>5, <1>6, <1>7, <1>8, <1>9, BecomesSound
  <1> QED BY <1>10, RowsQuiet

LEMMA QuietAdvances ==
    ASSUME Journal, NEW a \in Attempts, attempt[a].pc \in Owning,
           NEW pc \in Owning, Advances(a, pc),
           UNCHANGED <<ledger, locker, registry>>,
           pc \in {"lookup", "post", "answer"} =>
               attempt[a].pc \in {"lookup", "post", "answer"},
           pc \in Replacing => attempt[a].pc \in Replacing
    PROVE  RowsSound' /\ AttemptsSound'
  <1>1. Sound(a, attempt[a], ledger, registry, locker)
    BY DEF Journal, AttemptsSound
  <1>2. RegistryGrows /\ registry' \in [References -> Seq(BOOLEAN)]
    BY SameRegistryGrows DEF Journal
  <1>3. attempt[a].kind = "entry" /\ pc \in {"lookup", "post", "answer"} =>
            attempt[a].ext = 0
    BY <1>1 DEF Sound
  <1> QED BY <1>2, <1>3, QuietBecomes DEF Advances

LEMMA QuietThrow ==
    ASSUME Journal, NEW a \in Attempts, attempt[a].pc \in Owning, Throw(a),
           UNCHANGED <<ledger, locker, registry>>
    PROVE  RowsSound' /\ AttemptsSound'
  <1>1. "fail" \in Owning /\ "fail" \in Steps /\ "fail" \notin Replacing
    BY DEF Owning, Finishing, Steps, Replacing, Sending
  <1>2. Advances(a, "fail") BY <1>1, GotoAdvances DEF Throw, Journal
  <1> QED BY <1>1, <1>2, QuietAdvances

\* The call ends: nothing is left in its local state.
LEMMA StopSound ==
    ASSUME Journal, NEW a \in Attempts, Stop(a), RowsRespected(a),
           LocksRespected(a), RegistryGrows,
           ledger' \in [Removals -> Seq(Rows(Payloads))],
           registry' \in [References -> Seq(BOOLEAN)]
    PROVE  AttemptsSound'
  <1>1. Idle \in Attempt /\ Idle.pc = "idle" BY IdleType
  <1>2. Fresh(Idle) BY DEF Fresh, Idle
  <1>3. Sound(a, Idle, ledger', registry', locker')
    BY <1>1, <1>2, StepNames DEF Sound
  <1> QED BY <1>1, <1>3, OneMoves DEF Stop

-----------------------------------------------------------------------------
(* Claiming a draft keeps the journal.                                     *)

LEMMA PreparingSound ==
    ASSUME Journal, NEW a \in Attempts, NEW q \in Attempt,
           attempt' = [attempt EXCEPT ![a] = q], q.pc \notin Owning, Fresh(q),
           q.pc = "resetting" =>
               locker'[q.rem] = a /\ q.ver = Len(ledger[q.rem]),
           UNCHANGED <<ledger, registry>>, LocksRespected(a)
    PROVE  RowsSound' /\ AttemptsSound'
  <1>1. RegistryGrows /\ registry' \in [References -> Seq(BOOLEAN)]
    BY SameRegistryGrows DEF Journal
  <1>2. RowsRespected(a) BY QuietRespects DEF Journal
  <1>3. ledger' \in [Removals -> Seq(Rows(Payloads))]
    BY TypedFacts DEF Journal
  <1>4. Sound(a, q, ledger', registry', locker') BY DEF Sound
  <1> QED BY <1>1, <1>2, <1>3, <1>4, OneMoves, RowsQuiet

LEMMA PreparingStop ==
    ASSUME Journal, NEW a \in Attempts, Stop(a),
           UNCHANGED <<ledger, registry>>, LocksRespected(a)
    PROVE  RowsSound' /\ AttemptsSound'
  <1>1. Idle \in Attempt /\ Idle.pc \notin Owning /\ Idle.pc # "resetting"
    BY IdleType, StepNames
  <1>2. Fresh(Idle) BY DEF Fresh, Idle
  <1> QED BY <1>1, <1>2, PreparingSound DEF Stop

LEMMA LoadSound ==
    ASSUME Journal, NEW a \in Attempts, NEW r \in Removals, Load(a, r)
    PROVE  RowsSound' /\ AttemptsSound'
  <1> DEFINE q == [Idle EXCEPT !.pc = "loaded", !.rem = r,
                     !.payload = LivePayload(r), !.seen = MemberClaims(r)]
  <1>1. LedgerTypeOK BY DEF Journal, Typed, TypeOK
  <1>2. q \in Attempt /\ q.pc = "loaded"
    BY <1>1, IdleType, LivePayloadType, StepNames DEF Attempt
  <1>3. Fresh(q) BY DEF Fresh, Idle
  <1>4. attempt' = [attempt EXCEPT ![a] = q] BY DEF Load
  <1>5. UNCHANGED <<ledger, registry, locker>> BY DEF Load, ledgerVars
  <1> HIDE DEF q
  <1>6. LocksRespected(a) BY <1>5 DEF LocksRespected
  <1> QED BY <1>2, <1>3, <1>4, <1>5, <1>6, StepNames, PreparingSound

\* An attempt that has not claimed anything yet carries no progress.
LEMMA StillFresh ==
    ASSUME Journal, NEW a \in Attempts, attempt[a].pc \notin Owning
    PROVE  Fresh(attempt[a])
  BY DEF Journal, AttemptsSound, Sound

LEMMA RouteSound ==
    ASSUME Journal, NEW a \in Attempts, Route(a)
    PROVE  RowsSound' /\ AttemptsSound'
  <1> DEFINE resuming == [attempt[a] EXCEPT !.pc = "resuming", !.began = clock]
             creating == [attempt[a] EXCEPT !.pc = "creating"]
  <1>1. attempt \in [Attempts -> Attempt] /\ attempt[a] \in Attempt
        /\ clock \in Nat
    BY TypedFacts DEF Journal
  <1>2. attempt[a].pc = "loaded" BY DEF Route, Is
  <1>3. Fresh(attempt[a]) BY <1>2, StillFresh, StepNames
  <1>4. /\ resuming \in Attempt /\ resuming.pc = "resuming"
        /\ creating \in Attempt /\ creating.pc = "creating"
    BY ZenonT(60), <1>1, StepNames DEF Attempt
  <1>5. Fresh(resuming) /\ Fresh(creating)
    BY <1>1, <1>3 DEF Fresh, Attempt
  <1>6. \/ attempt' = [attempt EXCEPT ![a] = resuming]
        \/ attempt' = [attempt EXCEPT ![a] = creating]
        \/ Stop(a)
    BY <1>1 DEF Route, Goto
  <1>7. UNCHANGED <<ledger, registry, locker>> BY DEF Route, ledgerVars
  <1> HIDE DEF resuming, creating
  <1>8. LocksRespected(a) BY <1>7 DEF LocksRespected
  <1> QED BY <1>4, <1>5, <1>6, <1>7, <1>8, StepNames, PreparingSound, PreparingStop

\* What a decision to create says about the version before.
LEMMA CreateDecision ==
    ASSUME Typed, RowsSound, NEW r \in Removals, NEW hash \in Payloads
    PROVE  LET d == DecideSubmissionClaim(ledger[r], hash, clock, RemovalPolicy)
           IN  d.kind = "create" =>
                 /\ d.version = Len(ledger[r]) + 1
                 /\ d.prev \in {0, Len(ledger[r])}
                 /\ \A v \in Versions(r) : ledger[r][v].status # "draft"
                 /\ Len(ledger[r]) > 0
                      /\ ledger[r][Len(ledger[r])].status = "submitted"
                      => d.prev = Len(ledger[r])
  <1> DEFINE rows == ledger[r]
             n == Len(ledger[r])
             d == DecideSubmissionClaim(ledger[r], hash, clock, RemovalPolicy)
  <1>1. rows \in Seq(Rows(Payloads)) /\ n \in Nat
    BY StateFacts, LenProperties
  <1>2. CASE rows = << >>
    <2>1. n = 0 /\ Versions(r) = {} BY <1>2, EmptySeq DEF Versions
    <2> QED BY <1>2, <2>1 DEF DecideSubmissionClaim, CreateVersion
  <1>3. CASE rows # << >>
    <2>1. n \in Versions(r) /\ n > 0
      BY <1>1, <1>3, EmptySeq DEF Versions
    <2>2. /\ rows[n].status \in Statuses /\ ~rows[n].refresh
          /\ rows[n].status # "accepted"
          /\ \A v \in Versions(r) : rows[v].status = "draft" => v = n
      BY <2>1, RowFacts DEF RowsSound
    <2>3. CASE rows[n].status = "draft"
      BY <1>3, <2>2, <2>3 DEF DecideSubmissionClaim, DecideDraft,
         ActiveStatuses, CanRefreshEvidence, ResumeVersion, Blocked
    <2>4. CASE rows[n].status = "submitted"
      BY <1>3, <2>2, <2>4 DEF DecideSubmissionClaim, DecideActive,
         ActiveStatuses, RemovalPolicy, CreateVersion, ReturnExisting
    <2>5. CASE rows[n].status = "rejected"
      BY <1>3, <2>2, <2>5 DEF DecideSubmissionClaim, DecideRejected,
         ActiveStatuses, CreateVersion, ResumeVersion, Blocked
    <2>6. CASE rows[n].status = "superseded"
      BY <1>3, <2>2, <2>6 DEF DecideSubmissionClaim, ActiveStatuses,
         CreateVersion
    <2> QED BY <2>2, <2>3, <2>4, <2>5, <2>6 DEF Statuses
  <1> QED BY <1>2, <1>3

\* What a decision to resume says about the version it names.
LEMMA ResumeDecision ==
    ASSUME Typed, RowsSound, NEW r \in Removals, NEW hash \in Payloads
    PROVE  LET d == DecideSubmissionClaim(ledger[r], hash, clock, RemovalPolicy)
           IN  d.kind = "resume" =>
                 /\ d.version = Len(ledger[r]) /\ d.version \in Versions(r)
                 /\ \/ /\ ledger[r][d.version].status = "draft"
                       /\ \/ CanReclaimInterrupted(ledger[r][d.version])
                          \/ ~LockIsFresh(ledger[r][d.version], clock)
                    \/ /\ ledger[r][d.version].status = "rejected"
                       /\ ledger[r][d.version].ext = 0
  <1> DEFINE rows == ledger[r]
             n == Len(ledger[r])
             d == DecideSubmissionClaim(ledger[r], hash, clock, RemovalPolicy)
  <1>1. rows \in Seq(Rows(Payloads)) /\ n \in Nat
    BY StateFacts, LenProperties
  <1>2. CASE rows = << >>
    BY <1>2 DEF DecideSubmissionClaim, CreateVersion
  <1>3. CASE rows # << >>
    <2>1. n \in Versions(r) /\ n > 0
      BY <1>1, <1>3, EmptySeq DEF Versions
    <2>2. rows[n].status \in Statuses BY <2>1, RowFacts
    <2>3. CASE rows[n].status = "draft"
      BY <1>3, <2>1, <2>2, <2>3 DEF DecideSubmissionClaim, DecideDraft,
         ActiveStatuses, ResumeVersion, Blocked, CreateVersion
    <2>4. CASE rows[n].status \in ActiveStatuses
      BY <1>3, <2>2, <2>4 DEF DecideSubmissionClaim, DecideActive,
         ActiveStatuses, RemovalPolicy, CreateVersion, ReturnExisting
    <2>5. CASE rows[n].status = "rejected"
      BY <1>3, <2>1, <2>2, <2>5 DEF DecideSubmissionClaim, DecideRejected,
         ActiveStatuses, CreateVersion, ResumeVersion, Blocked
    <2>6. CASE rows[n].status = "superseded"
      BY <1>3, <2>2, <2>6 DEF DecideSubmissionClaim, ActiveStatuses,
         CreateVersion
    <2> QED BY <2>2, <2>3, <2>4, <2>5, <2>6 DEF Statuses, ActiveStatuses
  <1> QED BY <1>2, <1>3

LEMMA InsertDraftRows ==
    ASSUME Typed, NEW r \in Removals, NEW payload \in Payloads,
           NEW prev \in Nat, NEW stamp \in Locks,
           InsertDraft(r, payload, prev, stamp)
    PROVE  LET new == Len(ledger[r]) + 1
           IN  /\ ledger' \in [Removals -> Seq(Rows(Payloads))]
               /\ \A q \in Removals : Len(ledger'[q]) =
                    IF q = r THEN new ELSE Len(ledger[q])
               /\ \A q \in Removals : \A v \in Versions(q) :
                    ledger'[q][v] = ledger[q][v]
               /\ ledger'[r][new] =
                    [status |-> "draft", hash |-> payload, ext |-> 0,
                     lockedAt |-> stamp, outcome |-> "none",
                     mutation |-> "unset", refresh |-> FALSE, prev |-> prev]
  <1> DEFINE row == [status |-> "draft", hash |-> payload, ext |-> 0,
                     lockedAt |-> stamp, outcome |-> "none",
                     mutation |-> "unset", refresh |-> FALSE, prev |-> prev]
             rows == Append(ledger[r], row)
  <1>1. ledger \in [Removals -> Seq(Rows(Payloads))] BY StateFacts
  <1>2. row \in Rows(Payloads) BY DEF Rows, Statuses, Outcomes, Mutations
  <1>3. ledger' = [ledger EXCEPT ![r] = rows] BY <1>1 DEF InsertDraft
  <1> HIDE DEF row
  <1>4. /\ rows \in Seq(Rows(Payloads))
        /\ Len(rows) = Len(ledger[r]) + 1
        /\ \A v \in Versions(r) : rows[v] = ledger[r][v]
        /\ rows[Len(ledger[r]) + 1] = row
    BY <1>1, <1>2, AppendProperties DEF Versions
  <1> HIDE DEF rows
  <1>5. \A q \in Removals : ledger'[q] = IF q = r THEN rows ELSE ledger[q]
    BY <1>1, <1>3
  <1> QED BY <1>1, <1>3, <1>4, <1>5 DEF row

LEMMA CreateDraftSound ==
    ASSUME Journal, NEW a \in Attempts, CreateDraft(a)
    PROVE  RowsSound' /\ AttemptsSound'
  <1> DEFINE r == attempt[a].rem
             payload == attempt[a].payload
             stamp == [by |-> a, at |-> clock]
             d == DecideSubmissionClaim(ledger[r], payload, clock, RemovalPolicy)
             q == [attempt[a] EXCEPT !.pc = "scope", !.ver = d.version,
                     !.hash = payload, !.stamp = stamp, !.prev = d.prev]
  <1>1. /\ attempt \in [Attempts -> Attempt] /\ attempt[a] \in Attempt
        /\ r \in Removals /\ payload \in Payloads /\ clock \in Nat
        /\ Len(ledger[r]) \in 0 .. MaxVersion
    BY TypedFacts DEF Journal
  <1>2. stamp \in Locks /\ stamp.by = a /\ stamp # NoLock
    BY <1>1, AttemptsAssumption, NobodyAssumption DEF Locks, NoLock
  <1>3. d.kind = "create" =>
            /\ d.version = Len(ledger[r]) + 1
            /\ d.prev \in {0, Len(ledger[r])}
            /\ \A v \in Versions(r) : ledger[r][v].status # "draft"
            /\ Len(ledger[r]) > 0
                 /\ ledger[r][Len(ledger[r])].status = "submitted"
                 => d.prev = Len(ledger[r])
    BY <1>1, CreateDecision DEF Journal
  <1>4. /\ UNCHANGED <<locker, registry>> /\ locker[r] = None
        /\ attempt[a].pc = "creating"
    BY DEF CreateDraft, Is
  <1>5. Fresh(attempt[a]) BY <1>4, StillFresh, StepNames
  <1>6. RegistryGrows /\ registry' \in [References -> Seq(BOOLEAN)]
        /\ LocksRespected(a)
    BY <1>4, SameRegistryGrows DEF Journal, LocksRespected
  <1> HIDE DEF d, stamp
  <1>7. CASE d.kind = "create" /\ d.version <= MaxVersion
    <2> DEFINE new == Len(ledger[r]) + 1
    <2>1. /\ InsertDraft(r, payload, d.prev, stamp)
          /\ attempt' = [attempt EXCEPT ![a] = q]
      BY <1>1, <1>7 DEF CreateDraft, d, stamp
    <2>2. /\ d.version \in Nat /\ d.prev \in Nat /\ d.version = new
          /\ new \in 1 .. MaxVersion
      BY <1>1, <1>3, <1>7
    <2>3. /\ ledger' \in [Removals -> Seq(Rows(Payloads))]
          /\ \A s \in Removals : Len(ledger'[s]) =
               IF s = r THEN new ELSE Len(ledger[s])
          /\ \A s \in Removals : \A v \in Versions(s) :
               ledger'[s][v] = ledger[s][v]
          /\ ledger'[r][new] =
               [status |-> "draft", hash |-> payload, ext |-> 0,
                lockedAt |-> stamp, outcome |-> "none",
                mutation |-> "unset", refresh |-> FALSE, prev |-> d.prev]
      BY <1>1, <1>2, <2>1, <2>2, InsertDraftRows DEF Journal
    <2>4. /\ ledger'[r][new].status = "draft" /\ ledger'[r][new].ext = 0
          /\ ledger'[r][new].lockedAt = stamp /\ ~ledger'[r][new].refresh
          /\ ledger'[r][new].prev = d.prev
      BY <2>3
    <2>5. \A s \in Removals : Len(ledger[s]) \in Nat
      BY StateFacts DEF Journal
    <2>6. RowsRespected(a)
      BY <1>4, <2>3, <2>5 DEF RowsRespected
    <2>7. RowsSound'
      <3> SUFFICES ASSUME NEW s \in Removals, NEW v \in 1 .. Len(ledger'[s])
                   PROVE
                /\ ledger'[s][v].status # "accepted" /\ ~ledger'[s][v].refresh
                /\ ledger'[s][v].prev \in {0, v - 1}
                /\ ledger'[s][v].status = "draft" =>
                     v = Len(ledger'[s]) /\ ledger'[s][v].lockedAt # NoLock
                /\ ledger'[s][v].ext <= Len(registry'[EntryOn(s, v)])
                /\ v > 1 /\ ledger'[s][v].status = "submitted" =>
                     ledger'[s][v - 1].status \in {"rejected", "superseded"}
        BY DEF RowsSound, Versions
      <3>1. CASE s = r /\ v = new
        <4>1. Len(registry'[EntryOn(s, v)]) \in Nat
          BY <1>6, <2>2, <3>1, RegistryFacts DEF Journal
        <4>2. PICK n \in Nat : n = Len(ledger[r]) BY <2>5, <1>1
        <4>3. ledger'[s][v].prev \in {0, v - 1}
          <5>1. d.prev \in {0, n} BY <1>3, <1>7, <4>2
          <5>2. v - 1 = n BY <3>1, <4>2
          <5> QED BY <2>4, <3>1, <5>1, <5>2
        <4>4. v = Len(ledger'[s]) /\ ledger'[s][v].lockedAt # NoLock
          BY <1>1, <1>2, <2>3, <2>4, <3>1
        <4>5. /\ ledger'[s][v].status = "draft" /\ ~ledger'[s][v].refresh
              /\ ledger'[s][v].ext <= Len(registry'[EntryOn(s, v)])
          <5>1. /\ ledger'[s][v].status = "draft" /\ ~ledger'[s][v].refresh
                /\ ledger'[s][v].ext = 0
            BY <2>4, <3>1
          <5>2. PICK m \in Nat : m = Len(registry'[EntryOn(s, v)]) BY <4>1
          <5>3. ledger'[s][v].ext <= Len(registry'[EntryOn(s, v)]) BY <5>1, <5>2
          <5> QED BY <5>1, <5>3
        <4> QED BY Zenon, <4>3, <4>4, <4>5
      <3>2. CASE ~(s = r /\ v = new)
        <4>1. v \in Versions(s) BY <2>3, <2>5, <3>2 DEF Versions
        <4>2. ledger'[s][v] = ledger[s][v] BY <2>3, <4>1
        <4>3. v > 1 => v - 1 \in Versions(s) BY <2>5, <4>1 DEF Versions
        <4>4. ledger'[s][v].status = "draft" => s # r BY <1>3, <1>7, <4>1, <4>2
        <4>5. v > 1 /\ ledger[s][v].status = "submitted" =>
                  ledger'[s][v - 1].status \in {"rejected", "superseded"}
          BY <2>3, <4>1, <4>3 DEF Journal, RowsSound
        <4>6. ledger[s][v].status = "draft" => v = Len(ledger'[s])
          BY <2>3, <4>1, <4>2, <4>4 DEF Journal, RowsSound
        <4>7. /\ ledger[s][v].status # "accepted" /\ ~ledger[s][v].refresh
              /\ ledger[s][v].prev \in {0, v - 1}
              /\ ledger[s][v].status = "draft" => ledger[s][v].lockedAt # NoLock
              /\ ledger[s][v].ext <= Len(registry'[EntryOn(s, v)])
          BY <1>4, <4>1 DEF Journal, RowsSound
        <4> QED BY <4>2, <4>5, <4>6, <4>7
      <3> QED BY <3>1, <3>2
    <2>8. /\ q \in Attempt /\ q.pc = "scope" /\ q.rem = r /\ q.ver = new
          /\ q.stamp = stamp /\ q.prev = d.prev
          /\ q.ext = attempt[a].ext /\ q.kind = attempt[a].kind
      <3>1. "scope" \in Steps BY DEF Steps, Owning, Gating
      <3> QED BY ZenonT(60), <1>1, <1>2, <2>2, <3>1 DEF Attempt
    <2> HIDE DEF q
    <2>9. Sound(a, q, ledger', registry', locker')
      <3>1. q.pc \in Owning /\ q.pc \notin {"lookup", "post", "answer", "resetting"}
        BY <2>8 DEF Owning, Gating
      <3>2. q.ext = 0 BY <1>5, <2>8 DEF Fresh
      <3>3. Replaces(q, ledger')
        <4> SUFFICES ASSUME new > 1, ledger'[r][new - 1].status = "submitted"
                     PROVE  d.prev = new - 1
          BY <2>8 DEF Replaces
        <4>1. Len(ledger[r]) \in Versions(r) /\ Len(ledger[r]) > 0
              /\ new - 1 = Len(ledger[r])
          BY <1>1 DEF Versions
        <4> QED BY <1>1, <1>3, <1>7, <2>3, <4>1
      <3>4. Len(registry'[EntryOn(r, new)]) \in Nat
        BY <1>1, <1>6, <2>2, RegistryFacts DEF Journal
      <3>5. q.prev < q.ver BY <1>1, <1>3, <1>7, <2>8
      <3>6. ledger'[q.rem][q.ver].ext = 0 /\ q.stamp.by = a
        BY <1>2, <2>4, <2>8
      <3>7. q.ext <= Len(registry'[EntryOn(q.rem, q.ver)])
        BY <2>8, <3>2, <3>4
      <3> QED BY <3>1, <3>2, <3>3, <3>5, <3>6, <3>7 DEF Sound
    <2> QED BY <1>6, <2>1, <2>3, <2>6, <2>7, <2>8, <2>9, OneMoves
  <1>8. CASE ~(d.kind = "create" /\ d.version <= MaxVersion)
    BY <1>4, <1>6, <1>8, PreparingStop DEF CreateDraft, d
  <1> QED BY <1>7, <1>8

LEMMA DecideResumeSound ==
    ASSUME Journal, NEW a \in Attempts, DecideResume(a)
    PROVE  RowsSound' /\ AttemptsSound'
  <1> DEFINE r == attempt[a].rem
             d == DecideSubmissionClaim(ledger[r], attempt[a].payload, clock,
                    RemovalPolicy)
             bypass == CanReclaimInterrupted(ledger[r][d.version])
             q == [attempt[a] EXCEPT !.pc = "resetting", !.ver = d.version,
                     !.bypass = bypass]
  <1>1. /\ attempt \in [Attempts -> Attempt] /\ attempt[a] \in Attempt
        /\ r \in Removals /\ attempt[a].payload \in Payloads /\ clock \in Nat
        /\ Len(ledger[r]) \in Nat
    BY TypedFacts DEF Journal
  <1>2. d.kind = "resume" =>
            d.version = Len(ledger[r]) /\ d.version \in Versions(r)
    BY <1>1, ResumeDecision DEF Journal
  <1>3. UNCHANGED <<ledger, registry>> /\ locker[r] = None
        /\ attempt[a].pc = "resuming"
    BY DEF DecideResume, Is
  <1>4. Fresh(attempt[a]) BY <1>3, StillFresh, StepNames
  <1>5. bypass \in BOOLEAN BY DEF CanReclaimInterrupted
  <1>6. locker \in [Removals -> Owners \cup {None}]
    BY DEF Journal, Typed, TypeOK, LedgerTypeOK
  <1> HIDE DEF d, bypass
  <1>7. CASE d.kind = "resume"
    <2>1. /\ attempt' = [attempt EXCEPT ![a] = q]
          /\ locker' = [locker EXCEPT ![r] = a]
      BY <1>1, <1>7 DEF DecideResume, d, bypass
    <2>2. d.version \in Nat BY <1>1, <1>2, <1>7
    <2>3. /\ q \in Attempt /\ q.pc = "resetting" /\ q.rem = r
          /\ q.ver = d.version
      BY ZenonT(60), <1>1, <1>5, <2>2, StepNames DEF Attempt
    <2>4. Fresh(q) BY <1>1, <1>4 DEF Fresh, Attempt
    <2> HIDE DEF q
    <2>5. LocksRespected(a) BY <1>3, <1>6, <2>1 DEF LocksRespected
    <2>6. locker'[r] = a BY <1>1, <1>6, <2>1
    <2> QED BY <1>2, <1>3, <1>7, <2>1, <2>3, <2>4, <2>5, <2>6, StepNames,
         PreparingSound
  <1>8. CASE d.kind # "resume"
    <2>1. Stop(a) /\ UNCHANGED locker BY <1>8 DEF DecideResume, d
    <2>2. LocksRespected(a) BY <2>1 DEF LocksRespected
    <2> QED BY <1>3, <2>1, <2>2, PreparingStop
  <1> QED BY <1>7, <1>8

-----------------------------------------------------------------------------
(* One row is rewritten.                                                   *)

LEMMA WriteRowRows ==
    ASSUME Typed, NEW r \in Removals, NEW v \in Versions(r),
           NEW row \in Rows(Payloads), WriteRow(r, v, row)
    PROVE  /\ ledger' \in [Removals -> Seq(Rows(Payloads))]
           /\ \A s \in Removals : Len(ledger'[s]) = Len(ledger[s])
           /\ \A s \in Removals : \A u \in Versions(s) :
                ledger'[s][u] = IF s = r /\ u = v THEN row ELSE ledger[s][u]
  BY WriteRowEffect DEF Typed, TypeOK

\* The new row is a draft of the latest version, or abandoned.
LEMMA WriteRowSound ==
    ASSUME Journal, NEW r \in Removals, NEW v \in Versions(r),
           NEW row \in Rows(Payloads), WriteRow(r, v, row), UNCHANGED registry,
           row.status \in {"draft", "rejected", "superseded"},
           ~row.refresh, row.prev = ledger[r][v].prev,
           row.status = "draft" => v = Len(ledger[r]) /\ row.lockedAt # NoLock,
           row.ext <= Len(registry[EntryOn(r, v)])
    PROVE  RowsSound'
  <1> SUFFICES ASSUME NEW s \in Removals, NEW u \in 1 .. Len(ledger'[s])
               PROVE
            /\ ledger'[s][u].status # "accepted" /\ ~ledger'[s][u].refresh
            /\ ledger'[s][u].prev \in {0, u - 1}
            /\ ledger'[s][u].status = "draft" =>
                 u = Len(ledger'[s]) /\ ledger'[s][u].lockedAt # NoLock
            /\ ledger'[s][u].ext <= Len(registry'[EntryOn(s, u)])
            /\ u > 1 /\ ledger'[s][u].status = "submitted" =>
                 ledger'[s][u - 1].status \in {"rejected", "superseded"}
    BY DEF RowsSound, Versions
  <1>1. /\ \A t \in Removals : Len(ledger'[t]) = Len(ledger[t])
        /\ \A t \in Removals : \A w \in Versions(t) :
             ledger'[t][w] = IF t = r /\ w = v THEN row ELSE ledger[t][w]
    BY WriteRowRows DEF Journal
  <1>2. u \in Versions(s) /\ Len(ledger[s]) \in Nat
    BY <1>1, StateFacts DEF Versions, Journal
  <1>3. /\ ledger[s][u].status # "accepted" /\ ~ledger[s][u].refresh
        /\ ledger[s][u].prev \in {0, u - 1}
        /\ ledger[s][u].status = "draft" =>
             u = Len(ledger[s]) /\ ledger[s][u].lockedAt # NoLock
        /\ ledger[s][u].ext <= Len(registry[EntryOn(s, u)])
        /\ u > 1 /\ ledger[s][u].status = "submitted" =>
             ledger[s][u - 1].status \in {"rejected", "superseded"}
    BY <1>2 DEF Journal, RowsSound
  <1>4. CASE s = r /\ u = v
    <2>1. ledger'[s][u] = row BY <1>1, <1>2, <1>4
    <2> QED BY <1>1, <1>2, <1>3, <1>4, <2>1
  <1>5. CASE ~(s = r /\ u = v)
    <2>1. ledger'[s][u] = ledger[s][u] BY <1>1, <1>2, <1>5
    <2>2. u > 1 /\ ledger[s][u].status = "submitted" =>
              ledger'[s][u - 1].status \in {"rejected", "superseded"}
      <3> SUFFICES ASSUME u > 1, ledger[s][u].status = "submitted"
                   PROVE  ledger'[s][u - 1].status \in {"rejected", "superseded"}
        OBVIOUS
      <3>1. u - 1 \in Versions(s) /\ u - 1 # Len(ledger[s])
        BY <1>2 DEF Versions
      <3> QED BY <1>1, <1>3, <3>1
    <2> QED BY <1>1, <1>3, <2>1, <2>2
  <1> QED BY <1>4, <1>5

LEMMA WriteRowRespects ==
    ASSUME Typed, NEW a, NEW r \in Removals, NEW v \in Versions(r),
           NEW row \in Rows(Payloads), WriteRow(r, v, row),
           row.status \in {"draft", "rejected", "superseded"},
           row.status = "draft" => row.lockedAt.by = a
    PROVE  RowsRespected(a)
  <1>1. /\ \A t \in Removals : Len(ledger'[t]) = Len(ledger[t])
        /\ \A t \in Removals : \A w \in Versions(t) :
             ledger'[t][w] = IF t = r /\ w = v THEN row ELSE ledger[t][w]
    BY WriteRowRows
  <1>2. \A s \in Removals : Len(ledger[s]) \in Nat BY StateFacts
  <1> QED BY <1>1, <1>2 DEF RowsRespected

LEMMA InheritedMutationIs ==
    ASSUME Typed, NEW r \in Removals, NEW v \in Versions(r)
    PROVE  InheritedMutation(ledger[r][v]) \in {"none", "possible", "confirmed"}
  BY RowFacts, InheritedMutationType

\* What a successful reset writes, to the row and to the attempt.
LEMMA ResetDraftMove ==
    ASSUME Journal, NEW a \in Attempts, ResetDraft(a),
           CanResetToDraft(ledger[attempt[a].rem][attempt[a].ver],
               attempt[a].bypass, attempt[a].began)
    PROVE  \E row \in Rows(Payloads), q \in Attempt :
             LET r == attempt[a].rem
                 v == attempt[a].ver
                 old == ledger[r][v]
             IN  /\ WriteRow(r, v, row)
                 /\ row.status = "draft" /\ row.outcome = "none"
                 /\ row.lockedAt = [by |-> a, at |-> clock]
                 /\ row.hash = old.hash /\ row.ext = old.ext
                 /\ row.mutation = old.mutation /\ row.prev = old.prev
                 /\ row.refresh = old.refresh
                 /\ attempt' = [attempt EXCEPT ![a] = q]
                 /\ q.pc = "revision" /\ q.rem = r /\ q.ver = v
                 /\ q.hash = old.hash /\ q.seen = attempt[a].seen
                 /\ q.stamp = [by |-> a, at |-> clock] /\ q.resumed
                 /\ q.mutation = InheritedMutation(old) /\ q.ext = old.ext
                 /\ q.prev = attempt[a].prev /\ q.kind = attempt[a].kind
  <1> DEFINE r == attempt[a].rem
             v == attempt[a].ver
             stamp == [by |-> a, at |-> clock]
             old == ledger[r][v]
             mutation == InheritedMutation(old)
             row == [old EXCEPT !.status = "draft", !.lockedAt = stamp,
                       !.outcome = "none"]
             q == [attempt[a] EXCEPT !.pc = "revision", !.hash = old.hash,
                     !.stamp = stamp, !.resumed = TRUE,
                     !.mutation = mutation, !.ext = old.ext]
  <1>1. /\ attempt \in [Attempts -> Attempt] /\ attempt[a] \in Attempt
        /\ r \in Removals /\ clock \in Nat
    BY TypedFacts DEF Journal
  <1>2. attempt[a].pc = "resetting" BY DEF ResetDraft, Is
  <1>3. v \in Versions(r) BY <1>2, NamedFacts DEF Journal
  <1>4. /\ old \in Rows(Payloads) /\ old.ext \in Nat /\ old.hash \in Payloads
        /\ mutation \in {"none", "possible", "confirmed"}
    BY <1>1, <1>3, RowFacts, InheritedMutationIs DEF Journal
  <1>5. stamp \in Locks BY <1>1, AttemptsAssumption DEF Locks
  <1>6. WriteRow(r, v, row) /\ attempt' = [attempt EXCEPT ![a] = q]
    BY <1>1 DEF ResetDraft, ResetToDraft
  <1> HIDE DEF old, stamp, mutation
  <1>7. row \in Rows(Payloads)
    BY ZenonT(60), <1>4, <1>5 DEF Rows, Statuses, Outcomes
  <1>8. /\ row.status = "draft" /\ row.outcome = "none" /\ row.lockedAt = stamp
        /\ row.hash = old.hash /\ row.ext = old.ext
        /\ row.mutation = old.mutation /\ row.prev = old.prev
        /\ row.refresh = old.refresh
    BY <1>4 DEF Rows
  <1>9. "revision" \in Steps BY DEF Steps, Owning, Gating
  <1>10. q \in Attempt
    BY ZenonT(60), <1>1, <1>4, <1>5, <1>9 DEF Attempt
  <1>11. /\ q.pc = "revision" /\ q.rem = r /\ q.ver = v
         /\ q.hash = old.hash /\ q.seen = attempt[a].seen
         /\ q.stamp = stamp /\ q.resumed
         /\ q.mutation = mutation /\ q.ext = old.ext
         /\ q.prev = attempt[a].prev /\ q.kind = attempt[a].kind
    BY <1>1 DEF Attempt
  <1> HIDE DEF row, q
  <1> QED BY <1>6, <1>7, <1>8, <1>10, <1>11 DEF old, stamp, mutation

LEMMA ResetDraftSound ==
    ASSUME Journal, NEW a \in Attempts, ResetDraft(a)
    PROVE  RowsSound' /\ AttemptsSound'
  <1> DEFINE r == attempt[a].rem
             v == attempt[a].ver
             stamp == [by |-> a, at |-> clock]
             old == ledger[r][v]
  <1>1. /\ r \in Removals /\ clock \in Nat
        /\ ledger \in [Removals -> Seq(Rows(Payloads))]
    BY TypedFacts DEF Journal
  <1>2. attempt[a].pc = "resetting" /\ Unlock(r) /\ UNCHANGED registry
    BY DEF ResetDraft, Is
  <1>3. v \in Versions(r) /\ v \in 1 .. MaxVersion
    BY <1>2, NamedFacts DEF Journal
  <1>4. locker[r] = a /\ v = Len(ledger[r])
    BY <1>2, StepNames DEF Journal, AttemptsSound, Sound
  <1>5. LocksRespected(a)
    BY <1>2, <1>4 DEF LocksRespected, Unlock, Journal, Typed, TypeOK, LedgerTypeOK
  <1>6. RegistryGrows /\ registry' \in [References -> Seq(BOOLEAN)]
    BY <1>2, SameRegistryGrows DEF Journal
  <1>7. CASE CanResetToDraft(old, attempt[a].bypass, attempt[a].began)
    <2>1. PICK row \in Rows(Payloads), q \in Attempt :
            /\ WriteRow(r, v, row)
            /\ row.status = "draft" /\ row.lockedAt = stamp
            /\ row.ext = old.ext /\ row.prev = old.prev
            /\ row.refresh = old.refresh
            /\ attempt' = [attempt EXCEPT ![a] = q]
            /\ q.pc = "revision" /\ q.rem = r /\ q.ver = v
            /\ q.stamp = stamp /\ q.resumed /\ q.ext = old.ext
            /\ q.prev = attempt[a].prev /\ q.kind = attempt[a].kind
      <3>1. PICK row \in Rows(Payloads), q \in Attempt :
              /\ WriteRow(r, v, row)
              /\ row.status = "draft" /\ row.outcome = "none"
              /\ row.lockedAt = stamp
              /\ row.hash = old.hash /\ row.ext = old.ext
              /\ row.mutation = old.mutation /\ row.prev = old.prev
              /\ row.refresh = old.refresh
              /\ attempt' = [attempt EXCEPT ![a] = q]
              /\ q.pc = "revision" /\ q.rem = r /\ q.ver = v
              /\ q.hash = old.hash /\ q.seen = attempt[a].seen
              /\ q.stamp = stamp /\ q.resumed
              /\ q.mutation = InheritedMutation(old) /\ q.ext = old.ext
              /\ q.prev = attempt[a].prev /\ q.kind = attempt[a].kind
        BY <1>7, ResetDraftMove
      <3> QED BY <3>1
    <2>2. /\ ~old.refresh /\ old.ext <= Len(registry[EntryOn(r, v)])
      BY <1>1, <1>3 DEF Journal, RowsSound
    <2>3. stamp # NoLock /\ stamp.by = a
      BY AttemptsAssumption, NobodyAssumption DEF NoLock
    <2>4. RowsSound'
      BY <1>1, <1>2, <1>3, <1>4, <2>1, <2>2, <2>3, WriteRowSound
    <2>5. RowsRespected(a) /\ ledger' \in [Removals -> Seq(Rows(Payloads))]
      BY <1>1, <1>3, <2>1, <2>3, WriteRowRespects, WriteRowRows DEF Journal
    <2>6. ledger'[r][v].ext = old.ext
      <3>1. ledger'[r][v] = row
        BY <1>1, <1>3, <2>1, WriteRowRows DEF Journal
      <3> QED BY <2>1, <3>1
    <2>7. Sound(a, q, ledger', registry', locker')
      <3>1. q.pc \in Owning /\ q.pc \notin Replacing
            /\ q.pc \notin {"lookup", "post", "answer", "resetting"}
        BY <2>1 DEF Owning, Gating, Replacing, Sending
      <3>2. q.prev < q.ver
        <4>1. attempt[a].prev = 0 BY <1>2, StillFresh, StepNames DEF Fresh
        <4>2. q.prev = 0 /\ q.ver = v BY <2>1, <4>1
        <4> QED BY <1>3, <4>2
      <3> QED BY <1>2, <2>1, <2>2, <2>3, <2>6, <3>1, <3>2 DEF Sound, Holds
    <2> QED BY <1>5, <1>6, <2>1, <2>4, <2>5, <2>7, OneMoves
  <1>8. CASE ~CanResetToDraft(old, attempt[a].bypass, attempt[a].began)
    <2>1. Stop(a) /\ UNCHANGED ledger BY <1>8 DEF ResetDraft
    <2> QED BY <1>2, <1>5, <2>1, PreparingStop
  <1> QED BY <1>7, <1>8

-----------------------------------------------------------------------------
(* What the steps after the claim do to the attempt.                       *)

GateStep(a) ==
    CheckRevision(a) \/ CheckScope(a) \/ CheckContenders(a) \/ CheckPayload(a)

LEMMA GateMove ==
    ASSUME NEW a \in Attempts, GateStep(a)
    PROVE  /\ attempt[a].pc \in {"revision", "scope", "contend", "rebuild"}
           /\ UNCHANGED <<ledgerVars, registry, wire>>
           /\ \E pc \in {"scope", "contend", "rebuild", "reserve", "retire", "fail"} :
                /\ Goto(a, pc)
                /\ pc = "retire" => attempt[a].mutation = "none"
  BY DEF GateStep, CheckRevision, CheckScope, CheckContenders, CheckPayload, Is,
     Drifted, Throw

LEMMA LatestOfMany ==
    ASSUME NEW v \in Nat, NEW active \in SUBSET (1 .. v - 1), active # {},
           NEW top \in active, \A w \in active : w <= top
    PROVE  (CHOOSE u \in active : \A w \in active : w <= u) = top
  <1>1. \A u, w \in active : u <= w /\ w <= u => u = w OBVIOUS
  <1> QED BY <1>1

\* A resumed attempt replaces the version before its own, if that is active.
LEMMA ResumedPreviousIs ==
    ASSUME Typed, RowsSound, NEW r \in Removals, NEW v \in Versions(r)
    PROVE  /\ ResumedPrevious(r, v) \in 0 .. v - 1
           /\ v > 1 /\ ledger[r][v - 1].status = "submitted" =>
                ResumedPrevious(r, v) = v - 1
  <1> DEFINE active == {u \in 1 .. v - 1 : ledger[r][u].status \in ActiveStatuses}
  <1>1. v \in 1 .. MaxVersion /\ v \in Nat BY RowFacts
  <1>2. ledger[r][v].prev \in {0, v - 1} BY DEF RowsSound
  <1>3. CASE active = {}
    <2>1. PreviousActive(r, v) = 0 BY <1>3 DEF PreviousActive
    <2>2. ~(v > 1 /\ ledger[r][v - 1].status = "submitted")
      <3> SUFFICES ASSUME v > 1, ledger[r][v - 1].status = "submitted"
                   PROVE  FALSE
        OBVIOUS
      <3>1. v - 1 \in active BY <1>1 DEF ActiveStatuses
      <3> QED BY <1>3, <3>1
    <2> QED BY <1>1, <1>2, <2>1, <2>2 DEF ResumedPrevious
  <1>4. CASE active # {}
    <2>1. active \in SUBSET (1 .. v - 1) OBVIOUS
    <2>2. PICK top \in active : \A w \in active : w <= top
      BY <1>1, <1>4, <2>1, LatestExists
    <2>3. PreviousActive(r, v) = top
      <3>1. PreviousActive(r, v) =
                CHOOSE u \in active : \A w \in active : w <= u
        BY <1>4 DEF PreviousActive
      <3> HIDE DEF active
      <3> QED BY <1>1, <1>4, <2>1, <2>2, <3>1, LatestOfMany
    <2>4. top \in 1 .. v - 1 BY <2>1, <2>2
    <2>5. v > 1 /\ ledger[r][v - 1].status = "submitted" => top = v - 1
      <3> SUFFICES ASSUME v > 1, ledger[r][v - 1].status = "submitted"
                   PROVE  top = v - 1
        OBVIOUS
      <3>1. v - 1 \in active BY <1>1 DEF ActiveStatuses
      <3> HIDE DEF active
      <3> QED BY <1>1, <2>2, <2>4, <3>1
    <2> HIDE DEF active
    <2> QED BY <1>1, <1>2, <2>3, <2>4, <2>5 DEF ResumedPrevious
  <1> QED BY <1>3, <1>4

LEMMA ReserveMove ==
    ASSUME Typed, RowsSound, NEW a \in Attempts, ReserveClaims(a)
    PROVE  /\ attempt[a].pc = "reserve"
           /\ UNCHANGED <<clock, content, ledger, claimed, locker, registry, wire>>
           /\ \/ Throw(a) /\ UNCHANGED reserved
              \/ /\ CanReserve(Submission(a), ClaimBatches(a))
                 /\ Reserve(Submission(a), ClaimBatches(a))
                 /\ Becomes(a, IF attempt[a].resumed THEN "lookup" ELSE "post",
                       attempt[a].mutation,
                       IF attempt[a].resumed
                         THEN ResumedPrevious(attempt[a].rem, attempt[a].ver)
                         ELSE attempt[a].prev,
                       "inputs", attempt[a].ext)
  <1> DEFINE next == IF attempt[a].resumed THEN "lookup" ELSE "post"
             prev == IF attempt[a].resumed
                 THEN ResumedPrevious(attempt[a].rem, attempt[a].ver)
                 ELSE attempt[a].prev
  <1>1. /\ attempt[a].pc = "reserve"
        /\ UNCHANGED <<clock, content, ledger, claimed, locker, registry, wire>>
    BY DEF ReserveClaims, Is
  <1>2. CASE CanReserve(Submission(a), ClaimBatches(a))
    <2>1. /\ attempt \in [Attempts -> Attempt] /\ attempt[a] \in Attempt
          /\ attempt[a].prev \in Nat /\ attempt[a].rem \in Removals
          /\ attempt[a].ext \in Nat
          /\ attempt[a].mutation \in {"none", "possible", "confirmed"}
      BY TypedFacts
    <2>2. /\ Reserve(Submission(a), ClaimBatches(a))
          /\ attempt' = [attempt EXCEPT ![a] = [attempt[a] EXCEPT
                !.pc = next, !.kind = "inputs", !.prev = prev]]
      BY <1>2, <2>1 DEF ReserveClaims
    <2>3. attempt[a].ver \in Versions(attempt[a].rem)
          /\ attempt[a].ver \in 1 .. MaxVersion
      BY <1>1, GateNames, NamedFacts
    <2>4. prev \in Nat
      <3>1. ResumedPrevious(attempt[a].rem, attempt[a].ver) \in
                0 .. attempt[a].ver - 1
        BY <2>1, <2>3, ResumedPreviousIs
      <3> QED BY <2>1, <2>3, <3>1
    <2>5. next \in Steps /\ "inputs" \in Kinds
      BY DEF Steps, Owning, Sending, Kinds
    <2> HIDE DEF next, prev
    <2>6. [attempt[a] EXCEPT !.pc = next, !.kind = "inputs", !.prev = prev] =
          [attempt[a] EXCEPT !.pc = next, !.mutation = attempt[a].mutation,
              !.prev = prev, !.kind = "inputs", !.ext = attempt[a].ext]
      BY <2>1 DEF Attempt
    <2>7. attempt' = [attempt EXCEPT ![a] = [attempt[a] EXCEPT
              !.pc = next, !.mutation = attempt[a].mutation,
              !.prev = prev, !.kind = "inputs", !.ext = attempt[a].ext]]
      BY <2>2, <2>6 DEF next, prev
    <2>8. Becomes(a, next, attempt[a].mutation, prev, "inputs", attempt[a].ext)
      BY <2>1, <2>4, <2>5, <2>7, BecomesSet
    <2> QED BY <1>1, <1>2, <2>2, <2>8 DEF next, prev
  <1>3. CASE ~CanReserve(Submission(a), ClaimBatches(a))
    BY <1>1, <1>3 DEF ReserveClaims
  <1> QED BY <1>2, <1>3

LEMMA MutationMove ==
    ASSUME Typed, NEW a \in Attempts, NEW pc \in Steps,
           NEW mutation \in {"none", "possible", "confirmed"},
           attempt' = [attempt EXCEPT ![a] =
               [attempt[a] EXCEPT !.pc = pc, !.mutation = mutation]]
    PROVE  Becomes(a, pc, mutation, attempt[a].prev, attempt[a].kind,
               attempt[a].ext)
  <1>1. attempt' = [attempt EXCEPT ![a] = [attempt[a] EXCEPT !.pc = pc,
            !.mutation = mutation,
            !.prev = attempt[a].prev, !.kind = attempt[a].kind,
            !.ext = attempt[a].ext]]
    BY SameFields
  <1>2. /\ attempt[a].prev \in Nat /\ attempt[a].kind \in Kinds
        /\ attempt[a].ext \in Nat
    BY TypedFacts
  <1> QED BY <1>1, <1>2, BecomesSet

LEMMA AdvanceIs ==
    ASSUME Typed, NEW a \in Attempts
    PROVE  Advance(attempt[a].mutation, "possible") \in {"possible", "confirmed"}
           /\ (attempt[a].mutation = "confirmed" =>
                 Advance(attempt[a].mutation, "possible") = "confirmed")
  BY TypedFacts DEF Advance

\* The record being sent exists, under the id the registry answered.
LEMMA ConfirmedMove ==
    ASSUME Typed, NEW a \in Attempts, NEW id \in Nat, Confirmed(a, id)
    PROVE  Becomes(a, "confirm", "confirmed", attempt[a].prev, attempt[a].kind,
               IF attempt[a].kind = "entry" THEN id ELSE attempt[a].ext)
  <1> DEFINE ext == IF attempt[a].kind = "entry" THEN id ELSE attempt[a].ext
  <1>1. /\ attempt \in [Attempts -> Attempt] /\ attempt[a].ext \in Nat
        /\ attempt[a].prev \in Nat /\ attempt[a].kind \in Kinds
    BY TypedFacts
  <1>2. attempt' = [attempt EXCEPT ![a] = [attempt[a] EXCEPT !.pc = "confirm",
            !.mutation = "confirmed", !.ext = ext]]
    BY <1>1 DEF Confirmed
  <1>3. ext \in Nat BY <1>1
  <1>4. "confirm" \in Steps BY DEF Steps, Owning, Sending
  <1> HIDE DEF ext
  <1>5. attempt' = [attempt EXCEPT ![a] = [attempt[a] EXCEPT !.pc = "confirm",
            !.mutation = "confirmed", !.prev = attempt[a].prev,
            !.kind = attempt[a].kind, !.ext = ext]]
    BY <1>2, SameFields
  <1>6. Becomes(a, "confirm", "confirmed", attempt[a].prev, attempt[a].kind, ext)
    BY <1>1, <1>3, <1>4, <1>5, BecomesSet
  <1> QED BY <1>6 DEF ext

\* A match is the number of a record, and the next number is free.
LEMMA RecordIds ==
    ASSUME Typed, NEW ref \in References
    PROVE  /\ \A id \in Matches(ref) : id \in 1 .. Len(registry[ref])
           /\ NewId(ref) \in Nat /\ NewId(ref) = Len(registry[ref]) + 1
  <1>1. registry[ref] \in Seq(BOOLEAN) BY StateFacts
  <1>2. /\ Len(registry[ref]) \in Nat
        /\ DOMAIN registry[ref] = 1 .. Len(registry[ref])
    BY <1>1, LenProperties
  <1> QED BY <1>2 DEF Matches, NewId

LEMMA CreateRecordMove ==
    ASSUME Typed, NEW ref \in References, CreateRecord(ref)
    PROVE  /\ registry' \in [References -> Seq(BOOLEAN)] /\ RegistryGrows
           /\ registry' = [registry EXCEPT ![ref] = Append(registry[ref], TRUE)]
           /\ Len(registry'[ref]) = NewId(ref)
           /\ \A other \in References \ {ref} : registry'[other] = registry[other]
           /\ registry'[ref] = Append(registry[ref], TRUE)
  <1> DEFINE records == Append(registry[ref], TRUE)
  <1>1. registry \in [References -> Seq(BOOLEAN)] BY StateFacts
  <1>2. registry' = [registry EXCEPT ![ref] = records]
    BY <1>1 DEF CreateRecord
  <1>3. records \in Seq(BOOLEAN) /\ Len(records) = Len(registry[ref]) + 1
    BY <1>1, AppendProperties
  <1>4. \A other \in References : Len(registry[other]) \in Nat
    BY <1>1, LenProperties
  <1> HIDE DEF records
  <1>5. \A other \in References : registry'[other] =
            IF other = ref THEN records ELSE registry[other]
    BY <1>1, <1>2
  <1>6. registry' \in [References -> Seq(BOOLEAN)] BY <1>1, <1>2, <1>3
  <1>7. RegistryGrows BY <1>3, <1>4, <1>5 DEF RegistryGrows
  <1> QED BY <1>2, <1>3, <1>5, <1>6, <1>7 DEF NewId, records

-----------------------------------------------------------------------------
(* The steps after the claim keep the journal.                             *)

LEMMA PlaceNames ==
    /\ {"revision", "scope", "contend", "rebuild", "retire", "reserve", "fail"}
          \subseteq (Owning \cap Steps) \ Replacing
    /\ {"lookup", "post", "answer", "confirm", "verify", "finalize"} = Replacing
    /\ Replacing \subseteq Owning \cap Steps
  BY DEF Owning, Gating, Sending, Finishing, Steps, Replacing

LEMMA GateSound ==
    ASSUME Journal, NEW a \in Attempts, GateStep(a)
    PROVE  RowsSound' /\ AttemptsSound'
  <1>1. /\ attempt[a].pc \in Owning
        /\ UNCHANGED <<ledger, locker, registry>>
    BY GateMove, PlaceNames DEF ledgerVars
  <1>2. PICK pc \in {"scope", "contend", "rebuild", "reserve", "retire", "fail"} :
            Goto(a, pc)
    BY GateMove
  <1>3. pc \in Owning /\ pc \in Steps /\ pc \notin Replacing
        /\ pc \notin {"lookup", "post", "answer"}
    BY PlaceNames
  <1>4. Advances(a, pc) BY <1>2, <1>3, GotoAdvances DEF Journal
  <1> QED BY <1>1, <1>3, <1>4, QuietAdvances

LEMMA ReserveSound ==
    ASSUME Journal, NEW a \in Attempts, ReserveClaims(a)
    PROVE  RowsSound' /\ AttemptsSound'
  <1> DEFINE r == attempt[a].rem
             v == attempt[a].ver
             next == IF attempt[a].resumed THEN "lookup" ELSE "post"
             prev == IF attempt[a].resumed THEN ResumedPrevious(r, v)
                     ELSE attempt[a].prev
  <1>1. /\ attempt[a].pc = "reserve" /\ attempt[a].pc \in Owning
        /\ UNCHANGED <<ledger, locker, registry>>
        /\ \/ Throw(a)
           \/ Becomes(a, next, attempt[a].mutation, prev, "inputs", attempt[a].ext)
    BY ReserveMove, PlaceNames DEF Journal
  <1>2. CASE Throw(a) BY <1>1, <1>2, QuietThrow
  <1>3. CASE Becomes(a, next, attempt[a].mutation, prev, "inputs", attempt[a].ext)
    <2>1. /\ r \in Removals /\ v \in Versions(r) /\ v \in 1 .. MaxVersion
          /\ attempt[a].prev \in Nat /\ attempt[a].ext \in Nat
          /\ ledger \in [Removals -> Seq(Rows(Payloads))]
      BY <1>1, TypedFacts, NamedFacts DEF Journal
    <2>2. Sound(a, attempt[a], ledger, registry, locker)
      BY DEF Journal, AttemptsSound
    <2>3. /\ ResumedPrevious(r, v) \in 0 .. v - 1
          /\ v > 1 /\ ledger[r][v - 1].status = "submitted" =>
               ResumedPrevious(r, v) = v - 1
      BY <2>1, ResumedPreviousIs DEF Journal
    <2>4. /\ prev \in Nat /\ prev < v
          /\ v > 1 /\ ledger'[r][v - 1].status = "submitted" => prev = v - 1
      <3>1. CASE attempt[a].resumed BY <1>1, <2>1, <2>3, <3>1
      <3>2. CASE ~attempt[a].resumed
        BY <1>1, <2>1, <2>2, <3>2 DEF Sound, Replaces
      <3> QED BY <3>1, <3>2
    <2>5. next \in Owning BY PlaceNames
    <2>6. /\ attempt[a].ext <= Len(registry'[EntryOn(r, v)])
          /\ Holds(attempt[a], ledger') => ledger'[r][v].ext \in {0, attempt[a].ext}
      BY <1>1, <2>2 DEF Sound
    <2>7. RowsRespected(a) /\ ledger' \in [Removals -> Seq(Rows(Payloads))]
      BY <1>1, <2>1, QuietRespects DEF Journal
    <2>8. RegistryGrows /\ registry' \in [References -> Seq(BOOLEAN)]
      BY <1>1, SameRegistryGrows DEF Journal
    <2> HIDE DEF next, prev
    <2>9. AttemptsSound'
      BY <1>1, <1>3, <2>4, <2>5, <2>6, <2>7, <2>8, BecomesSound
    <2> QED BY <1>1, <2>8, <2>9, RowsQuiet
  <1> QED BY <1>1, <1>2, <1>3

\* The registry knows the record under the id the attempt takes over.
LEMMA ConfirmedSound ==
    ASSUME Journal, NEW a \in Attempts,
           attempt[a].pc \in {"lookup", "post", "answer"}, NEW id \in Nat,
           Confirmed(a, id), UNCHANGED <<ledger, locker>>, RegistryGrows,
           registry' \in [References -> Seq(BOOLEAN)],
           id <= Len(registry'[Reference(a)])
    PROVE  RowsSound' /\ AttemptsSound'
  <1> DEFINE ext == IF attempt[a].kind = "entry" THEN id ELSE attempt[a].ext
  <1>1. Becomes(a, "confirm", "confirmed", attempt[a].prev, attempt[a].kind, ext)
    BY ConfirmedMove DEF Journal
  <1>2. Sound(a, attempt[a], ledger, registry, locker)
    BY DEF Journal, AttemptsSound
  <1>3. attempt[a].pc \in Owning /\ attempt[a].pc \in Replacing
        /\ "confirm" \in Owning
    BY PlaceNames
  <1>4. ext = attempt[a].ext
        \/ /\ ext <= Len(registry'[EntryOn(attempt[a].rem, attempt[a].ver)])
           /\ attempt[a].ext = 0
    <2>1. attempt[a].kind = "entry" =>
              Reference(a) = EntryOn(attempt[a].rem, attempt[a].ver)
      BY DEF Reference, EntryOn
    <2> QED BY <1>2, <1>3, <2>1 DEF Sound
  <1> HIDE DEF ext
  <1> QED BY <1>1, <1>3, <1>4, QuietBecomes

LEMMA LookupSound ==
    ASSUME Journal, NEW a \in Attempts,
           LookupFound(a) \/ LookupNone(a) \/ LookupFails(a)
    PROVE  RowsSound' /\ AttemptsSound'
  <1>1. attempt[a].pc = "lookup" /\ UNCHANGED <<ledger, locker, registry>>
    BY DEF LookupFound, LookupNone, LookupFails, Is, ledgerVars
  <1>2. attempt[a].pc \in Owning /\ attempt[a].pc \in Replacing
    BY <1>1, PlaceNames
  <1>3. RegistryGrows /\ registry' \in [References -> Seq(BOOLEAN)]
    BY <1>1, SameRegistryGrows DEF Journal
  <1>4. Reference(a) \in References BY <1>2, NamedFacts DEF Journal
  <1>5. CASE LookupFound(a)
    <2>1. PICK id \in Matches(Reference(a)) : Confirmed(a, id)
      BY <1>5 DEF LookupFound
    <2>2. id \in 1 .. Len(registry[Reference(a)])
          /\ Len(registry[Reference(a)]) \in Nat
      BY <1>4, RecordIds, StateFacts, LenProperties DEF Journal
    <2>3. id \in Nat /\ id <= Len(registry'[Reference(a)]) BY <1>1, <2>2
    <2> QED BY <1>1, <1>3, <2>1, <2>3, ConfirmedSound
  <1>6. CASE LookupNone(a)
    <2>1. Goto(a, "post") BY <1>6 DEF LookupNone
    <2>2. Advances(a, "post") BY <2>1, PlaceNames, GotoAdvances DEF Journal
    <2> QED BY <1>1, <1>2, <2>2, PlaceNames, QuietAdvances
  <1>7. CASE LookupFails(a)
    <2> DEFINE mutation == Advance(attempt[a].mutation, "possible")
    <2>1. attempt' = [attempt EXCEPT ![a] =
              [attempt[a] EXCEPT !.pc = "fail", !.mutation = mutation]]
      BY <1>7, StateFacts DEF LookupFails, ThrowWith, Journal
    <2>2. mutation \in {"none", "possible", "confirmed"}
      BY AdvanceIs DEF Journal
    <2> HIDE DEF mutation
    <2>3. Becomes(a, "fail", mutation, attempt[a].prev, attempt[a].kind,
              attempt[a].ext)
      BY <2>1, <2>2, PlaceNames, MutationMove DEF Journal
    <2> QED BY <1>1, <1>2, <1>3, <2>3, PlaceNames, QuietBecomes
  <1> QED BY <1>5, <1>6, <1>7

LEMMA PostSound ==
    ASSUME Journal, NEW a \in Attempts,
           PostAnswered(a) \/ PostRefused(a) \/ PostUnanswered(a)
    PROVE  RowsSound' /\ AttemptsSound'
  <1>1. attempt[a].pc = "post" /\ UNCHANGED <<ledger, locker>>
    BY DEF PostAnswered, PostRefused, PostUnanswered, Is, ledgerVars
  <1>2. attempt[a].pc \in Owning /\ attempt[a].pc \in Replacing
        /\ "answer" \in Owning \cap Steps
    BY <1>1, PlaceNames
  <1>3. Reference(a) \in References BY <1>2, NamedFacts DEF Journal
  <1>4. CASE PostAnswered(a)
    <2>1. CreateRecord(Reference(a)) /\ Confirmed(a, NewId(Reference(a)))
      BY <1>4 DEF PostAnswered
    <2>2. /\ registry' \in [References -> Seq(BOOLEAN)] /\ RegistryGrows
          /\ Len(registry'[Reference(a)]) = NewId(Reference(a))
          /\ NewId(Reference(a)) \in Nat
      BY <1>3, <2>1, CreateRecordMove, RecordIds DEF Journal
    <2> QED BY <1>1, <2>1, <2>2, ConfirmedSound
  <1>5. CASE PostRefused(a)
    <2>1. Goto(a, "answer") /\ UNCHANGED registry BY <1>5 DEF PostRefused
    <2>2. Advances(a, "answer") BY <1>2, <2>1, GotoAdvances DEF Journal
    <2> QED BY <1>1, <1>2, <2>1, <2>2, QuietAdvances
  <1>6. CASE PostUnanswered(a)
    <2> DEFINE mutation == Advance(attempt[a].mutation, "possible")
    <2>1. attempt' = [attempt EXCEPT ![a] =
              [attempt[a] EXCEPT !.pc = "answer", !.mutation = mutation]]
      BY <1>6, StateFacts DEF PostUnanswered, Journal
    <2>2. mutation \in {"none", "possible", "confirmed"}
      BY AdvanceIs DEF Journal
    <2>3. UNCHANGED registry \/ CreateRecord(Reference(a))
      BY <1>6 DEF PostUnanswered
    <2>4. RegistryGrows /\ registry' \in [References -> Seq(BOOLEAN)]
      BY <1>3, <2>3, CreateRecordMove, SameRegistryGrows DEF Journal
    <2> HIDE DEF mutation
    <2>5. Becomes(a, "answer", mutation, attempt[a].prev, attempt[a].kind,
              attempt[a].ext)
      BY <1>2, <2>1, <2>2, MutationMove DEF Journal
    <2>6. attempt[a].kind = "entry" => attempt[a].ext = 0
      BY <1>1, <1>2 DEF Journal, AttemptsSound, Sound
    <2> QED BY <1>1, <1>2, <2>4, <2>5, <2>6, QuietBecomes
  <1> QED BY <1>4, <1>5, <1>6

LEMMA ReconcileSound ==
    ASSUME Journal, NEW a \in Attempts, Reconcile(a)
    PROVE  RowsSound' /\ AttemptsSound'
  <1>1. attempt[a].pc = "answer" /\ UNCHANGED <<ledger, locker, registry>>
    BY DEF Reconcile, Is, ledgerVars
  <1>2. attempt[a].pc \in Owning /\ attempt[a].pc \in Replacing
    BY <1>1, PlaceNames
  <1>3. RegistryGrows /\ registry' \in [References -> Seq(BOOLEAN)]
    BY <1>1, SameRegistryGrows DEF Journal
  <1>4. Reference(a) \in References BY <1>2, NamedFacts DEF Journal
  <1>5. ASSUME NEW id \in Matches(Reference(a)), Confirmed(a, id)
        PROVE  RowsSound' /\ AttemptsSound'
    <2>1. id \in 1 .. Len(registry[Reference(a)])
          /\ Len(registry[Reference(a)]) \in Nat
      BY <1>4, RecordIds, StateFacts, LenProperties DEF Journal
    <2>2. id \in Nat /\ id <= Len(registry'[Reference(a)]) BY <1>1, <2>1
    <2> QED BY <1>1, <1>3, <1>5, <2>2, ConfirmedSound
  <1>6. CASE Throw(a) BY <1>1, <1>2, <1>6, QuietThrow
  <1> QED BY <1>5, <1>6 DEF Reconcile

-----------------------------------------------------------------------------
(* What the last steps write to the row.                                   *)

LEMMA RetireMove ==
    ASSUME Typed, NEW a \in Attempts, Retire(a)
    PROVE  /\ attempt[a].pc = "retire" /\ Throw(a)
           /\ UNCHANGED <<clock, content, claimed, locker, registry, wire>>
           /\ \/ Row(a).status # "draft" /\ UNCHANGED <<ledger, reserved>>
              \/ /\ Row(a).status = "draft" /\ Release(Submission(a))
                 /\ \E row \in Rows(Payloads) :
                      /\ WriteRow(attempt[a].rem, attempt[a].ver, row)
                      /\ row.status = "superseded" /\ row.lockedAt = NoLock
                      /\ row.hash = Row(a).hash /\ row.ext = Row(a).ext
                      /\ row.mutation = Row(a).mutation
                      /\ row.refresh = Row(a).refresh /\ row.prev = Row(a).prev
  <1> DEFINE old == Row(a)
             row == [old EXCEPT !.status = "superseded", !.lockedAt = NoLock]
  <1>1. /\ attempt[a].pc = "retire" /\ Throw(a)
        /\ UNCHANGED <<clock, content, claimed, locker, registry, wire>>
    BY DEF Retire, Is
  <1>2. old \in Rows(Payloads) BY <1>1, PlaceNames, NamedFacts
  <1>3. \/ old.status # "draft" /\ UNCHANGED <<ledger, reserved>>
        \/ /\ old.status = "draft" /\ Release(Submission(a))
           /\ WriteRow(attempt[a].rem, attempt[a].ver, row)
    BY DEF Retire, RetireDraft, Row, Submission
  <1> HIDE DEF old
  <1>4. row \in Rows(Payloads)
    BY ZenonT(60), <1>2 DEF Rows, Statuses, NoLock, Locks
  <1>5. /\ row.status = "superseded" /\ row.lockedAt = NoLock
        /\ row.hash = old.hash /\ row.ext = old.ext
        /\ row.mutation = old.mutation
        /\ row.refresh = old.refresh /\ row.prev = old.prev
    BY <1>2 DEF Rows
  <1> HIDE DEF row
  <1> QED BY <1>1, <1>3, <1>4, <1>5 DEF old

LEMMA ConfirmMove ==
    ASSUME Typed, NEW a \in Attempts, Confirm(a)
    PROVE  /\ attempt[a].pc = "confirm"
           /\ UNCHANGED <<clock, content, claimed, reserved, locker, registry, wire>>
           /\ \/ /\ attempt[a].kind = "inputs" /\ UNCHANGED ledger
                 /\ Becomes(a, NextAfterInputs(a), attempt[a].mutation,
                       attempt[a].prev, "entry", attempt[a].ext)
              \/ /\ attempt[a].kind = "entry"
                 /\ HoldsLock(attempt[a].rem, attempt[a].ver, attempt[a].stamp)
                 /\ Advances(a, "verify")
                 /\ \E row \in Rows(Payloads) :
                      /\ WriteRow(attempt[a].rem, attempt[a].ver, row)
                      /\ row.ext = attempt[a].ext /\ row.mutation = "confirmed"
                      /\ row.status = Row(a).status /\ row.hash = Row(a).hash
                      /\ row.lockedAt = Row(a).lockedAt
                      /\ row.outcome = Row(a).outcome
                      /\ row.refresh = Row(a).refresh /\ row.prev = Row(a).prev
              \/ /\ Throw(a) /\ UNCHANGED ledger
  <1> DEFINE old == Row(a)
             row == [old EXCEPT !.ext = attempt[a].ext, !.mutation = "confirmed"]
             next == NextAfterInputs(a)
  <1>1. /\ attempt[a].pc = "confirm"
        /\ UNCHANGED <<clock, content, claimed, reserved, locker, registry, wire>>
    BY DEF Confirm, Is
  <1>2. /\ old \in Rows(Payloads) /\ attempt[a].ext \in Nat
        /\ attempt \in [Attempts -> Attempt] /\ attempt[a] \in Attempt
        /\ attempt[a].kind \in {"inputs", "entry"} /\ attempt[a].prev \in Nat
        /\ attempt[a].mutation \in {"none", "possible", "confirmed"}
    BY <1>1, PlaceNames, NamedFacts, TypedFacts DEF Kinds
  <1>3. CASE attempt[a].kind = "inputs"
    <2>1. /\ UNCHANGED ledger
          /\ attempt' = [attempt EXCEPT ![a] = [attempt[a] EXCEPT
                !.kind = "entry", !.pc = next]]
      BY <1>2, <1>3 DEF Confirm
    <2>2. next \in {"verify", "lookup", "post"} BY DEF NextAfterInputs
    <2> HIDE DEF next
    <2>3. attempt' = [attempt EXCEPT ![a] = [attempt[a] EXCEPT
              !.pc = next, !.mutation = attempt[a].mutation,
              !.prev = attempt[a].prev, !.kind = "entry",
              !.ext = attempt[a].ext]]
      BY <1>2, <2>1 DEF Attempt
    <2>4. next \in Steps /\ "entry" \in Kinds BY <2>2, PlaceNames DEF Kinds
    <2>5. Becomes(a, next, attempt[a].mutation, attempt[a].prev, "entry",
              attempt[a].ext)
      BY <1>2, <2>3, <2>4, BecomesSet
    <2> QED BY <1>1, <1>3, <2>1, <2>5 DEF next
  <1>4. CASE attempt[a].kind = "entry"
             /\ HoldsLock(attempt[a].rem, attempt[a].ver, attempt[a].stamp)
    <2>1. WriteRow(attempt[a].rem, attempt[a].ver, row) /\ Goto(a, "verify")
      BY <1>4 DEF Confirm, RecordIdentity, Row
    <2>2. Advances(a, "verify") BY <2>1, PlaceNames, GotoAdvances
    <2> HIDE DEF old
    <2>3. row \in Rows(Payloads)
      BY ZenonT(60), <1>2 DEF Rows, Mutations
    <2>4. /\ row.ext = attempt[a].ext /\ row.mutation = "confirmed"
          /\ row.status = old.status /\ row.hash = old.hash
          /\ row.lockedAt = old.lockedAt /\ row.outcome = old.outcome
          /\ row.refresh = old.refresh /\ row.prev = old.prev
      BY <1>2 DEF Rows
    <2> HIDE DEF row
    <2> QED BY <1>1, <1>4, <2>1, <2>2, <2>3, <2>4 DEF old
  <1>5. CASE attempt[a].kind = "entry"
             /\ ~HoldsLock(attempt[a].rem, attempt[a].ver, attempt[a].stamp)
    <2>1. Throw(a) /\ UNCHANGED ledger BY <1>5 DEF Confirm
    <2> QED BY <1>1, <2>1
  <1> QED BY <1>2, <1>3, <1>4, <1>5

LEMMA VerifyMove ==
    ASSUME Typed, NEW a \in Attempts, Verify(a)
    PROVE  /\ attempt[a].pc = "verify"
           /\ UNCHANGED <<ledgerVars, registry, wire>>
           /\ Becomes(a, "finalize", "confirmed", attempt[a].prev,
                 attempt[a].kind, attempt[a].ext)
  <1>1. attempt[a].pc = "verify" /\ UNCHANGED <<ledgerVars, registry, wire>>
    BY DEF Verify, Is
  <1>2. attempt' = [attempt EXCEPT ![a] =
            [attempt[a] EXCEPT !.pc = "finalize", !.mutation = "confirmed"]]
    BY StateFacts DEF Verify
  <1> QED BY <1>1, <1>2, PlaceNames, MutationMove

\* A failed attempt rejects its row, or marks it as interrupted.
LEMMA RecordFailureMove ==
    ASSUME Typed, NEW a \in Attempts, RecordFailure(a)
    PROVE  /\ attempt[a].pc = "fail" /\ Stop(a)
           /\ UNCHANGED <<clock, content, claimed, locker, registry, wire>>
           /\ \/ UNCHANGED ledger /\ UNCHANGED reserved
              \/ /\ UNCHANGED ledger /\ Release(Submission(a))
                 /\ attempt[a].mutation = "none"
                 /\ Row(a).status \in {"rejected", "superseded"}
              \/ /\ attempt[a].mutation = "none" /\ Release(Submission(a))
                 /\ HoldsLock(attempt[a].rem, attempt[a].ver, attempt[a].stamp)
                 /\ ~HasPossibleExternalMutation(Row(a))
                 /\ \E row \in Rows(Payloads) :
                      /\ WriteRow(attempt[a].rem, attempt[a].ver, row)
                      /\ row.status = "rejected" /\ row.lockedAt = NoLock
                      /\ row.outcome = "none" /\ row.mutation = "unset"
                      /\ row.hash = Row(a).hash /\ row.ext = Row(a).ext
                      /\ row.refresh = Row(a).refresh /\ row.prev = Row(a).prev
              \/ /\ attempt[a].mutation # "none" /\ UNCHANGED reserved
                 /\ HoldsLock(attempt[a].rem, attempt[a].ver, attempt[a].stamp)
                 /\ \E row \in Rows(Payloads) :
                      /\ WriteRow(attempt[a].rem, attempt[a].ver, row)
                      /\ row.outcome = "interrupted"
                      /\ row.mutation = attempt[a].mutation
                      /\ row.status = Row(a).status /\ row.hash = Row(a).hash
                      /\ row.ext = Row(a).ext /\ row.lockedAt = Row(a).lockedAt
                      /\ row.refresh = Row(a).refresh /\ row.prev = Row(a).prev
  <1> DEFINE old == Row(a)
             mutation == attempt[a].mutation
             rejected == [old EXCEPT !.status = "rejected", !.lockedAt = NoLock,
                            !.outcome = "none", !.mutation = "unset"]
             marked == [old EXCEPT !.outcome = "interrupted",
                          !.mutation = mutation]
  <1>1. /\ attempt[a].pc = "fail" /\ Stop(a)
        /\ UNCHANGED <<clock, content, claimed, locker, registry, wire>>
    BY DEF RecordFailure, Is
  <1>2. old \in Rows(Payloads) /\ mutation \in {"none", "possible", "confirmed"}
    BY <1>1, PlaceNames, NamedFacts, TypedFacts
  <1>3. CASE mutation = "none"
    <2>1. RejectAndRelease(attempt[a].rem, attempt[a].ver, attempt[a].stamp)
      BY <1>3 DEF RecordFailure
    <2>2. \/ UNCHANGED <<ledger, reserved>>
          \/ /\ UNCHANGED ledger /\ Release(Submission(a))
             /\ old.status \in {"rejected", "superseded"}
          \/ /\ Release(Submission(a))
             /\ HoldsLock(attempt[a].rem, attempt[a].ver, attempt[a].stamp)
             /\ ~HasPossibleExternalMutation(old)
             /\ WriteRow(attempt[a].rem, attempt[a].ver, rejected)
      BY <2>1 DEF RejectAndRelease, Row, Submission
    <2> HIDE DEF old
    <2>3. rejected \in Rows(Payloads)
      BY ZenonT(60), <1>2 DEF Rows, Statuses, Outcomes, Mutations, NoLock, Locks
    <2>4. /\ rejected.status = "rejected" /\ rejected.lockedAt = NoLock
          /\ rejected.outcome = "none" /\ rejected.mutation = "unset"
          /\ rejected.hash = old.hash /\ rejected.ext = old.ext
          /\ rejected.refresh = old.refresh /\ rejected.prev = old.prev
      BY <1>2 DEF Rows
    <2> HIDE DEF rejected
    <2> QED BY <1>1, <1>3, <2>2, <2>3, <2>4 DEF old
  <1>4. CASE mutation # "none"
    <2>1. /\ UNCHANGED reserved
          /\ \/ UNCHANGED ledger
             \/ /\ HoldsLock(attempt[a].rem, attempt[a].ver, attempt[a].stamp)
                /\ WriteRow(attempt[a].rem, attempt[a].ver, marked)
      BY <1>4 DEF RecordFailure, MarkInterrupted, Row
    <2> HIDE DEF old
    <2>2. marked \in Rows(Payloads)
      <3>1. mutation \in Mutations BY <1>2 DEF Mutations
      <3> HIDE DEF mutation
      <3> QED BY ZenonT(60), <1>2, <3>1 DEF Rows, Outcomes
    <2>3. /\ marked.outcome = "interrupted" /\ marked.mutation = mutation
          /\ marked.status = old.status /\ marked.hash = old.hash
          /\ marked.ext = old.ext /\ marked.lockedAt = old.lockedAt
          /\ marked.refresh = old.refresh /\ marked.prev = old.prev
      BY <1>2 DEF Rows
    <2> HIDE DEF marked
    <2> QED BY <1>1, <1>4, <2>1, <2>2, <2>3 DEF old
  <1> QED BY <1>3, <1>4

\* The finalized row, the row it replaces, and the rows left alone.
LEMMA FinalizeRows ==
    ASSUME Typed, NEW r \in Removals, NEW v \in Versions(r),
           NEW ext \in Nat, NEW prev, NEW batches,
           Finalize([rem |-> r, ver |-> v], ext, prev, batches)
    PROVE  /\ ledger' \in [Removals -> Seq(Rows(Payloads))]
           /\ \A q \in Removals : Len(ledger'[q]) = Len(ledger[q])
           /\ /\ ledger'[r][v].status = "submitted" /\ ledger'[r][v].ext = ext
              /\ ledger'[r][v].lockedAt = NoLock
              /\ ledger'[r][v].outcome = "none"
              /\ ledger'[r][v].mutation = "unset"
              /\ ledger'[r][v].hash = ledger[r][v].hash
              /\ ledger'[r][v].refresh = ledger[r][v].refresh
              /\ ledger'[r][v].prev = ledger[r][v].prev
           /\ \A u \in Versions(r) \ {v} : u = prev =>
              /\ ledger'[r][u].status = "superseded"
              /\ ledger'[r][u].ext = ledger[r][u].ext
              /\ ledger'[r][u].lockedAt = ledger[r][u].lockedAt
              /\ ledger'[r][u].outcome = ledger[r][u].outcome
              /\ ledger'[r][u].mutation = ledger[r][u].mutation
              /\ ledger'[r][u].hash = ledger[r][u].hash
              /\ ledger'[r][u].refresh = ledger[r][u].refresh
              /\ ledger'[r][u].prev = ledger[r][u].prev
           /\ \A q \in Removals : \A u \in Versions(q) :
              ~(q = r /\ u \in {v, prev}) => ledger'[q][u] = ledger[q][u]
  <1> DEFINE final == [ledger[r][v] EXCEPT !.status = "submitted", !.ext = ext,
                         !.lockedAt = NoLock, !.outcome = "none",
                         !.mutation = "unset"]
             old(u) == [ledger[r][u] EXCEPT !.status = "superseded"]
             new(u) == IF u = v THEN final
                       ELSE IF u = prev THEN old(u) ELSE ledger[r][u]
             rows == [u \in 1 .. Len(ledger[r]) |-> new(u)]
  <1>1. ledger \in [Removals -> Seq(Rows(Payloads))] BY StateFacts
  <1>2. ledger' = [ledger EXCEPT ![r] = [u \in 1 .. Len(ledger[r]) |->
            IF u = v
              THEN [ledger[r][u] EXCEPT !.status = "submitted", !.ext = ext,
                      !.lockedAt = NoLock, !.outcome = "none",
                      !.mutation = "unset"]
            ELSE IF u = prev THEN [ledger[r][u] EXCEPT !.status = "superseded"]
            ELSE ledger[r][u]]]
    BY <1>1, LenProperties DEF Finalize
  <1>3. ledger' = [ledger EXCEPT ![r] = rows] BY <1>2
  <1>4. \A u \in Versions(r) : ledger[r][u] \in Rows(Payloads)
    BY <1>1, ElementOfSeq DEF Versions
  <1>5. final \in Rows(Payloads)
    BY ZenonT(60), <1>4 DEF Rows, Statuses, Outcomes, Mutations, NoLock, Locks
  <1>6. /\ final.status = "submitted" /\ final.ext = ext
        /\ final.lockedAt = NoLock /\ final.outcome = "none"
        /\ final.mutation = "unset" /\ final.hash = ledger[r][v].hash
        /\ final.refresh = ledger[r][v].refresh
        /\ final.prev = ledger[r][v].prev
    BY <1>4 DEF Rows
  <1>7. \A u \in Versions(r) : old(u) \in Rows(Payloads)
    BY ZenonT(60), <1>4 DEF Rows, Statuses
  <1>8. \A u \in Versions(r) :
            /\ old(u).status = "superseded" /\ old(u).ext = ledger[r][u].ext
            /\ old(u).lockedAt = ledger[r][u].lockedAt
            /\ old(u).outcome = ledger[r][u].outcome
            /\ old(u).mutation = ledger[r][u].mutation
            /\ old(u).hash = ledger[r][u].hash
            /\ old(u).refresh = ledger[r][u].refresh
            /\ old(u).prev = ledger[r][u].prev
    BY <1>4 DEF Rows
  <1> HIDE DEF final, old
  <1>9. \A u \in 1 .. Len(ledger[r]) : new(u) \in Rows(Payloads)
    BY <1>4, <1>5, <1>7 DEF Versions
  <1>10. Len(ledger[r]) \in Nat BY <1>1, LenProperties
  <1>11. rows \in Seq(Rows(Payloads))
    <2> HIDE DEF new
    <2> QED BY <1>9, <1>10, IsASeq
  <1>12. Len(rows) = Len(ledger[r])
    <2> HIDE DEF new
    <2> QED BY <1>10, <1>11, LenProperties
  <1>13. \A u \in Versions(r) : rows[u] = new(u) BY DEF Versions
  <1> HIDE DEF rows
  <1>14. \A q \in Removals : ledger'[q] = IF q = r THEN rows ELSE ledger[q]
    BY <1>1, <1>3
  <1>15. ledger' \in [Removals -> Seq(Rows(Payloads))] BY <1>1, <1>3, <1>11
  <1>16. ledger'[r][v] = final BY <1>13, <1>14
  <1>17. \A u \in Versions(r) \ {v} : u = prev => ledger'[r][u] = old(u)
    BY <1>13, <1>14
  <1>18. \A q \in Removals : \A u \in Versions(q) :
             ~(q = r /\ u \in {v, prev}) => ledger'[q][u] = ledger[q][u]
    BY <1>13, <1>14
  <1>19. \A q \in Removals : Len(ledger'[q]) = Len(ledger[q])
    BY <1>12, <1>14
  <1> QED BY <1>6, <1>8, <1>15, <1>16, <1>17, <1>18, <1>19

\* The same, by name, for the steps that follow what Finalize leaves.
SubmittedRow(row, old, ext) ==
    /\ row.status = "submitted" /\ row.ext = ext
    /\ row.lockedAt = NoLock /\ row.mutation = "unset"
    /\ row.refresh = old.refresh /\ row.prev = old.prev

SupersededRow(row, old) ==
    /\ row.status = "superseded" /\ row.ext = old.ext
    /\ row.lockedAt = old.lockedAt /\ row.mutation = old.mutation
    /\ row.refresh = old.refresh /\ row.prev = old.prev

FinalRows(r, v, ext, prev) ==
    /\ ledger' \in [Removals -> Seq(Rows(Payloads))]
    /\ \A q \in Removals : Len(ledger'[q]) = Len(ledger[q])
    /\ SubmittedRow(ledger'[r][v], ledger[r][v], ext)
    /\ \A u \in Versions(r) \ {v} :
          u = prev => SupersededRow(ledger'[r][u], ledger[r][u])
    /\ \A q \in Removals : \A u \in Versions(q) :
          ~(q = r /\ u \in {v, prev}) => ledger'[q][u] = ledger[q][u]

LEMMA FinalRowsAre ==
    ASSUME Typed, NEW r \in Removals, NEW v \in Versions(r),
           NEW ext \in Nat, NEW prev, NEW batches,
           Finalize([rem |-> r, ver |-> v], ext, prev, batches)
    PROVE  FinalRows(r, v, ext, prev)
  BY FinalizeRows DEF FinalRows, SubmittedRow, SupersededRow

LEMMA FinalizeMove ==
    ASSUME Typed, NEW a \in Attempts, FinalizeSubmission(a)
    PROVE  /\ attempt[a].pc = "finalize"
           /\ UNCHANGED <<clock, content, locker, registry, wire>>
           /\ \/ Throw(a) /\ UNCHANGED <<ledger, claimed, reserved>>
              \/ /\ CanFinalize(Submission(a), attempt[a].stamp, ClaimBatches(a))
                 /\ HoldsLock(attempt[a].rem, attempt[a].ver, attempt[a].stamp)
                 /\ Finalize([rem |-> attempt[a].rem, ver |-> attempt[a].ver],
                        attempt[a].ext, attempt[a].prev, ClaimBatches(a))
                 /\ Stop(a)
  BY DEF FinalizeSubmission, Is, CanFinalize, Submission

-----------------------------------------------------------------------------
(* The last steps keep the journal.                                        *)

LEMMA RetireSound ==
    ASSUME Journal, NEW a \in Attempts, Retire(a)
    PROVE  RowsSound' /\ AttemptsSound'
  <1> DEFINE r == attempt[a].rem
             v == attempt[a].ver
  <1>1. /\ attempt[a].pc = "retire" /\ attempt[a].pc \in Owning /\ Throw(a)
        /\ UNCHANGED <<locker, registry>>
    BY RetireMove, PlaceNames DEF Journal
  <1>2. /\ r \in Removals /\ v \in Versions(r) /\ v \in 1 .. MaxVersion
        /\ attempt[a].prev \in Nat /\ attempt[a].ext \in Nat
        /\ Row(a) = ledger[r][v]
    BY <1>1, TypedFacts, NamedFacts DEF Journal
  <1>3. CASE UNCHANGED ledger BY <1>1, <1>3, QuietThrow
  <1>4. ASSUME NEW row \in Rows(Payloads), WriteRow(r, v, row),
               row.status = "superseded", row.ext = Row(a).ext,
               row.refresh = Row(a).refresh, row.prev = Row(a).prev
        PROVE  RowsSound' /\ AttemptsSound'
    <2>1. ~ledger[r][v].refresh
          /\ ledger[r][v].ext <= Len(registry[EntryOn(r, v)])
      BY <1>2 DEF Journal, RowsSound
    <2>2. RowsSound' BY <1>1, <1>2, <1>4, <2>1, WriteRowSound
    <2>3. RowsRespected(a) /\ ledger' \in [Removals -> Seq(Rows(Payloads))]
      BY <1>2, <1>4, WriteRowRespects, WriteRowRows DEF Journal
    <2>4. Advances(a, "fail") BY <1>1, PlaceNames, GotoAdvances DEF Throw, Journal
    <2>5. Sound(a, attempt[a], ledger, registry, locker)
      BY DEF Journal, AttemptsSound
    <2>6. /\ ledger'[r][v].status = "superseded"
          /\ v > 1 => ledger'[r][v - 1] = ledger[r][v - 1]
      BY SMTT(30), <1>2, <1>4, WriteRowRows DEF Journal, Versions
    <2>7. RegistryGrows /\ registry' \in [References -> Seq(BOOLEAN)]
      BY <1>1, SameRegistryGrows DEF Journal
    <2>8. "fail" \in Owning /\ "fail" \notin Replacing
          /\ "fail" \notin {"lookup", "post", "answer"}
      BY PlaceNames
    <2>9. /\ attempt[a].prev < v
          /\ attempt[a].ext <= Len(registry'[EntryOn(r, v)])
          /\ ~attempt[a].resumed => Replaces(attempt[a], ledger)
      BY <1>1, <2>5 DEF Sound
    <2>10. ~Holds(attempt[a], ledger') BY <2>6 DEF Holds
    <2>11. ~attempt[a].resumed =>
              (v > 1 /\ ledger'[r][v - 1].status = "submitted" =>
                 attempt[a].prev = v - 1)
      BY <2>6, <2>9 DEF Replaces
    <2>12. Becomes(a, "fail", attempt[a].mutation, attempt[a].prev,
               attempt[a].kind, attempt[a].ext)
      BY <2>4 DEF Advances
    <2>13. AttemptsSound'
      BY <1>1, <1>2, <2>3, <2>7, <2>8, <2>9, <2>10, <2>11, <2>12, BecomesSound
    <2> QED BY <2>2, <2>13
  <1> QED BY <1>3, <1>4, RetireMove DEF Journal

LEMMA ConfirmSound ==
    ASSUME Journal, NEW a \in Attempts, Confirm(a)
    PROVE  RowsSound' /\ AttemptsSound'
  <1> DEFINE r == attempt[a].rem
             v == attempt[a].ver
  <1>1. /\ attempt[a].pc = "confirm" /\ attempt[a].pc \in Owning
        /\ attempt[a].pc \in Replacing /\ UNCHANGED <<locker, registry>>
    BY ConfirmMove, PlaceNames DEF Journal
  <1>2. /\ r \in Removals /\ v \in Versions(r) /\ v \in 1 .. MaxVersion
        /\ attempt[a].prev \in Nat /\ attempt[a].ext \in Nat
        /\ Row(a) = ledger[r][v] /\ Row(a) \in Rows(Payloads)
        /\ ledger \in [Removals -> Seq(Rows(Payloads))]
    BY <1>1, TypedFacts, NamedFacts DEF Journal
  <1>3. Sound(a, attempt[a], ledger, registry, locker)
    BY DEF Journal, AttemptsSound
  <1>4. RegistryGrows /\ registry' \in [References -> Seq(BOOLEAN)]
    BY <1>1, SameRegistryGrows DEF Journal
  <1>5. /\ attempt[a].prev < v /\ attempt[a].ext <= Len(registry[EntryOn(r, v)])
        /\ Replaces(attempt[a], ledger)
        /\ Holds(attempt[a], ledger) => ledger[r][v].ext \in {0, attempt[a].ext}
    BY <1>1, <1>3 DEF Sound
  <1>6. CASE attempt[a].kind = "inputs" /\ UNCHANGED ledger
             /\ Becomes(a, NextAfterInputs(a), attempt[a].mutation,
                   attempt[a].prev, "entry", attempt[a].ext)
    <2> DEFINE next == NextAfterInputs(a)
    <2>1. /\ next \in Owning
          /\ next \in {"lookup", "post", "answer"} => attempt[a].ext = 0
      BY <1>2, PlaceNames DEF NextAfterInputs
    <2>2. RowsRespected(a) BY <1>6, QuietRespects DEF Journal
    <2> HIDE DEF next
    <2>3. AttemptsSound'
      BY <1>1, <1>2, <1>4, <1>5, <1>6, <2>1, <2>2, BecomesSound
      DEF Holds, Replaces, next
    <2> QED BY <1>4, <1>6, <2>3, RowsQuiet
  <1>7. ASSUME HoldsLock(r, v, attempt[a].stamp), Advances(a, "verify"),
               NEW row \in Rows(Payloads), WriteRow(r, v, row),
               row.ext = attempt[a].ext, row.status = Row(a).status,
               row.lockedAt = Row(a).lockedAt,
               row.refresh = Row(a).refresh, row.prev = Row(a).prev
        PROVE  RowsSound' /\ AttemptsSound'
    <2>1. /\ Row(a).status = "draft" /\ Row(a).lockedAt = attempt[a].stamp
          /\ attempt[a].stamp.by = a
      BY <1>1, <1>2, <1>3, <1>7 DEF HoldsLock, Sound
    <2>2. ~ledger[r][v].refresh /\ v = Len(ledger[r])
          /\ ledger[r][v].lockedAt # NoLock
      BY <1>2, <2>1 DEF Journal, RowsSound
    <2>3. RowsSound' BY <1>1, <1>2, <1>5, <1>7, <2>1, <2>2, WriteRowSound
    <2>4. RowsRespected(a) /\ ledger' \in [Removals -> Seq(Rows(Payloads))]
      <3>1. Typed BY DEF Journal
      <3>2. row.status = "draft" /\ row.lockedAt.by = a BY <1>7, <2>1
      <3>3. RowsRespected(a) BY <1>2, <1>7, <3>1, <3>2, WriteRowRespects
      <3>4. ledger' \in [Removals -> Seq(Rows(Payloads))]
        BY <1>2, <1>7, <3>1, WriteRowRows
      <3> QED BY <3>3, <3>4
    <2>5. /\ ledger'[r][v].ext = attempt[a].ext
          /\ v > 1 => ledger'[r][v - 1] = ledger[r][v - 1]
      <3>1. ledger'[r][v] = row /\ \A u \in Versions(r) \ {v} :
                ledger'[r][u] = ledger[r][u]
        <4>1. \A q \in Removals : \A u \in Versions(q) : ledger'[q][u] =
                IF q = r /\ u = v THEN row ELSE ledger[q][u]
          <5>1. Typed BY DEF Journal
          <5> QED BY <1>2, <1>7, <5>1, WriteRowRows
        <4> QED BY <1>2, <4>1
      <3>2. v > 1 => v - 1 \in Versions(r) \ {v} BY <1>2 DEF Versions
      <3> QED BY <1>7, <3>1, <3>2
    <2>6. "verify" \in Owning /\ "verify" \notin {"lookup", "post", "answer"}
      BY PlaceNames
    <2>7. v > 1 /\ ledger'[r][v - 1].status = "submitted" =>
              attempt[a].prev = v - 1
      BY <1>5, <2>5 DEF Replaces
    <2>8. attempt[a].ext <= Len(registry'[EntryOn(r, v)]) BY <1>1, <1>5
    <2>9. Becomes(a, "verify", attempt[a].mutation, attempt[a].prev,
              attempt[a].kind, attempt[a].ext)
      BY <1>7 DEF Advances
    <2>10. AttemptsSound'
      BY <1>1, <1>2, <1>4, <1>5, <2>4, <2>5, <2>6, <2>7, <2>8, <2>9, BecomesSound
    <2> QED BY <2>3, <2>10
  <1>8. CASE Throw(a) /\ UNCHANGED ledger BY <1>1, <1>8, QuietThrow
  <1> QED BY <1>6, <1>7, <1>8, ConfirmMove DEF Journal

LEMMA VerifySound ==
    ASSUME Journal, NEW a \in Attempts, Verify(a)
    PROVE  RowsSound' /\ AttemptsSound'
  <1>1. /\ attempt[a].pc = "verify" /\ UNCHANGED <<ledger, locker, registry>>
        /\ Becomes(a, "finalize", "confirmed", attempt[a].prev,
              attempt[a].kind, attempt[a].ext)
    BY VerifyMove DEF Journal, ledgerVars
  <1>2. RegistryGrows /\ registry' \in [References -> Seq(BOOLEAN)]
    BY <1>1, SameRegistryGrows DEF Journal
  <1> QED BY <1>1, <1>2, PlaceNames, QuietBecomes

LEMMA FailStepSound ==
    ASSUME Journal, NEW a \in Attempts, FailStep(a)
    PROVE  RowsSound' /\ AttemptsSound'
  <1>1. attempt[a].pc \in Owning BY PlaceNames DEF FailStep, Owning
  <1>2. UNCHANGED <<ledger, locker, registry>> /\ Throw(a)
    BY DEF FailStep, ledgerVars
  <1> QED BY <1>1, <1>2, QuietThrow

LEMMA FinalizeSound ==
    ASSUME Journal, NEW a \in Attempts, FinalizeSubmission(a)
    PROVE  RowsSound' /\ AttemptsSound'
  <1> DEFINE r == attempt[a].rem
             v == attempt[a].ver
             prev == attempt[a].prev
             ext == attempt[a].ext
  <1>1. /\ attempt[a].pc = "finalize" /\ attempt[a].pc \in Owning
        /\ attempt[a].pc \in Replacing /\ UNCHANGED <<locker, registry>>
    BY FinalizeMove, PlaceNames DEF Journal
  <1>2. /\ r \in Removals /\ v \in Versions(r) /\ v \in 1 .. MaxVersion
        /\ prev \in Nat /\ ext \in Nat
    BY <1>1, TypedFacts, NamedFacts DEF Journal
  <1>3. Sound(a, attempt[a], ledger, registry, locker)
    BY DEF Journal, AttemptsSound
  <1>4. RegistryGrows /\ registry' \in [References -> Seq(BOOLEAN)]
    BY <1>1, SameRegistryGrows DEF Journal
  <1>5. /\ prev < v /\ ext <= Len(registry[EntryOn(r, v)])
        /\ v > 1 /\ ledger[r][v - 1].status = "submitted" => prev = v - 1
    BY <1>1, <1>3 DEF Sound, Replaces
  <1>6. CASE Throw(a) /\ UNCHANGED <<ledger, claimed, reserved>>
    BY <1>1, <1>6, QuietThrow
  <1>7. ASSUME HoldsLock(r, v, attempt[a].stamp), Stop(a),
               Finalize([rem |-> r, ver |-> v], ext, prev, ClaimBatches(a))
        PROVE  RowsSound' /\ AttemptsSound'
    <2>1. /\ ledger' \in [Removals -> Seq(Rows(Payloads))]
          /\ \A q \in Removals : Len(ledger'[q]) = Len(ledger[q])
          /\ ledger'[r][v].status = "submitted" /\ ledger'[r][v].ext = ext
          /\ ledger'[r][v].refresh = ledger[r][v].refresh
          /\ ledger'[r][v].prev = ledger[r][v].prev
          /\ \A u \in Versions(r) \ {v} : u = prev =>
                /\ ledger'[r][u].status = "superseded"
                /\ ledger'[r][u].ext = ledger[r][u].ext
                /\ ledger'[r][u].refresh = ledger[r][u].refresh
                /\ ledger'[r][u].prev = ledger[r][u].prev
          /\ \A q \in Removals : \A u \in Versions(q) :
                ~(q = r /\ u \in {v, prev}) => ledger'[q][u] = ledger[q][u]
      <3>1. Typed BY DEF Journal
      <3>2. FinalRows(r, v, ext, prev) BY <1>2, <1>7, <3>1, FinalRowsAre
      <3> QED BY <3>2 DEF FinalRows, SubmittedRow, SupersededRow
    <2>2. \A q \in Removals : Len(ledger[q]) \in Nat BY StateFacts DEF Journal
    <2>3. v = Len(ledger[r])
      BY <1>2, <1>7 DEF HoldsLock, Journal, RowsSound
    <2>4. RowsSound'
      <3> SUFFICES ASSUME NEW s \in Removals, NEW u \in 1 .. Len(ledger'[s])
                   PROVE
                /\ ledger'[s][u].status # "accepted" /\ ~ledger'[s][u].refresh
                /\ ledger'[s][u].prev \in {0, u - 1}
                /\ ledger'[s][u].status = "draft" =>
                     u = Len(ledger'[s]) /\ ledger'[s][u].lockedAt # NoLock
                /\ ledger'[s][u].ext <= Len(registry'[EntryOn(s, u)])
                /\ u > 1 /\ ledger'[s][u].status = "submitted" =>
                     ledger'[s][u - 1].status \in {"rejected", "superseded"}
        BY DEF RowsSound, Versions
      <3>1. u \in Versions(s) /\ u \in Nat
        <4>1. Len(ledger'[s]) = Len(ledger[s]) BY <2>1
        <4> QED BY <2>2, <4>1 DEF Versions
      <3>2. /\ ledger[s][u].status # "accepted" /\ ~ledger[s][u].refresh
            /\ ledger[s][u].prev \in {0, u - 1}
            /\ ledger[s][u].status = "draft" =>
                 u = Len(ledger[s]) /\ ledger[s][u].lockedAt # NoLock
            /\ ledger[s][u].ext <= Len(registry[EntryOn(s, u)])
            /\ u > 1 /\ ledger[s][u].status = "submitted" =>
                 ledger[s][u - 1].status \in {"rejected", "superseded"}
        BY <3>1 DEF Journal, RowsSound
      <3>3. u > 1 => u - 1 \in Versions(s) /\ u - 1 # Len(ledger[s])
        BY <2>2, <3>1 DEF Versions
      <3>4. u > 1 => /\ ledger[s][u - 1].status \in Statuses
                     /\ ledger[s][u - 1].status \notin {"accepted", "draft"}
        BY <3>3, RowFacts DEF Journal, RowsSound
      <3>5. u > 1 /\ ledger'[s][u].status = "submitted" =>
                ledger'[s][u - 1].status \in {"rejected", "superseded"}
        <4> SUFFICES ASSUME u > 1, ledger'[s][u].status = "submitted"
                     PROVE  ledger'[s][u - 1].status \in {"rejected", "superseded"}
          OBVIOUS
        <4>1. ~(s = r /\ u - 1 = v) BY <2>3, <3>3
        <4>2. CASE s = r /\ u - 1 = prev BY <2>1, <3>3, <4>1, <4>2
        <4>3. CASE ~(s = r /\ u - 1 = prev)
          <5>1. ledger'[s][u - 1] = ledger[s][u - 1] BY <2>1, <3>3, <4>1, <4>3
          <5>2. CASE s = r /\ u = v
            <6>1. ledger[s][u - 1].status # "submitted"
              BY <1>2, <1>5, <4>3, <5>2
            <6> QED BY <3>4, <5>1, <6>1 DEF Statuses
          <5>3. CASE ~(s = r /\ u = v)
            <6>1. ledger[s][u].status = "submitted"
              BY <2>1, <3>1, <5>3
            <6> QED BY <3>2, <5>1, <6>1
          <5> QED BY <5>2, <5>3
        <4> QED BY <4>2, <4>3
      <3>6. CASE s = r /\ u = v
        BY <1>1, <1>5, <2>1, <3>2, <3>5, <3>6
      <3>7. CASE s = r /\ u = prev /\ u # v
        <4>1. /\ ledger'[s][u].status = "superseded"
              /\ ledger'[s][u].ext = ledger[s][u].ext
              /\ ledger'[s][u].refresh = ledger[s][u].refresh
              /\ ledger'[s][u].prev = ledger[s][u].prev
          BY <2>1, <3>1, <3>7
        <4> QED BY <1>1, <3>2, <3>5, <4>1
      <3>8. CASE ~(s = r /\ u \in {v, prev})
        BY <1>1, <2>1, <3>1, <3>2, <3>5, <3>8
      <3> QED BY <3>6, <3>7, <3>8
    <2>5. RowsRespected(a)
      <3>1. ASSUME NEW s \in Removals
            PROVE  Len(ledger'[s]) >= Len(ledger[s]) /\ Len(ledger'[s]) = Len(ledger[s])
        <4>1. Len(ledger'[s]) = Len(ledger[s]) BY <2>1
        <4>2. PICK n \in Nat : n = Len(ledger[s]) BY <2>2
        <4> QED BY <4>1, <4>2
      <3>2. ASSUME NEW s \in Removals, NEW u \in Versions(s)
            PROVE
                /\ \/ ledger'[s][u] = ledger[s][u]
                   \/ ledger'[s][u].status # "draft"
                /\ u < Len(ledger[s]) /\ ledger'[s][u].status = "submitted" =>
                     ledger[s][u].status = "submitted"
        <4>1. CASE s = r /\ u = v
          <5>1. ledger'[s][u].status = "submitted" BY <2>1, <4>1
          <5>2. PICK n \in Nat : n = Len(ledger[s]) BY <2>2
          <5>3. u = n BY <2>3, <4>1, <5>2
          <5>4. ~(u < Len(ledger[s])) BY <5>2, <5>3
          <5> QED BY <5>1, <5>4
        <4>2. CASE s = r /\ u = prev /\ u # v BY <2>1, <4>2
        <4>3. CASE ~(s = r /\ u \in {v, prev}) BY <2>1, <4>3
        <4> QED BY <4>1, <4>2, <4>3
      <3> QED BY Zenon, <3>1, <3>2 DEF RowsRespected
    <2>6. LocksRespected(a) BY <1>1 DEF LocksRespected
    <2> QED BY <1>4, <1>7, <2>1, <2>4, <2>5, <2>6, StopSound
  <1> QED BY <1>6, <1>7, FinalizeMove DEF Journal

LEMMA RecordFailureSound ==
    ASSUME Journal, NEW a \in Attempts, RecordFailure(a)
    PROVE  RowsSound' /\ AttemptsSound'
  <1> DEFINE r == attempt[a].rem
             v == attempt[a].ver
  <1>1. /\ attempt[a].pc = "fail" /\ attempt[a].pc \in Owning /\ Stop(a)
        /\ UNCHANGED <<locker, registry>>
    BY RecordFailureMove, PlaceNames DEF Journal
  <1>2. /\ r \in Removals /\ v \in Versions(r) /\ v \in 1 .. MaxVersion
        /\ Row(a) = ledger[r][v] /\ Row(a) \in Rows(Payloads)
    BY <1>1, TypedFacts, NamedFacts DEF Journal
  <1>3. RegistryGrows /\ registry' \in [References -> Seq(BOOLEAN)]
        /\ LocksRespected(a)
    BY <1>1, SameRegistryGrows DEF Journal, LocksRespected
  <1>4. CASE UNCHANGED ledger BY <1>1, <1>3, <1>4, PreparingStop
  <1>5. ASSUME HoldsLock(r, v, attempt[a].stamp),
               NEW row \in Rows(Payloads), WriteRow(r, v, row),
               \/ row.status = "rejected"
               \/ row.status = Row(a).status /\ row.lockedAt = Row(a).lockedAt,
               row.ext = Row(a).ext,
               row.refresh = Row(a).refresh, row.prev = Row(a).prev
        PROVE  RowsSound' /\ AttemptsSound'
    <2>1. /\ Row(a).status = "draft" /\ Row(a).lockedAt = attempt[a].stamp
          /\ attempt[a].stamp.by = a
      BY <1>1, <1>2, <1>5 DEF HoldsLock, Sound, Journal, AttemptsSound
    <2>2. /\ ~ledger[r][v].refresh /\ v = Len(ledger[r])
          /\ ledger[r][v].lockedAt # NoLock
          /\ ledger[r][v].ext <= Len(registry[EntryOn(r, v)])
      BY <1>2, <2>1 DEF Journal, RowsSound
    <2>3. RowsSound' BY <1>1, <1>2, <1>5, <2>1, <2>2, WriteRowSound
    <2>4. RowsRespected(a) /\ ledger' \in [Removals -> Seq(Rows(Payloads))]
      BY <1>2, <1>5, <2>1, WriteRowRespects, WriteRowRows DEF Journal
    <2> QED BY <1>1, <1>3, <2>3, <2>4, StopSound
  <1> QED BY <1>4, <1>5, RecordFailureMove DEF Journal

-----------------------------------------------------------------------------
(* The environment keeps the journal, and the journal holds throughout.    *)

LEMMA EnvironmentSound ==
    ASSUME Journal,
           \/ \E a \in Attempts : Crash(a)
           \/ \E req \in wire : Deliver(req)
           \/ \E r \in Removals : Change(r)
           \/ Tick
    PROVE  RowsSound' /\ AttemptsSound'
  <1>1. ASSUME NEW a \in Attempts, Crash(a) PROVE RowsSound' /\ AttemptsSound'
    <2>1. Stop(a) /\ UNCHANGED <<ledger, registry>> BY <1>1 DEF Crash
    <2>2. LocksRespected(a) BY <1>1 DEF Crash, LocksRespected
    <2> QED BY <2>1, <2>2, PreparingStop
  <1>2. ASSUME UNCHANGED <<ledger, locker, attempt>>, RegistryGrows,
               registry' \in [References -> Seq(BOOLEAN)]
        PROVE  RowsSound' /\ AttemptsSound'
    <2>1. RowsRespected(Nobody) /\ LocksRespected(Nobody)
      BY <1>2, QuietRespects DEF LocksRespected, Journal
    <2>2. ledger' \in [Removals -> Seq(Rows(Payloads))]
      BY <1>2, StateFacts DEF Journal
    <2>3. \A b \in Attempts : b # Nobody
      BY AttemptsAssumption, NobodyAssumption
    <2>4. \A b \in Attempts : Sound(b, attempt[b], ledger', registry', locker')
      BY <1>2, <2>1, <2>2, <2>3, OthersSound
    <2> QED BY <1>2, <2>4, RowsQuiet DEF AttemptsSound
  <1>3. ASSUME NEW req \in wire, Deliver(req) PROVE RowsSound' /\ AttemptsSound'
    <2>1. req.ref \in References BY StateFacts DEF Journal, Requests
    <2>2. UNCHANGED <<ledger, locker, attempt>> BY <1>3 DEF Deliver, ledgerVars
    <2>3. CreateRecord(req.ref) \/ UNCHANGED registry BY <1>3 DEF Deliver
    <2>4. RegistryGrows /\ registry' \in [References -> Seq(BOOLEAN)]
      BY <2>1, <2>3, CreateRecordMove, SameRegistryGrows DEF Journal
    <2> QED BY <1>2, <2>2, <2>4
  <1>4. ASSUME (\E r \in Removals : Change(r)) \/ Tick
        PROVE  RowsSound' /\ AttemptsSound'
    <2>1. UNCHANGED <<ledger, locker, attempt, registry>>
      BY <1>4 DEF Change, Tick
    <2> QED BY <1>2, <2>1, SameRegistryGrows DEF Journal
  <1> QED BY <1>1, <1>3, <1>4

LEMMA StepSound ==
    ASSUME Journal, NEW a \in Attempts, Step(a)
    PROVE  RowsSound' /\ AttemptsSound'
  BY LoadSound, RouteSound, CreateDraftSound, DecideResumeSound,
     ResetDraftSound, GateSound, RetireSound, ReserveSound, LookupSound,
     PostSound, ReconcileSound, ConfirmSound, VerifySound, FinalizeSound,
     FailStepSound, RecordFailureSound
  DEF Step, GateStep

JournalInv == Inv /\ Journal

LEMMA InitEstablishesJournal == Init => JournalInv
  <1> SUFFICES ASSUME Init PROVE JournalInv OBVIOUS
  <1>1. Inv BY InitEstablishesInv
  <1>2. Typed BY <1>1, InvTyped
  <1>3. \A r \in Removals : Versions(r) = {}
    BY EmptySeq DEF Init, LedgerInit, Versions
  <1>4. RowsSound BY <1>3 DEF RowsSound
  <1>5. \A a \in Attempts : attempt[a] = Idle BY DEF Init
  <1>6. Fresh(Idle) /\ Idle.pc = "idle" BY IdleType DEF Fresh, Idle
  <1>7. AttemptsSound BY <1>5, <1>6, StepNames DEF AttemptsSound, Sound
  <1> QED BY <1>1, <1>2, <1>4, <1>7 DEF JournalInv, Journal

LEMMA NextKeepsJournal == JournalInv /\ [Next]_vars => JournalInv'
  <1> SUFFICES ASSUME JournalInv, [Next]_vars PROVE JournalInv' OBVIOUS
  <1>1. Inv' BY NextKeepsInv DEF JournalInv
  <1>2. Typed'
    <2>1. Inv' => Typed' BY InvTyped, PTL
    <2> QED BY <1>1, <2>1
  <1>3. RowsSound' /\ AttemptsSound'
    <2>1. CASE Next
      BY <2>1, StepSound, EnvironmentSound DEF Next, JournalInv
    <2>2. CASE UNCHANGED vars
      BY <2>2 DEF vars, JournalInv, Journal, RowsSound, AttemptsSound, Versions
    <2> QED BY <2>1, <2>2
  <1> QED BY <1>1, <1>2, <1>3 DEF JournalInv, Journal

(* The inductive invariant holds in every behaviour.                       *)
THEOREM JournalInvariance == Spec => []JournalInv
  BY InitEstablishesJournal, NextKeepsJournal, PTL DEF Spec

LEMMA NamedRow ==
    ASSUME Journal, NEW s \in SubmissionIds
    PROVE  /\ s.rem \in Removals /\ s.ver \in Versions(s.rem) /\ s.ver \in Nat
           /\ RowOf(s) = ledger[s.rem][s.ver]
           /\ Len(ledger[s.rem]) \in Nat
  BY StateFacts DEF Journal, SubmissionIds, RowOf, Versions

(* createDraft inserts no second draft and resumeDraft resets the latest   *)
(* row only: a draft under a newer version, whose finalization would       *)
(* supersede backwards, is never reached, not even by attempts that        *)
(* outlived their lock.                                                    *)
THEOREM DraftsAreLatest == Spec => []OnlyLatestIsDraft
  <1>1. JournalInv => OnlyLatestIsDraft
    BY NamedRow DEF JournalInv, Journal, RowsSound, OnlyLatestIsDraft
  <1> QED BY <1>1, JournalInvariance, PTL

(* The external id that recordConfirmedSubmissionIdentity and              *)
(* markSubmissionSubmitted write is one the registry gave out under this   *)
(* row's own supplier reference, through resumed drafts, adopted lookups   *)
(* and lost answers alike.                                                 *)
THEOREM JournalMatchesRegistry == Spec => []JournaledIsRegistered
  <1>1. JournalInv => JournaledIsRegistered
    BY NamedRow DEF JournalInv, Journal, RowsSound, JournaledIsRegistered,
       EntryOf, EntryOn
  <1> QED BY <1>1, JournalInvariance, PTL

(* Finalizing supersedes the active version the attempt replaces, or there *)
(* is none next to it: the previous version an attempt remembers, or       *)
(* computes when it resumes a draft, is still the right one when it        *)
(* finalizes.                                                              *)
THEOREM ActiveVersionsStayApart == Spec => []ActiveVersionsSeparated
  <1>1. ASSUME Journal PROVE ActiveVersionsSeparated
    <2> SUFFICES ASSUME NEW s \in SubmissionIds, NEW t \in SubmissionIds,
                        s.rem = t.rem, s.ver < t.ver,
                        RowOf(s).status = "submitted",
                        RowOf(t).status = "submitted"
                 PROVE  \E v \in (s.ver + 1) .. (t.ver - 1) :
                          ledger[s.rem][v].status \in {"rejected", "superseded"}
      BY DEF ActiveVersionsSeparated
    <2>1. /\ s.rem \in Removals /\ s.ver \in Versions(s.rem)
          /\ t.ver \in Versions(s.rem) /\ s.ver \in Nat /\ t.ver \in Nat
          /\ RowOf(s) = ledger[s.rem][s.ver] /\ RowOf(t) = ledger[s.rem][t.ver]
      BY <1>1, NamedRow
    <2>2. t.ver > 1 /\ s.ver >= 1 BY <2>1 DEF Versions
    <2>3. ledger[s.rem][t.ver - 1].status \in {"rejected", "superseded"}
      BY <1>1, <2>1, <2>2 DEF Journal, RowsSound
    <2>4. s.ver # t.ver - 1 BY <2>1, <2>3
    <2>5. t.ver - 1 \in (s.ver + 1) .. (t.ver - 1) BY <2>1, <2>2, <2>4
    <2> QED BY <2>3, <2>5
  <1>2. JournalInv => ActiveVersionsSeparated BY <1>1 DEF JournalInv
  <1> QED BY <1>2, JournalInvariance, PTL

-----------------------------------------------------------------------------
(* Reservations.                                                           *)

Reserves(b, s, rows, claims) ==
    /\ s.ver \in 1 .. Len(rows[s.rem]) /\ b \in Members[s.rem]
    /\ rows[s.rem][s.ver].status = "draft"
    /\ claims[b] \in {None, s.rem}

ReservationsSound ==
    \A b \in Batches : reserved[b] # NoSubmission =>
        Reserves(b, reserved[b], ledger, claimed)

LEMMA ReservedFacts ==
    ASSUME Typed, ReservationsSound, NEW b \in Batches,
           reserved[b] # NoSubmission
    PROVE  /\ reserved[b].rem \in Removals
           /\ reserved[b].ver \in Versions(reserved[b].rem)
           /\ reserved[b] = [rem |-> reserved[b].rem, ver |-> reserved[b].ver]
           /\ Reserves(b, reserved[b], ledger, claimed)
  <1>1. reserved[b] \in Submissions BY DEF Typed, TypeOK, LedgerTypeOK
  <1> QED BY <1>1 DEF Submissions, ReservationsSound, Reserves, Versions

LEMMA QuietReservations ==
    ASSUME ReservationsSound, UNCHANGED <<ledger, claimed, reserved>>
    PROVE  ReservationsSound'
  BY DEF ReservationsSound, Reserves

\* Reservations that are left belong to rows that are still drafts.
LEMMA LeftReservations ==
    ASSUME Typed, ReservationsSound, UNCHANGED claimed,
           \A b \in Batches : reserved'[b] \in {reserved[b], NoSubmission},
           \A r \in Removals : Len(ledger'[r]) >= Len(ledger[r]),
           ledger' \in [Removals -> Seq(Rows(Payloads))],
           \A b \in Batches : reserved'[b] # NoSubmission =>
               ledger'[reserved[b].rem][reserved[b].ver].status = "draft"
    PROVE  ReservationsSound'
  <1> SUFFICES ASSUME NEW b \in Batches, reserved'[b] # NoSubmission
               PROVE  Reserves(b, reserved'[b], ledger', claimed')
    BY DEF ReservationsSound
  <1>1. reserved'[b] = reserved[b] /\ reserved[b] # NoSubmission OBVIOUS
  <1>2. /\ reserved[b].rem \in Removals
        /\ reserved[b].ver \in Versions(reserved[b].rem)
        /\ Reserves(b, reserved[b], ledger, claimed)
    BY <1>1, ReservedFacts
  <1>3. Len(ledger[reserved[b].rem]) \in Nat
        /\ Len(ledger'[reserved[b].rem]) \in Nat
    BY <1>2, StateFacts, LenProperties
  <1>4. Len(ledger'[reserved[b].rem]) >= Len(ledger[reserved[b].rem])
    BY <1>2
  <1>5. reserved[b].ver \in 1 .. Len(ledger'[reserved[b].rem])
    BY <1>2, <1>3, <1>4 DEF Versions
  <1> QED BY <1>1, <1>2, <1>5 DEF Reserves

\* A row is rewritten as a draft, or its reservations are released.
LEMMA WriteRowReservations ==
    ASSUME Typed, ReservationsSound, NEW r \in Removals, NEW v \in Versions(r),
           NEW row \in Rows(Payloads), WriteRow(r, v, row), UNCHANGED claimed,
           \/ row.status = "draft" /\ UNCHANGED reserved
           \/ Release([rem |-> r, ver |-> v])
    PROVE  ReservationsSound'
  <1>1. /\ ledger' \in [Removals -> Seq(Rows(Payloads))]
        /\ \A s \in Removals : Len(ledger'[s]) = Len(ledger[s])
        /\ \A s \in Removals : \A u \in Versions(s) :
             ledger'[s][u] = IF s = r /\ u = v THEN row ELSE ledger[s][u]
    BY WriteRowRows
  <1>2. \A s \in Removals : Len(ledger[s]) \in Nat BY StateFacts
  <1>3. ASSUME NEW b \in Batches
        PROVE  /\ reserved'[b] \in {reserved[b], NoSubmission}
               /\ reserved'[b] # NoSubmission =>
                    ledger'[reserved[b].rem][reserved[b].ver].status = "draft"
    <2>1. reserved'[b] \in {reserved[b], NoSubmission} BY DEF Release
    <2>2. ASSUME reserved'[b] # NoSubmission
          PROVE  ledger'[reserved[b].rem][reserved[b].ver].status = "draft"
      <3>1. reserved[b] # NoSubmission BY <2>1, <2>2
      <3>2. /\ reserved[b].rem \in Removals
            /\ reserved[b].ver \in Versions(reserved[b].rem)
            /\ reserved[b] = [rem |-> reserved[b].rem, ver |-> reserved[b].ver]
            /\ ledger[reserved[b].rem][reserved[b].ver].status = "draft"
        BY <3>1, ReservedFacts DEF Reserves
      <3>3. CASE reserved[b].rem = r /\ reserved[b].ver = v
        <4>1. ~Release([rem |-> r, ver |-> v]) BY <2>2, <3>2, <3>3 DEF Release
        <4> QED BY <1>1, <3>2, <3>3, <4>1
      <3>4. CASE ~(reserved[b].rem = r /\ reserved[b].ver = v)
        BY <1>1, <3>2, <3>4
      <3> QED BY <3>3, <3>4
    <2> QED BY <2>1, <2>2
  <1> QED BY <1>1, <1>2, <1>3, LeftReservations

LEMMA ReserveReservations ==
    ASSUME Journal, ReservationsSound, NEW a \in Attempts, ReserveClaims(a)
    PROVE  ReservationsSound'
  <1> DEFINE s == Submission(a)
  <1>1. /\ attempt[a].pc = "reserve" /\ UNCHANGED <<ledger, claimed>>
        /\ \/ UNCHANGED reserved
           \/ CanReserve(s, ClaimBatches(a)) /\ Reserve(s, ClaimBatches(a))
    BY ReserveMove DEF Journal
  <1>2. /\ attempt[a].rem \in Removals
        /\ attempt[a].ver \in Versions(attempt[a].rem)
        /\ s.rem = attempt[a].rem /\ s.ver = attempt[a].ver
    BY <1>1, PlaceNames, NamedFacts, TypedFacts DEF Journal, Submission
  <1>3. CASE UNCHANGED reserved BY <1>1, <1>3, QuietReservations
  <1>4. CASE CanReserve(s, ClaimBatches(a)) /\ Reserve(s, ClaimBatches(a))
    <2> SUFFICES ASSUME NEW b \in Batches, reserved'[b] # NoSubmission
                 PROVE  Reserves(b, reserved'[b], ledger, claimed)
      BY <1>1 DEF ReservationsSound
    <2>1. CASE b \in ClaimBatches(a)
      <3>1. reserved'[b] = s BY <1>4, <2>1 DEF Reserve
      <3>2. b \in Members[s.rem] BY <1>2, <2>1 DEF ClaimBatches
      <3> QED BY <1>2, <1>4, <2>1, <3>1, <3>2 DEF CanReserve, Reserves, Versions
    <2>2. CASE b \notin ClaimBatches(a)
      BY <1>4, <2>2 DEF Reserve, ReservationsSound
    <2> QED BY <2>1, <2>2
  <1> QED BY <1>1, <1>3, <1>4

\* A finalization takes over every reservation of its own submission.
LEMMA FinalizeReservations ==
    ASSUME Inv, Journal, ReservationsSound, NEW a \in Attempts,
           FinalizeSubmission(a)
    PROVE  ReservationsSound'
  <1> DEFINE r == attempt[a].rem
             v == attempt[a].ver
             batches == ClaimBatches(a)
  <1>1. /\ attempt[a].pc = "finalize" /\ attempt[a].pc \in Owning
    BY FinalizeMove, PlaceNames DEF Journal
  <1>2. /\ r \in Removals /\ v \in Versions(r) /\ attempt[a].ext \in Nat
        /\ attempt[a].prev \in Nat
    BY <1>1, TypedFacts, NamedFacts DEF Journal
  <1>3. CASE UNCHANGED <<ledger, claimed, reserved>>
    BY <1>3, QuietReservations
  <1>4. ASSUME HoldsLock(r, v, attempt[a].stamp),
               Finalize([rem |-> r, ver |-> v], attempt[a].ext, attempt[a].prev,
                   batches)
        PROVE  ReservationsSound'
    <2> SUFFICES ASSUME NEW b \in Batches, reserved'[b] # NoSubmission
                 PROVE  Reserves(b, reserved'[b], ledger', claimed')
      BY DEF ReservationsSound
    <2>1. b \notin batches /\ reserved'[b] = reserved[b]
          /\ claimed'[b] = claimed[b]
      BY <1>4 DEF Finalize
    <2> DEFINE s == reserved[b]
    <2>2. /\ s.rem \in Removals /\ s.ver \in Versions(s.rem)
          /\ Reserves(b, s, ledger, claimed)
      BY <2>1, ReservedFacts DEF Journal
    <2>3. ~(s.rem = r /\ s.ver = v)
      <3> SUFFICES ASSUME s.rem = r, s.ver = v PROVE b \in batches
        BY <2>1
      <3>1. b \in Members[r] /\ claimed[b] \in {None, r}
        BY <2>2 DEF Reserves
      <3>2. attempt[a].seen[b] \in {None, claimed[b]}
        BY <1>1, StepNames DEF Inv, AttemptsFit, Fits
      <3> QED BY <3>1, <3>2 DEF ClaimBatches, IncludesProduction
    <2>4. v = Len(ledger[r]) /\ s.ver = Len(ledger[s.rem])
      BY <1>2, <1>4, <2>2 DEF HoldsLock, Reserves, Journal, RowsSound
    <2>5. /\ \A q \in Removals : Len(ledger'[q]) = Len(ledger[q])
          /\ \A q \in Removals : \A u \in Versions(q) :
                ~(q = r /\ u \in {v, attempt[a].prev}) =>
                    ledger'[q][u] = ledger[q][u]
      BY <1>2, <1>4, FinalizeRows DEF Journal
    <2>6. s.rem # r BY <2>3, <2>4
    <2> QED BY <2>1, <2>2, <2>5, <2>6 DEF Reserves
  <1> QED BY <1>3, <1>4, FinalizeMove DEF Journal

LEMMA StepReservations ==
    ASSUME Inv, Journal, ReservationsSound, NEW a \in Attempts, Step(a)
    PROVE  ReservationsSound'
  <1>1. Typed /\ attempt[a].rem \in Removals BY TypedFacts DEF Journal
  <1>2. CASE \/ \E r \in Removals : Load(a, r)
             \/ Route(a) \/ DecideResume(a) \/ GateStep(a)
             \/ LookupFound(a) \/ LookupNone(a) \/ LookupFails(a)
             \/ PostAnswered(a) \/ PostRefused(a) \/ PostUnanswered(a)
             \/ Reconcile(a) \/ Verify(a) \/ FailStep(a)
    <2>1. UNCHANGED <<ledger, claimed, reserved>>
      BY <1>2, GateMove DEF Load, Route, DecideResume, LookupFound, LookupNone,
         LookupFails, PostAnswered, PostRefused, PostUnanswered, Reconcile,
         Verify, FailStep, ledgerVars
    <2> QED BY <2>1, QuietReservations
  <1>3. CASE CreateDraft(a)
    <2> DEFINE r == attempt[a].rem
               payload == attempt[a].payload
               stamp == [by |-> a, at |-> clock]
               d == DecideSubmissionClaim(ledger[r], payload, clock,
                      RemovalPolicy)
    <2>1. UNCHANGED <<claimed, reserved>> BY <1>3 DEF CreateDraft
    <2>2. CASE UNCHANGED ledger BY <2>1, <2>2, QuietReservations
    <2>3. CASE InsertDraft(r, payload, d.prev, stamp)
      <3>1. payload \in Payloads /\ clock \in Nat BY <1>1, TypedFacts
      <3>2. d.prev \in Nat
        <4>1. ledger[r] \in Seq(Rows(Payloads)) BY <1>1, StateFacts
        <4> QED BY <3>1, <4>1, DecisionShape
      <3>3. stamp \in Locks BY <3>1, AttemptsAssumption DEF Locks
      <3> HIDE DEF d, stamp
      <3>4. /\ ledger' \in [Removals -> Seq(Rows(Payloads))]
            /\ \A q \in Removals : Len(ledger'[q]) =
                 IF q = r THEN Len(ledger[r]) + 1 ELSE Len(ledger[q])
            /\ \A q \in Removals : \A v \in Versions(q) :
                 ledger'[q][v] = ledger[q][v]
        BY <1>1, <2>3, <3>1, <3>2, <3>3, InsertDraftRows
      <3>5. \A q \in Removals : Len(ledger[q]) \in Nat BY <1>1, StateFacts
      <3>6. \A q \in Removals : Len(ledger'[q]) >= Len(ledger[q])
        BY <3>4, <3>5
      <3>7. \A b \in Batches : reserved'[b] # NoSubmission =>
                ledger'[reserved[b].rem][reserved[b].ver].status = "draft"
        BY <1>1, <2>1, <3>4, ReservedFacts DEF Reserves
      <3> QED BY <1>1, <2>1, <3>4, <3>6, <3>7, LeftReservations
    <2> QED BY <1>3, <2>2, <2>3 DEF CreateDraft
  <1>4. CASE ResetDraft(a)
    <2>1. attempt[a].pc = "resetting" /\ UNCHANGED <<claimed, reserved>>
      BY <1>4 DEF ResetDraft, Is
    <2>2. attempt[a].ver \in Versions(attempt[a].rem)
      BY <1>1, <2>1, NamedFacts
    <2>3. CASE CanResetToDraft(ledger[attempt[a].rem][attempt[a].ver],
                 attempt[a].bypass, attempt[a].began)
      <3>1. PICK row \in Rows(Payloads) :
                WriteRow(attempt[a].rem, attempt[a].ver, row)
                /\ row.status = "draft"
        BY <1>4, <2>3, ResetDraftMove
      <3> QED BY <1>1, <2>1, <2>2, <3>1, WriteRowReservations
    <2>4. CASE UNCHANGED ledger BY <2>1, <2>4, QuietReservations
    <2> QED BY <1>4, <2>3, <2>4 DEF ResetDraft
  <1>5. CASE Retire(a)
    <2>1. attempt[a].pc = "retire" /\ UNCHANGED claimed BY <1>1, <1>5, RetireMove
    <2>2. attempt[a].ver \in Versions(attempt[a].rem)
      BY <1>1, <2>1, PlaceNames, NamedFacts
    <2>3. \/ UNCHANGED <<ledger, reserved>>
          \/ /\ Release([rem |-> attempt[a].rem, ver |-> attempt[a].ver])
             /\ \E row \in Rows(Payloads) :
                  WriteRow(attempt[a].rem, attempt[a].ver, row)
      BY <1>1, <1>5, RetireMove DEF Submission
    <2> QED BY <1>1, <2>1, <2>2, <2>3, QuietReservations, WriteRowReservations
  <1>6. CASE ReserveClaims(a) BY <1>6, ReserveReservations
  <1>7. CASE Confirm(a)
    <2>1. attempt[a].pc = "confirm" /\ UNCHANGED <<claimed, reserved>>
      BY <1>1, <1>7, ConfirmMove
    <2>2. attempt[a].ver \in Versions(attempt[a].rem)
      BY <1>1, <2>1, PlaceNames, NamedFacts
    <2>3. \/ UNCHANGED ledger
          \/ \E row \in Rows(Payloads) :
               /\ WriteRow(attempt[a].rem, attempt[a].ver, row)
               /\ row.status = "draft"
      BY <1>1, <1>7, ConfirmMove DEF HoldsLock, Row
    <2> QED BY <1>1, <2>1, <2>2, <2>3, QuietReservations, WriteRowReservations
  <1>8. CASE FinalizeSubmission(a) BY <1>8, FinalizeReservations
  <1>9. CASE RecordFailure(a)
    <2>1. attempt[a].pc = "fail" /\ UNCHANGED claimed
      BY <1>1, <1>9, RecordFailureMove
    <2>2. attempt[a].ver \in Versions(attempt[a].rem)
      BY <1>1, <2>1, PlaceNames, NamedFacts
    <2>3. \/ UNCHANGED <<ledger, reserved>>
          \/ UNCHANGED ledger
               /\ Release([rem |-> attempt[a].rem, ver |-> attempt[a].ver])
          \/ /\ Release([rem |-> attempt[a].rem, ver |-> attempt[a].ver])
             /\ \E row \in Rows(Payloads) :
                  WriteRow(attempt[a].rem, attempt[a].ver, row)
          \/ /\ UNCHANGED reserved
             /\ \E row \in Rows(Payloads) :
                  /\ WriteRow(attempt[a].rem, attempt[a].ver, row)
                  /\ row.status = "draft"
      BY <1>1, <1>9, RecordFailureMove DEF Submission, HoldsLock, Row
    <2>4. ASSUME UNCHANGED ledger,
                 Release([rem |-> attempt[a].rem, ver |-> attempt[a].ver])
          PROVE  ReservationsSound'
      BY <2>1, <2>4 DEF ReservationsSound, Reserves, Release
    <2> QED BY <1>1, <2>1, <2>2, <2>3, <2>4, QuietReservations,
         WriteRowReservations
  <1> QED BY <1>2, <1>3, <1>4, <1>5, <1>6, <1>7, <1>8, <1>9 DEF Step, GateStep

ClaimingInv == JournalInv /\ ReservationsSound

LEMMA NextKeepsReservations == ClaimingInv /\ [Next]_vars => ClaimingInv'
  <1> SUFFICES ASSUME ClaimingInv, [Next]_vars PROVE ClaimingInv' OBVIOUS
  <1>1. JournalInv' BY NextKeepsJournal DEF ClaimingInv
  <1>2. CASE \E a \in Attempts : Step(a)
    <2>1. ReservationsSound'
      BY <1>2, StepReservations DEF ClaimingInv, JournalInv
    <2> QED BY <1>1, <2>1 DEF ClaimingInv
  <1>3. CASE \/ \E a \in Attempts : Crash(a)
             \/ \E req \in wire : Deliver(req)
             \/ \E r \in Removals : Change(r)
             \/ Tick \/ UNCHANGED vars
    <2>1. UNCHANGED <<ledger, claimed, reserved>>
      BY <1>3 DEF Crash, Deliver, Change, Tick, ledgerVars, vars
    <2> QED BY <1>1, <2>1, QuietReservations DEF ClaimingInv
  <1> QED BY <1>2, <1>3 DEF Next

(* The production reservations on credit batches never outlive the draft   *)
(* they were made for: rejection, retirement and finalization release      *)
(* every one, and no reservation stands against another Removal's claim.   *)
THEOREM ReservationSafety == Spec => []ReservationsBelongToDrafts
  <1>1. Init => ClaimingInv
    BY InitEstablishesJournal
    DEF ClaimingInv, ReservationsSound, Init, LedgerInit
  <1>2. ClaimingInv => ReservationsBelongToDrafts
    BY DEF ClaimingInv, ReservationsSound, Reserves, ReservationsBelongToDrafts,
       RowOf
  <1> QED BY <1>1, <1>2, NextKeepsReservations, PTL DEF Spec

-----------------------------------------------------------------------------
(* External identities.                                                    *)

IdentitiesKept ==
    \A r \in Removals : \A v \in Versions(r) :
        ledger[r][v].ext # 0 => ledger'[r][v].ext = ledger[r][v].ext

LEMMA WriteRowIdentities ==
    ASSUME Typed, NEW r \in Removals, NEW v \in Versions(r),
           NEW row \in Rows(Payloads), WriteRow(r, v, row),
           ledger[r][v].ext # 0 => row.ext = ledger[r][v].ext
    PROVE  IdentitiesKept
  BY WriteRowRows DEF IdentitiesKept

\* Steps that leave the ledger alone.
LEMMA SameLedger ==
    ASSUME NEW a \in Attempts,
           \/ \E r \in Removals : Load(a, r)
           \/ Route(a) \/ DecideResume(a) \/ GateStep(a) \/ ReserveClaims(a)
           \/ LookupFound(a) \/ LookupNone(a) \/ LookupFails(a)
           \/ PostAnswered(a) \/ PostRefused(a) \/ PostUnanswered(a)
           \/ Reconcile(a) \/ Verify(a) \/ FailStep(a)
    PROVE  UNCHANGED ledger
  BY GateMove DEF Load, Route, DecideResume, ReserveClaims, LookupFound,
     LookupNone, LookupFails, PostAnswered, PostRefused, PostUnanswered,
     Reconcile, Verify, FailStep, ledgerVars

\* What the claim's insertion does to the ledger.
\* The attempt that has inserted its draft.
TakesDraft(a, q) ==
    /\ attempt' = [attempt EXCEPT ![a] = q]
    /\ q.pc = "scope" /\ q.rem = attempt[a].rem
    /\ q.ver = Len(ledger[attempt[a].rem]) + 1
    /\ q.hash = attempt[a].payload /\ q.stamp = [by |-> a, at |-> clock]
    /\ q.seen = attempt[a].seen /\ q.mutation = attempt[a].mutation
    /\ q.ext = attempt[a].ext /\ q.kind = attempt[a].kind
    /\ q.resumed = attempt[a].resumed

LEMMA CreateDraftMove ==
    ASSUME Journal, NEW a \in Attempts, CreateDraft(a)
    PROVE  /\ attempt[a].pc = "creating"
           /\ UNCHANGED <<clock, content, claimed, reserved, locker, registry, wire>>
           /\ \/ Stop(a) /\ UNCHANGED ledger
              \/ LET r     == attempt[a].rem
                     new   == Len(ledger[r]) + 1
                     stamp == [by |-> a, at |-> clock]
                 IN /\ new \in 1 .. MaxVersion
                    /\ ledger' \in [Removals -> Seq(Rows(Payloads))]
                    /\ \A s \in Removals : Len(ledger'[s]) =
                         IF s = r THEN new ELSE Len(ledger[s])
                    /\ \A s \in Removals : \A v \in Versions(s) :
                         ledger'[s][v] = ledger[s][v]
                    /\ \A v \in Versions(r) : ledger[r][v].status # "draft"
                    /\ \E prev \in Nat : ledger'[r][new] =
                         [status |-> "draft", hash |-> attempt[a].payload,
                          ext |-> 0, lockedAt |-> stamp, outcome |-> "none",
                          mutation |-> "unset", refresh |-> FALSE,
                          prev |-> prev]
                    /\ \E q \in Attempt : TakesDraft(a, q)
  <1> DEFINE r == attempt[a].rem
             payload == attempt[a].payload
             new == Len(ledger[r]) + 1
             stamp == [by |-> a, at |-> clock]
             d == DecideSubmissionClaim(ledger[r], payload, clock, RemovalPolicy)
             q == [attempt[a] EXCEPT !.pc = "scope", !.ver = d.version,
                     !.hash = payload, !.stamp = stamp, !.prev = d.prev]
  <1>1. /\ attempt \in [Attempts -> Attempt] /\ attempt[a] \in Attempt
        /\ r \in Removals /\ payload \in Payloads /\ clock \in Nat
        /\ Len(ledger[r]) \in 0 .. MaxVersion
    BY TypedFacts DEF Journal
  <1>2. /\ attempt[a].pc = "creating"
        /\ UNCHANGED <<clock, content, claimed, reserved, locker, registry, wire>>
    BY DEF CreateDraft, Is
  <1>3. stamp \in Locks BY <1>1, AttemptsAssumption DEF Locks
  <1>4. d.kind = "create" =>
            /\ d.version = new /\ d.prev \in {0, Len(ledger[r])}
            /\ \A v \in Versions(r) : ledger[r][v].status # "draft"
    BY <1>1, CreateDecision DEF Journal
  <1> HIDE DEF d, stamp
  <1>5. CASE d.kind = "create" /\ d.version <= MaxVersion
    <2>1. InsertDraft(r, payload, d.prev, stamp)
          /\ attempt' = [attempt EXCEPT ![a] = q]
      BY <1>1, <1>5 DEF CreateDraft, d, stamp
    <2>2. /\ d.version \in Nat /\ d.prev \in Nat /\ d.version = new
          /\ new \in 1 .. MaxVersion
      BY <1>1, <1>4, <1>5
    <2>3. /\ ledger' \in [Removals -> Seq(Rows(Payloads))]
          /\ \A s \in Removals : Len(ledger'[s]) =
               IF s = r THEN new ELSE Len(ledger[s])
          /\ \A s \in Removals : \A v \in Versions(s) :
               ledger'[s][v] = ledger[s][v]
          /\ ledger'[r][new] =
               [status |-> "draft", hash |-> payload, ext |-> 0,
                lockedAt |-> stamp, outcome |-> "none",
                mutation |-> "unset", refresh |-> FALSE, prev |-> d.prev]
      BY <1>1, <1>3, <2>1, <2>2, InsertDraftRows DEF Journal
    <2>4. "scope" \in Steps BY PlaceNames
    <2>5. q \in Attempt
      BY ZenonT(60), <1>1, <1>3, <2>2, <2>4 DEF Attempt
    <2>6. /\ q.pc = "scope" /\ q.rem = r /\ q.ver = new
          /\ q.hash = payload /\ q.stamp = stamp /\ q.seen = attempt[a].seen
          /\ q.mutation = attempt[a].mutation /\ q.ext = attempt[a].ext
          /\ q.kind = attempt[a].kind /\ q.resumed = attempt[a].resumed
      BY <1>1, <2>2 DEF Attempt
    <2> HIDE DEF q
    <2>7. \A v \in Versions(r) : ledger[r][v].status # "draft" BY <1>4, <1>5
    <2>8. \E prev \in Nat : ledger'[r][new] =
             [status |-> "draft", hash |-> payload, ext |-> 0,
              lockedAt |-> stamp, outcome |-> "none", mutation |-> "unset",
              refresh |-> FALSE, prev |-> prev]
      BY <2>2, <2>3
    <2>9. TakesDraft(a, q) BY <2>1, <2>6 DEF TakesDraft, stamp
    <2> QED BY <1>2, <2>2, <2>3, <2>5, <2>7, <2>8, <2>9 DEF stamp
  <1>6. CASE ~(d.kind = "create" /\ d.version <= MaxVersion)
    <2>1. Stop(a) /\ UNCHANGED ledger BY <1>6 DEF CreateDraft, d
    <2> QED BY <1>2, <2>1
  <1> QED BY <1>5, <1>6

\* The same, of the attempt alone.
LEMMA CreateDraftTurn ==
    ASSUME Journal, NEW a \in Attempts, CreateDraft(a)
    PROVE  /\ attempt[a].pc = "creating"
           /\ \/ Stop(a) /\ UNCHANGED ledger
              \/ \E q \in Attempt : TakesDraft(a, q)
  <1>1. attempt[a].pc = "creating" BY CreateDraftMove
  <1>2. ASSUME ~(Stop(a) /\ UNCHANGED ledger)
        PROVE  \E q \in Attempt : TakesDraft(a, q)
    BY <1>2, CreateDraftMove
  <1> QED BY <1>1, <1>2

LEMMA StepIdentities ==
    ASSUME Journal, NEW a \in Attempts, Step(a)
    PROVE  IdentitiesKept
  <1> DEFINE r == attempt[a].rem
             v == attempt[a].ver
  <1>1. /\ Typed /\ r \in Removals /\ attempt[a].ext \in Nat
        /\ attempt[a].prev \in Nat
        /\ attempt[a].pc \in Owning \cup {"resetting"} =>
             v \in Versions(r) /\ Row(a) = ledger[r][v]
    BY TypedFacts, NamedFacts DEF Journal
  <1>2. (UNCHANGED ledger) => IdentitiesKept BY DEF IdentitiesKept
  <1>3. attempt[a].pc \in Owning /\ HoldsLock(r, v, attempt[a].stamp) =>
            ledger[r][v].ext \in {0, attempt[a].ext}
    BY DEF Journal, AttemptsSound, Sound, Holds, HoldsLock
  <1>4. CASE \/ \E s \in Removals : Load(a, s)
             \/ Route(a) \/ DecideResume(a) \/ GateStep(a) \/ ReserveClaims(a)
             \/ LookupFound(a) \/ LookupNone(a) \/ LookupFails(a)
             \/ PostAnswered(a) \/ PostRefused(a) \/ PostUnanswered(a)
             \/ Reconcile(a) \/ Verify(a) \/ FailStep(a)
    BY <1>2, <1>4, SameLedger
  <1>5. CASE CreateDraft(a)
    <2>1. \A s \in Removals : \A u \in Versions(s) : ledger'[s][u] = ledger[s][u]
      BY <1>5, CreateDraftMove
    <2> QED BY <2>1 DEF IdentitiesKept
  <1>6. CASE ResetDraft(a)
    <2>1. attempt[a].pc = "resetting" BY <1>6 DEF ResetDraft, Is
    <2>2. CASE CanResetToDraft(ledger[r][v], attempt[a].bypass, attempt[a].began)
      <3>1. PICK row \in Rows(Payloads) :
                WriteRow(r, v, row) /\ row.ext = ledger[r][v].ext
        BY <1>6, <2>2, ResetDraftMove
      <3> QED BY <1>1, <2>1, <3>1, WriteRowIdentities
    <2>3. CASE UNCHANGED ledger BY <1>2, <2>3
    <2> QED BY <1>6, <2>2, <2>3 DEF ResetDraft
  <1>7. CASE Retire(a)
    <2>1. /\ attempt[a].pc \in Owning
          /\ \/ UNCHANGED ledger
             \/ \E row \in Rows(Payloads) :
                  WriteRow(r, v, row) /\ row.ext = Row(a).ext
      BY <1>1, <1>7, RetireMove, PlaceNames
    <2> QED BY <1>1, <1>2, <2>1, WriteRowIdentities
  <1>8. CASE Confirm(a)
    <2>1. /\ attempt[a].pc \in Owning
          /\ \/ UNCHANGED ledger
             \/ /\ HoldsLock(r, v, attempt[a].stamp)
                /\ \E row \in Rows(Payloads) :
                     WriteRow(r, v, row) /\ row.ext = attempt[a].ext
      BY <1>1, <1>8, ConfirmMove, PlaceNames
    <2> QED BY <1>1, <1>2, <1>3, <2>1, WriteRowIdentities
  <1>9. CASE FinalizeSubmission(a)
    <2>1. /\ attempt[a].pc \in Owning
          /\ \/ UNCHANGED ledger
             \/ /\ HoldsLock(r, v, attempt[a].stamp)
                /\ Finalize([rem |-> r, ver |-> v], attempt[a].ext,
                      attempt[a].prev, ClaimBatches(a))
      BY <1>1, <1>9, FinalizeMove, PlaceNames
    <2>2. ASSUME HoldsLock(r, v, attempt[a].stamp),
                 Finalize([rem |-> r, ver |-> v], attempt[a].ext,
                     attempt[a].prev, ClaimBatches(a))
          PROVE  IdentitiesKept
      <3>1. /\ ledger'[r][v].ext = attempt[a].ext
            /\ \A u \in Versions(r) \ {v} : u = attempt[a].prev =>
                  ledger'[r][u].ext = ledger[r][u].ext
            /\ \A q \in Removals : \A u \in Versions(q) :
                  ~(q = r /\ u \in {v, attempt[a].prev}) =>
                      ledger'[q][u] = ledger[q][u]
        <4>1. FinalRows(r, v, attempt[a].ext, attempt[a].prev)
          BY <1>1, <2>1, <2>2, FinalRowsAre, Zenon
        <4> QED BY <4>1 DEF FinalRows, SubmittedRow, SupersededRow
      <3>2. ASSUME NEW q \in Removals, NEW u \in Versions(q),
                   ledger[q][u].ext # 0
            PROVE  ledger'[q][u].ext = ledger[q][u].ext
        <4>1. CASE q = r /\ u = v BY <1>3, <2>1, <2>2, <3>1, <3>2, <4>1
        <4>2. CASE q = r /\ u # v /\ u = attempt[a].prev BY <3>1, <4>2
        <4>3. CASE ~(q = r /\ u \in {v, attempt[a].prev}) BY <3>1, <4>3
        <4> QED BY <4>1, <4>2, <4>3
      <3> QED BY <3>2 DEF IdentitiesKept
    <2> QED BY <1>2, <2>1, <2>2
  <1>10. CASE RecordFailure(a)
    <2>1. /\ attempt[a].pc \in Owning
          /\ \/ UNCHANGED ledger
             \/ \E row \in Rows(Payloads) :
                  WriteRow(r, v, row) /\ row.ext = Row(a).ext
      BY <1>1, <1>10, RecordFailureMove, PlaceNames
    <2> QED BY <1>1, <1>2, <2>1, WriteRowIdentities
  <1> QED BY <1>4, <1>5, <1>6, <1>7, <1>8, <1>9, <1>10 DEF Step, GateStep

LEMMA NextKeepsIdentities == JournalInv /\ [Next]_vars => IdentitiesKept
  <1> SUFFICES ASSUME JournalInv, [Next]_vars PROVE IdentitiesKept OBVIOUS
  <1>1. CASE \E a \in Attempts : Step(a)
    BY <1>1, StepIdentities DEF JournalInv
  <1>2. CASE \/ \E a \in Attempts : Crash(a)
             \/ \E req \in wire : Deliver(req)
             \/ \E r \in Removals : Change(r)
             \/ Tick \/ UNCHANGED vars
    <2>1. UNCHANGED ledger
      BY <1>2 DEF Crash, Deliver, Change, Tick, ledgerVars, vars
    <2> QED BY <2>1 DEF IdentitiesKept
  <1> QED BY <1>1, <1>2 DEF Next

(* No reset, rejection, interruption or finalization loses a registry id   *)
(* that was journaled, or replaces it by another one.                      *)
THEOREM IdentityPermanence == Spec => IdentityIsPermanent
  <1>1. JournalInv /\ [Next]_vars =>
            [\A s \in SubmissionIds : RowOf(s).ext # 0 =>
               ledger'[s.rem][s.ver].ext = RowOf(s).ext]_vars
    <2> SUFFICES ASSUME JournalInv, [Next]_vars, NEW s \in SubmissionIds,
                        RowOf(s).ext # 0
                 PROVE  ledger'[s.rem][s.ver].ext = RowOf(s).ext
      OBVIOUS
    <2>1. IdentitiesKept BY NextKeepsIdentities
    <2> QED BY <2>1, NamedRow DEF IdentitiesKept, JournalInv
  <1> QED BY <1>1, JournalInvariance, PTL DEF Spec, IdentityIsPermanent
=============================================================================
