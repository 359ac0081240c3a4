----------------------- MODULE RemovalDeletion_proofs -----------------------
(***************************************************************************)
(* What RemovalDeletion guarantees when no call outlives its lock          *)
(* (Timely), with crashes, failing cleanups, drift and late requests.      *)
(*                                                                         *)
(* DeletionInv is the inductive invariant: the one of the submit pipeline  *)
(* (LocksInv), and what the two kinds of process leave each other.  A      *)
(* deletion that claimed a draft found its lock abandoned, so that handing *)
(* it back stops nobody (HandsBack); an attempt past the gate that reads   *)
(* the Removal finds it present until it ends (OwnersPresent); and claimed *)
(* production belongs to a Removal no deletion may take (ClaimsFinalized). *)
(* A step of a deletion only relocks rows (Relocked), only deletes records *)
(* behind its fence (DeleteRecords), or removes the Removal (Removed).     *)
(*                                                                         *)
(* That a deletion leaves no GHG Entry needs a second one, EntriesInv,     *)
(* which also assumes that no request lands late: a version has at most    *)
(* one GHG Entry at a time, an id on a row or in an attempt is that one's  *)
(* (RowsKnow, AttemptsKnow), and as long as the fence of a deletion stands *)
(* every entry left is one it still looks for or deletes (DeletersClear).  *)
(***************************************************************************)
EXTENDS RemovalDeletion, SubmissionRegistry_proofs

-----------------------------------------------------------------------------
(* The inductive invariant.                                                *)

DeletionTypes ==
    /\ present \in [Removals -> BOOLEAN]
    /\ lease \in [Removals -> Locks]
    /\ deletion \in [Deleters -> Deletion]

\* Places an attempt reaches only through the gates that read the Removal.
PastScope == Owning \ {"revision", "scope", "retire", "fail"}

OwnersPresent ==
    \A a \in Attempts :
        attempt[a].pc \in PastScope => present[attempt[a].rem]

\* What a deletion hands back is a lock that stops nobody.
HandBack(row, old, now) ==
    row.status = "draft" =>
        /\ old.lockedAt # NoLock
        /\ old.outcome = "interrupted" \/ now - old.lockedAt.at >= LockTTL

HandsBack(d) ==
    /\ deletion[d].stamp.by = d
    /\ \A v \in Versions(Target(d)) :
        /\ lease[Target(d)] = deletion[d].stamp
        /\ ledger[Target(d)][v].lockedAt = deletion[d].stamp
        => /\ v \in DOMAIN deletion[d].held
           /\ HandBack(ledger[Target(d)][v], deletion[d].held[v], clock)

DeletersHandBack == \A d \in Deleters : ~DeletionAt(d, "idle") => HandsBack(d)

\* Only a Removal that was finalized claims production.
ClaimsFinalized ==
    \A b \in Batches : \A r \in Removals : claimed[b] = r => EverFinalized(r)

DeletedInactive ==
    \A r \in Removals : ~present[r] =>
        \A v \in Versions(r) : ledger[r][v].status \notin ActiveStatuses

DeletionInv ==
    /\ LocksInv /\ DeletionTypes
    /\ OwnersPresent /\ DeletersHandBack /\ ClaimsFinalized
    /\ DeletedInactive /\ DeletedHoldsNothing

-----------------------------------------------------------------------------
(* Steps of a deletion that change only the locks of rows.                 *)

SameButLock(row, old) ==
    /\ row \in Rows(Payloads)
    /\ row.status = old.status /\ row.hash = old.hash /\ row.ext = old.ext
    /\ row.mutation = old.mutation /\ row.refresh = old.refresh
    /\ row.prev = old.prev

\* Rows of other Removals stay; those of r keep all but their locks.
Relocked(r) ==
    /\ ledger' \in [Removals -> Seq(Rows(Payloads))]
    /\ \A q \in Removals : Len(ledger'[q]) = Len(ledger[q])
    /\ \A q \in Removals \ {r} : ledger'[q] = ledger[q]
    /\ \A v \in Versions(r) : SameButLock(ledger'[r][v], ledger[r][v])

LEMMA SeqByIndex ==
    ASSUME NEW S, NEW n \in Nat, NEW f, \A i \in 1 .. n : f[i] \in S
    PROVE  [i \in 1 .. n |-> f[i]] \in Seq(S)
  OBVIOUS

LEMMA RowsByVersion ==
    ASSUME Typed, NEW r \in Removals, NEW rows,
           rows = [v \in DOMAIN ledger[r] |-> rows[v]],
           \A v \in Versions(r) : rows[v] \in Rows(Payloads),
           ledger' = [ledger EXCEPT ![r] = rows]
    PROVE  /\ ledger' \in [Removals -> Seq(Rows(Payloads))]
           /\ \A q \in Removals : Len(ledger'[q]) = Len(ledger[q])
           /\ \A q \in Removals \ {r} : ledger'[q] = ledger[q]
           /\ \A v \in Versions(r) : ledger'[r][v] = rows[v]
  <1>1. ledger \in [Removals -> Seq(Rows(Payloads))] BY StateFacts
  <1>2. /\ Len(ledger[r]) \in Nat /\ DOMAIN ledger[r] = 1 .. Len(ledger[r])
    BY <1>1, LenProperties
  <1>3. rows = [v \in 1 .. Len(ledger[r]) |-> rows[v]] BY <1>2
  <1>4. \A v \in 1 .. Len(ledger[r]) : rows[v] \in Rows(Payloads) BY DEF Versions
  <1>5. [v \in 1 .. Len(ledger[r]) |-> rows[v]] \in Seq(Rows(Payloads))
    <2>1. PICK n \in Nat : n = Len(ledger[r]) BY <1>2
    <2>2. \A v \in 1 .. n : rows[v] \in Rows(Payloads) BY <1>4, <2>1
    <2>3. [v \in 1 .. n |-> rows[v]] \in Seq(Rows(Payloads))
      BY <2>2, SeqByIndex
    <2> QED BY <2>1, <2>3
  <1>6. rows \in Seq(Rows(Payloads)) /\ DOMAIN rows = 1 .. Len(ledger[r])
    BY <1>3, <1>5
  <1>7. Len(rows) = Len(ledger[r]) BY <1>2, <1>6, LenProperties
  <1>8. ledger'[r] = rows /\ \A q \in Removals \ {r} : ledger'[q] = ledger[q]
    BY <1>1
  <1>9. ledger' \in [Removals -> Seq(Rows(Payloads))] BY <1>1, <1>6
  <1> QED BY <1>7, <1>8, <1>9

LEMMA RelockedInv ==
    ASSUME Inv, NEW r \in Removals, Relocked(r),
           UNCHANGED <<clock, content, claimed, reserved, locker, attempt,
                       registry, wire>>
    PROVE  Inv'
  <1>1. Typed BY InvTyped
  <1>2. \A q \in Removals : Len(ledger[q]) \in Nat BY <1>1, StateFacts
  <1>3. \A q \in Removals : \A v \in Versions(q) :
            /\ ledger'[q][v].hash = ledger[q][v].hash
            /\ ledger'[q][v].status = ledger[q][v].status
    BY DEF Relocked, SameButLock
  <1>4. /\ ledger' \in [Removals -> Seq(Rows(Payloads))]
        /\ \A q \in Removals : Len(ledger'[q]) = Len(ledger[q])
    BY DEF Relocked
  <1>5. HashesKept /\ NoNewSubmitted /\ ClaimsKept
    BY <1>3, <1>4 DEF HashesKept, NoNewSubmitted, ClaimsKept, Versions
  <1>6. LedgerTypeOK' BY <1>4 DEF Inv, TypeOK, LedgerTypeOK
  <1>7. Bounded' BY <1>4 DEF Inv, Bounded
  <1>8. attempt' \in [Attempts -> Attempt] BY DEF Inv, TypeOK
  <1>9. \A b \in Attempts : Fits(attempt[b], ledger', claimed')
    BY <1>5, OthersFit
  <1>10. AttemptsFit' BY <1>9 DEF AttemptsFit
  <1> QED BY <1>5, <1>6, <1>7, <1>8, <1>10, FullStep

LEMMA RelockedRows ==
    ASSUME Journal, NEW r \in Removals, Relocked(r), UNCHANGED registry,
           \A v \in Versions(r) : ledger[r][v].status = "draft" =>
               ledger'[r][v].lockedAt # NoLock
    PROVE  RowsSound'
  <1>1. /\ \A q \in Removals : Len(ledger'[q]) = Len(ledger[q])
        /\ \A q \in Removals \ {r} : ledger'[q] = ledger[q]
        /\ \A v \in Versions(r) : SameButLock(ledger'[r][v], ledger[r][v])
    BY DEF Relocked
  <1>2. RowsSound BY DEF Journal
  <1>3. \A q \in Removals : Len(ledger[q]) \in Nat
    BY StateFacts DEF Journal
  <1> SUFFICES ASSUME NEW q \in Removals, NEW v \in Versions(q)
               PROVE
        /\ ledger'[q][v].status # "accepted" /\ ~ledger'[q][v].refresh
        /\ ledger'[q][v].prev \in {0, v - 1}
        /\ ledger'[q][v].status = "draft" =>
             v = Len(ledger'[q]) /\ ledger'[q][v].lockedAt # NoLock
        /\ ledger'[q][v].ext <= Len(registry[EntryOn(q, v)])
        /\ v > 1 /\ ledger'[q][v].status = "submitted" =>
             ledger'[q][v - 1].status \in {"rejected", "superseded"}
    <2>1. \A q \in Removals : Versions(q)' = Versions(q)
      BY <1>1 DEF Versions
    <2>2. \A q \in Removals : \A v \in Versions(q) :
              EntryOn(q, v)' = EntryOn(q, v)
      BY DEF EntryOn
    <2> QED BY <2>1, <2>2 DEF RowsSound
  <1>4. CASE q # r BY <1>1, <1>2, <1>4 DEF RowsSound
  <1>5. CASE q = r
    <2>1. SameButLock(ledger'[r][v], ledger[r][v]) BY <1>1, <1>5
    <2>2. v > 1 => v - 1 \in Versions(r) BY <1>3, <1>5 DEF Versions
    <2>3. v > 1 => ledger'[r][v - 1].status = ledger[r][v - 1].status
      BY <1>1, <2>2 DEF SameButLock
    <2> QED BY <1>1, <1>2, <1>5, <2>1, <2>3 DEF RowsSound, SameButLock
  <1> QED BY <1>4, <1>5

\* What the attempts at r can still rely on.
AttemptsSpared(r) ==
    \A b \in Attempts : attempt[b].rem = r =>
        /\ attempt[b].pc \in Owning =>
             \/ ledger'[r][attempt[b].ver] = ledger[r][attempt[b].ver]
             \/ ledger[r][attempt[b].ver].status = "superseded"
        /\ attempt[b].pc = "resetting" =>
             Resettable(ledger'[r][attempt[b].ver], clock)

LEMMA RelockedAttempts ==
    ASSUME Journal, NEW r \in Removals, Relocked(r), AttemptsSpared(r),
           UNCHANGED <<clock, locker, attempt, registry>>
    PROVE  AttemptsSound' /\ (AttemptsHeld => AttemptsHeld')
  <1>1. /\ \A q \in Removals : Len(ledger'[q]) = Len(ledger[q])
        /\ \A q \in Removals \ {r} : ledger'[q] = ledger[q]
        /\ \A v \in Versions(r) : SameButLock(ledger'[r][v], ledger[r][v])
    BY DEF Relocked
  <1>2. \A q \in Removals : \A v \in Versions(q) :
            ledger'[q][v].status = ledger[q][v].status
    BY <1>1 DEF SameButLock
  <1>3. ASSUME NEW b \in Attempts
        PROVE  /\ Sound(b, attempt[b], ledger', registry, locker)
               /\ KeepsLock(attempt[b], ledger, clock) =>
                    KeepsLock(attempt[b], ledger', clock)
    <2> DEFINE q == attempt[b]
               old == ledger[q.rem][q.ver]
               row == ledger'[q.rem][q.ver]
    <2>1. /\ q.rem \in Removals /\ q.ver \in Nat
          /\ Len(ledger[q.rem]) \in Nat
          /\ q.pc \in Owning \cup {"resetting"} => q.ver \in Versions(q.rem)
      BY TypedFacts, NamedFacts DEF Journal
    <2>2. Sound(b, q, ledger, registry, locker) BY DEF Journal, AttemptsSound
    <2>3. q.pc \in Owning => row = old \/ old.status = "superseded"
      BY <1>1, <2>1 DEF AttemptsSpared
    <2>4. q.pc \in Owning => row.status = old.status BY <1>2, <2>1
    <2>5. q.pc = "resetting" /\ q.rem = r => Resettable(row, clock)
      BY DEF AttemptsSpared
    <2>6. q.pc = "resetting" /\ q.rem # r => row = old BY <1>1, <2>1
    <2>7. Len(ledger'[q.rem]) = Len(ledger[q.rem]) BY <1>1, <2>1
    <2>8. q.pc \in Owning => (Holds(q, ledger') => Holds(q, ledger) /\ row = old)
      BY <2>3, <2>4 DEF Holds
    <2>9. q.pc \in Owning => (Replaces(q, ledger) => Replaces(q, ledger'))
      <3>1. q.pc \in Owning /\ q.ver > 1 => q.ver - 1 \in Versions(q.rem)
        BY <2>1 DEF Versions
      <3> QED BY <1>2, <2>1, <3>1 DEF Replaces
    <2>10. Sound(b, q, ledger', registry, locker)
      BY <2>2, <2>7, <2>8, <2>9 DEF Sound
    <2>11. KeepsLock(q, ledger, clock) => KeepsLock(q, ledger', clock)
      BY <2>3, <2>4, <2>5, <2>6 DEF KeepsLock, RowHeld
    <2> QED BY <2>10, <2>11
  <1>4. AttemptsSound' BY <1>3 DEF AttemptsSound
  <1>5. AttemptsHeld => AttemptsHeld' BY <1>3 DEF AttemptsHeld
  <1> QED BY <1>4, <1>5

LEMMA RelockKeepsLocks ==
    ASSUME LocksInv, NEW r \in Removals, Relocked(r), AttemptsSpared(r),
           UNCHANGED <<clock, content, claimed, reserved, locker, attempt,
                       registry, wire>>,
           \A v \in Versions(r) : ledger[r][v].status = "draft" =>
               ledger'[r][v].lockedAt # NoLock
    PROVE  LocksInv'
  <1>1. Inv /\ Journal BY DEF LocksInv, JournalInv
  <1>2. Inv' BY <1>1, RelockedInv
  <1>3. Typed'
    <2>1. Inv' => Typed' BY InvTyped, PTL
    <2> QED BY <1>2, <2>1
  <1>4. RowsSound' BY <1>1, RelockedRows
  <1>5. AttemptsSound' /\ (AttemptsHeld => AttemptsHeld')
    BY <1>1, RelockedAttempts
  <1> QED BY <1>2, <1>3, <1>4, <1>5 DEF LocksInv, JournalInv, Journal

-----------------------------------------------------------------------------
(* Steps of a deletion at the registry.                                    *)

LEMMA DeletingRecords ==
    ASSUME Typed, NEW refs, NEW ids, DeleteRecords(refs, ids)
    PROVE  /\ registry' \in [References -> Seq(BOOLEAN)]
           /\ RegistryGrows
           /\ \A ref \in References : DOMAIN registry'[ref] = DOMAIN registry[ref]
           /\ \A ref \in References : \A id \in DOMAIN registry[ref] :
                registry'[ref][id] <=>
                    registry[ref][id] /\ ~(ref \in refs /\ id \in ids)
  <1> DEFINE new(ref) == [id \in DOMAIN registry[ref] |->
                 registry[ref][id] /\ ~(ref \in refs /\ id \in ids)]
  <1>1. registry' = [ref \in References |-> new(ref)] BY DEF DeleteRecords
  <1>2. ASSUME NEW ref \in References
        PROVE  /\ new(ref) \in Seq(BOOLEAN)
               /\ Len(new(ref)) = Len(registry[ref])
               /\ DOMAIN new(ref) = DOMAIN registry[ref]
    <2>1. registry[ref] \in Seq(BOOLEAN) BY StateFacts
    <2>2. Len(registry[ref]) \in Nat /\ DOMAIN registry[ref] = 1 .. Len(registry[ref])
      BY <2>1, LenProperties
    <2>3. new(ref) = [id \in 1 .. Len(registry[ref]) |->
                 registry[ref][id] /\ ~(ref \in refs /\ id \in ids)]
      BY <2>2
    <2>4. \A id \in 1 .. Len(registry[ref]) :
            (registry[ref][id] /\ ~(ref \in refs /\ id \in ids)) \in BOOLEAN
      OBVIOUS
    <2>5. new(ref) \in Seq(BOOLEAN)
      <3> HIDE DEF new
      <3>1. \A id \in 1 .. Len(registry[ref]) : new(ref)[id] \in BOOLEAN
        BY <2>3
      <3>2. new(ref) = [id \in 1 .. Len(registry[ref]) |-> new(ref)[id]]
        BY <2>3
      <3> QED BY <2>2, <3>1, <3>2, IsASeq
    <2>6. DOMAIN new(ref) = DOMAIN registry[ref] OBVIOUS
    <2> HIDE DEF new
    <2>7. Len(new(ref)) = Len(registry[ref]) BY <2>2, <2>5, <2>6, LenProperties
    <2> QED BY <2>5, <2>6, <2>7
  <1>3. \A ref \in References : \A id \in DOMAIN registry[ref] :
            new(ref)[id] <=> registry[ref][id] /\ ~(ref \in refs /\ id \in ids)
    OBVIOUS
  <1> HIDE DEF new
  <1>4. \A ref \in References : registry'[ref] = new(ref) BY <1>1
  <1>5. \A ref \in References : Len(registry[ref]) \in Nat
    BY StateFacts, LenProperties
  <1>6. registry' \in [References -> Seq(BOOLEAN)] BY <1>1, <1>2
  <1>7. RegistryGrows BY <1>2, <1>4, <1>5 DEF RegistryGrows
  <1> QED BY <1>2, <1>3, <1>4, <1>6, <1>7

LEMMA RecordsKeepLocks ==
    ASSUME LocksInv, RegistryGrows, registry' \in [References -> Seq(BOOLEAN)],
           UNCHANGED <<ledgerVars, attempt, wire>>
    PROVE  LocksInv'
  <1>1. Inv /\ Journal BY DEF LocksInv, JournalInv
  <1>2. UNCHANGED <<clock, content, ledger, claimed, reserved, locker>>
    BY DEF ledgerVars
  <1>3. Inv'
    BY <1>1, <1>2 DEF Inv, TypeOK, LedgerTypeOK, Bounded, AttemptsFit,
       SubmittedOwnsItsProduction, SubmissionIds, RowOf, Versions
  <1>4. Typed'
    <2>1. Inv' => Typed' BY InvTyped, PTL
    <2> QED BY <1>3, <2>1
  <1>5. RowsSound' BY <1>1, <1>2, RowsQuiet
  <1>6. ASSUME NEW b \in Attempts
        PROVE  Sound(b, attempt[b], ledger', registry', locker')
    <2>1. b # None BY AttemptsAssumption, NoneAssumption
    <2>2. RowsRespected(None) BY <1>1, <1>2, QuietRespects DEF Journal
    <2>3. LocksRespected(None) BY <1>2 DEF LocksRespected
    <2>4. ledger' \in [Removals -> Seq(Rows(Payloads))]
      BY <1>1, <1>2, StateFacts DEF Journal
    <2> QED BY <1>1, <2>1, <2>2, <2>3, <2>4, OthersSound
  <1>7. AttemptsSound' BY <1>6 DEF AttemptsSound
  <1>8. AttemptsHeld => AttemptsHeld' BY <1>2 DEF AttemptsHeld
  <1> QED BY <1>3, <1>4, <1>5, <1>7, <1>8 DEF LocksInv, JournalInv, Journal

-----------------------------------------------------------------------------
(* Claiming a Removal for deletion.                                        *)

LEMMA Deleting ==
    ASSUME NEW d \in Deleters
    PROVE  d \in Owners /\ d # Nobody /\ d # None /\ d \notin Attempts
  BY DeletersAssumption, NobodyAssumption, NoneAssumption

LEMMA DeletionFacts ==
    ASSUME DeletionTypes, NEW d \in Deleters
    PROVE  /\ Target(d) \in Removals /\ deletion[d].stamp \in Locks
           /\ deletion[d] \in Deletion /\ deletion[d].held \in Seq(Held)
  BY DEF DeletionTypes, Deletion, Target

\* A deletion that only relocks rows takes no Removal away.
LEMMA RelockKeepsRest ==
    ASSUME DeletionInv, NEW r \in Removals, Relocked(r),
           UNCHANGED <<present, attempt, claimed, reserved>>
    PROVE  /\ OwnersPresent' /\ ClaimsFinalized'
           /\ DeletedInactive' /\ DeletedHoldsNothing'
  <1>1. \A q \in Removals : Len(ledger[q]) \in Nat
    BY StateFacts DEF DeletionInv, LocksInv, JournalInv, Journal
  <1>2. \A q \in Removals : /\ Len(ledger'[q]) = Len(ledger[q])
                            /\ \A v \in Versions(q) :
                                 ledger'[q][v].status = ledger[q][v].status
    BY DEF Relocked, SameButLock
  <1>3. \A q \in Removals : EverFinalized(q) => EverFinalized(q)'
    BY <1>2 DEF EverFinalized, Versions
  <1>4. ClaimsFinalized'
    BY <1>3 DEF DeletionInv, ClaimsFinalized
  <1>5. DeletedInactive' BY <1>2 DEF DeletionInv, DeletedInactive, Versions
  <1> QED BY <1>4, <1>5 DEF DeletionInv, OwnersPresent, DeletedHoldsNothing

LEMMA ClaimRows ==
    ASSUME Typed, NEW d \in Deleters, NEW r \in Removals, ClaimDeletion(d, r)
    PROVE  /\ Relocked(r)
           /\ \A v \in Versions(r) :
                /\ ledger'[r][v].lockedAt = [by |-> d, at |-> clock]
                /\ ledger'[r][v].outcome = "deleting"
  <1> DEFINE stamp == [by |-> d, at |-> clock]
             row(v) == [ledger[r][v] EXCEPT !.lockedAt = stamp,
                          !.outcome = "deleting"]
             rows == [v \in DOMAIN ledger[r] |-> row(v)]
  <1>1. ledger' = [ledger EXCEPT ![r] = rows] BY DEF ClaimDeletion
  <1>2. /\ ledger \in [Removals -> Seq(Rows(Payloads))] /\ clock \in Nat
        /\ d \in Owners
    BY StateFacts, Deleting
  <1>3. stamp \in Locks BY <1>2 DEF Locks
  <1>4. "deleting" \in Outcomes BY DEF Outcomes
  <1>5. ASSUME NEW v \in Versions(r)
        PROVE  /\ row(v) \in Rows(Payloads)
               /\ SameButLock(row(v), ledger[r][v])
               /\ row(v).lockedAt = stamp /\ row(v).outcome = "deleting"
    <2>1. ledger[r][v] \in Rows(Payloads) BY RowFacts
    <2> HIDE DEF stamp
    <2>2. row(v) \in Rows(Payloads) BY ZenonT(60), <1>3, <1>4, <2>1 DEF Rows
    <2> QED BY <2>1, <2>2 DEF Rows, SameButLock
  <1>6. DOMAIN ledger[r] = Versions(r) BY <1>2, LenProperties DEF Versions
  <1>7. /\ \A v \in Versions(r) : rows[v] = row(v)
        /\ rows = [v \in DOMAIN ledger[r] |-> rows[v]]
    BY <1>6
  <1> HIDE DEF row, rows
  <1>8. /\ ledger' \in [Removals -> Seq(Rows(Payloads))]
        /\ \A q \in Removals : Len(ledger'[q]) = Len(ledger[q])
        /\ \A q \in Removals \ {r} : ledger'[q] = ledger[q]
        /\ \A v \in Versions(r) : ledger'[r][v] = rows[v]
    <2>1. \A v \in Versions(r) : rows[v] \in Rows(Payloads) BY <1>5, <1>7
    <2> QED BY <1>1, <1>7, <2>1, RowsByVersion
  <1>9. \A v \in Versions(r) :
            /\ SameButLock(ledger'[r][v], ledger[r][v])
            /\ ledger'[r][v].lockedAt = stamp
            /\ ledger'[r][v].outcome = "deleting"
    <2> SUFFICES ASSUME NEW v \in Versions(r)
                 PROVE  /\ SameButLock(ledger'[r][v], ledger[r][v])
                        /\ ledger'[r][v].lockedAt = stamp
                        /\ ledger'[r][v].outcome = "deleting"
      OBVIOUS
    <2>1. ledger'[r][v] = row(v) BY <1>7, <1>8
    <2> QED BY <1>5, <2>1
  <1> QED BY <1>8, <1>9 DEF Relocked

\* What a claim remembers of a row to hand it back.
Remembered(row) ==
    [lockedAt |-> row.lockedAt,
     outcome |-> IF row.outcome = "deleting" THEN "none" ELSE row.outcome]

LEMMA ClaimMove ==
    ASSUME Typed, DeletionTypes, NEW d \in Deleters, NEW r \in Removals,
           ClaimDeletion(d, r)
    PROVE  \E q \in Deletion :
             /\ deletion' = [deletion EXCEPT ![d] = q]
             /\ q.pc # "idle" /\ q.rem = r
             /\ q.stamp = [by |-> d, at |-> clock]
             /\ q.held = [v \in Versions(r) |-> Remembered(ledger[r][v])]
  <1> DEFINE rows == ledger[r]
             pc == IF rows = << >> THEN "finalize" ELSE "lookup"
             stamp == [by |-> d, at |-> clock]
             held == [v \in DOMAIN rows |->
                    [lockedAt |-> rows[v].lockedAt,
                     outcome |-> IF rows[v].outcome = "deleting" THEN "none"
                                 ELSE rows[v].outcome]]
             unconfirmed == {v \in DOMAIN rows : rows[v].ext = 0}
             targets == {[ver |-> v, id |-> rows[v].ext] :
                    v \in {u \in DOMAIN rows : rows[u].ext # 0}}
             q == [pc |-> pc, rem |-> r, stamp |-> stamp, held |-> held,
                   unconfirmed |-> unconfirmed, targets |-> targets]
  <1>1. deletion' = [deletion EXCEPT ![d] = q] BY DEF ClaimDeletion
  <1>2. /\ ledger \in [Removals -> Seq(Rows(Payloads))] /\ clock \in Nat
        /\ d \in Owners
    BY StateFacts, Deleting
  <1>3. DOMAIN rows = Versions(r) /\ DOMAIN rows = 1 .. Len(rows)
        /\ Len(rows) \in Nat
    BY <1>2, LenProperties DEF Versions
  <1>4. \A v \in Versions(r) : rows[v] \in Rows(Payloads) /\ v \in 1 .. MaxVersion
    BY RowFacts
  <1>5. pc \in DeletionSteps /\ pc # "idle" BY DEF DeletionSteps
  <1>6. stamp \in Locks BY <1>2 DEF Locks
  <1>7. held = [v \in Versions(r) |-> Remembered(rows[v])]
    BY <1>3 DEF Remembered
  <1>8. held \in Seq(Held)
    <2>1. \A v \in 1 .. Len(rows) : held[v] \in Held
      <3> SUFFICES ASSUME NEW v \in 1 .. Len(rows) PROVE held[v] \in Held
        OBVIOUS
      <3>1. rows[v].lockedAt \in Locks /\ rows[v].outcome \in Outcomes
        BY <1>3, <1>4 DEF Rows
      <3>2. held[v] = [lockedAt |-> rows[v].lockedAt,
                       outcome |-> IF rows[v].outcome = "deleting" THEN "none"
                                   ELSE rows[v].outcome]
        BY <1>3
      <3> QED BY <3>1, <3>2 DEF Held, Outcomes
    <2>2. held = [v \in 1 .. Len(rows) |-> held[v]] BY <1>3
    <2> HIDE DEF held, rows
    <2> QED BY <1>3, <2>1, <2>2, IsASeq
  <1>9. unconfirmed \in SUBSET (1 .. MaxVersion) BY <1>3, <1>4
  <1>10. targets \in SUBSET Targets BY <1>3, <1>4 DEF Targets, Rows
  <1> HIDE DEF pc, stamp, held, unconfirmed, targets, rows
  <1>11. q \in Deletion BY <1>5, <1>6, <1>8, <1>9, <1>10 DEF Deletion
  <1>12. q.pc = pc /\ q.rem = r /\ q.stamp = stamp /\ q.held = held OBVIOUS
  <1> HIDE DEF q
  <1> QED BY <1>1, <1>5, <1>7, <1>11, <1>12 DEF stamp, rows

\* No attempt at r stands in the way of a claim that goes through.
LEMMA ClaimSpares ==
    ASSUME Timely, DeletionInv, NEW d \in Deleters, NEW r \in Removals,
           ClaimDeletion(d, r)
    PROVE  AttemptsSpared(r)
  <1>1. Journal /\ AttemptsHeld
    BY DEF DeletionInv, LocksInv, JournalInv
  <1>2. locker[r] = None /\ Deletable(r) BY DEF ClaimDeletion
  <1> SUFFICES ASSUME NEW b \in Attempts, attempt[b].rem = r
               PROVE  /\ attempt[b].pc # "resetting"
                      /\ attempt[b].pc \in Owning =>
                           ledger[r][attempt[b].ver].status = "superseded"
    BY DEF AttemptsSpared
  <1>3. b \in Owners /\ b # Nobody /\ b # None
    BY AttemptsAssumption, NobodyAssumption, NoneAssumption
  <1>4. attempt[b].pc # "resetting"
    BY <1>1, <1>2, <1>3 DEF Journal, AttemptsSound, Sound
  <1>5. ASSUME attempt[b].pc \in Owning,
               ledger[r][attempt[b].ver].status # "superseded"
        PROVE  FALSE
    <2> DEFINE row == ledger[r][attempt[b].ver]
    <2>1. attempt[b].ver \in Versions(r) BY <1>1, <1>5, NamedFacts DEF Journal
    <2>2. /\ row.status = "draft" /\ row.lockedAt = attempt[b].stamp
          /\ row.outcome = "none" /\ clock - attempt[b].stamp.at < LockTTL
      BY <1>1, <1>5 DEF AttemptsHeld, KeepsLock, RowHeld
    <2>3. attempt[b].stamp.by = b
      BY <1>1, <1>5 DEF Journal, AttemptsSound, Sound
    <2>4. LockIsFresh(row, clock)
      BY <1>3, <2>2, <2>3 DEF LockIsFresh, NoLock
    <2> QED BY <1>2, <2>1, <2>2, <2>4 DEF Deletable
  <1> QED BY <1>4, <1>5

LEMMA ClaimHandsBack ==
    ASSUME DeletionInv, NEW d \in Deleters, NEW r \in Removals,
           ClaimDeletion(d, r)
    PROVE  DeletersHandBack'
  <1>1. Journal BY DEF DeletionInv, LocksInv, JournalInv
  <1>2. PICK q \in Deletion :
            /\ deletion' = [deletion EXCEPT ![d] = q]
            /\ q.pc # "idle" /\ q.rem = r
            /\ q.stamp = [by |-> d, at |-> clock]
            /\ q.held = [v \in Versions(r) |-> Remembered(ledger[r][v])]
    BY <1>1, ClaimMove DEF Journal, DeletionInv
  <1>3. /\ Relocked(r)
        /\ \A v \in Versions(r) :
             ledger'[r][v].lockedAt = [by |-> d, at |-> clock]
    BY <1>1, ClaimRows DEF Journal
  <1>4. Deletable(r) /\ UNCHANGED clock /\ clock \in Nat
        /\ lease' = [lease EXCEPT ![r] = [by |-> d, at |-> clock]]
    BY <1>1, StateFacts DEF ClaimDeletion, Journal
  <1>5. /\ lease \in [Removals -> Locks] /\ deletion \in [Deleters -> Deletion]
    BY DEF DeletionInv, DeletionTypes
  <1>6. lease'[r] = [by |-> d, at |-> clock]
        /\ \A s \in Removals \ {r} : lease'[s] = lease[s]
    BY <1>4, <1>5
  <1>7. deletion'[d] = q
        /\ \A e \in Deleters \ {d} : deletion'[e] = deletion[e]
    BY <1>2, <1>5
  <1>8. HandsBack(d)'
    <2>1. ASSUME NEW v \in Versions(r)
          PROVE  HandBack(ledger'[r][v], q.held[v], clock)
      <3> DEFINE row == ledger[r][v]
      <3>1. ledger'[r][v].status = row.status
        BY <1>3 DEF Relocked, SameButLock
      <3>2. q.held[v] = Remembered(row) BY <1>2
      <3>3. row.status = "draft" => row.lockedAt # NoLock
        BY <1>1 DEF Journal, RowsSound
      <3>4. row.status = "draft" /\ LockIsFresh(row, clock) =>
                row.outcome = "interrupted"
        BY <1>4 DEF Deletable
      <3>5. row.lockedAt.at \in Nat BY <1>1, RowFacts DEF Journal, Locks
      <3> HIDE DEF row
      <3>6. row.lockedAt # NoLock /\ ~LockIsFresh(row, clock) =>
                clock - row.lockedAt.at >= LockTTL
        BY <1>4, <3>5, LockTTLAssumption DEF LockIsFresh
      <3>7. Remembered(row).lockedAt = row.lockedAt
            /\ (row.outcome = "interrupted" =>
                  Remembered(row).outcome = "interrupted")
        BY DEF Remembered
      <3> QED BY <3>1, <3>2, <3>3, <3>4, <3>6, <3>7 DEF HandBack
    <2>2. /\ deletion'[d].rem = r /\ deletion'[d].stamp.by = d
          /\ deletion'[d].held = q.held /\ DOMAIN q.held = Versions(r)
      BY <1>2, <1>7
    <2>3. Versions(r)' = Versions(r) BY <1>3 DEF Relocked, Versions
    <2> QED BY <1>4, <2>1, <2>2, <2>3 DEF HandsBack, Target
  <1>9. ASSUME NEW e \in Deleters \ {d}, ~DeletionAt(e, "idle")'
        PROVE  HandsBack(e)'
    <2>1. deletion'[e] = deletion[e] /\ HandsBack(e)
          /\ Target(e) \in Removals
      BY <1>7, <1>9, DeletionFacts
         DEF DeletionInv, DeletersHandBack, DeletionAt
    <2>2. Target(e)' = Target(e) BY <2>1 DEF Target
    <2>3. CASE Target(e) = r
      <3>1. lease'[r] # deletion[e].stamp
        BY <1>6, <2>1 DEF HandsBack
      <3> QED BY <2>1, <2>2, <2>3, <3>1 DEF HandsBack
    <2>4. CASE Target(e) # r
      <3>1. ledger'[Target(e)] = ledger[Target(e)]
            /\ lease'[Target(e)] = lease[Target(e)]
        BY <1>3, <1>6, <2>1, <2>4 DEF Relocked
      <3> QED BY <1>4, <2>1, <2>2, <3>1 DEF HandsBack, Versions
    <2> QED BY <2>3, <2>4
  <1> QED BY <1>8, <1>9 DEF DeletersHandBack

LEMMA ClaimKeepsInv ==
    ASSUME Timely, DeletionInv, NEW d \in Deleters, NEW r \in Removals,
           ClaimDeletion(d, r)
    PROVE  DeletionInv'
  <1>1. Journal BY DEF DeletionInv, LocksInv, JournalInv
  <1>2. d \in Owners /\ d # Nobody /\ clock \in Nat
    BY <1>1, StateFacts, Deleting DEF Journal
  <1>3. /\ UNCHANGED <<clock, content, claimed, reserved, locker, attempt,
                       registry, wire, present>>
        /\ lease' = [lease EXCEPT ![r] = [by |-> d, at |-> clock]]
    BY DEF ClaimDeletion
  <1>4. Relocked(r)
        /\ \A v \in Versions(r) :
             ledger'[r][v].lockedAt = [by |-> d, at |-> clock]
    BY <1>1, ClaimRows DEF Journal
  <1>5. [by |-> d, at |-> clock] # NoLock BY <1>2 DEF NoLock
  <1>6. LocksInv'
    BY <1>3, <1>4, <1>5, ClaimSpares, RelockKeepsLocks DEF DeletionInv
  <1>7. DeletionTypes'
    <2>1. \E q \in Deletion : deletion' = [deletion EXCEPT ![d] = q]
      BY <1>1, ClaimMove DEF Journal, DeletionInv
    <2>2. [by |-> d, at |-> clock] \in Locks BY <1>2 DEF Locks
    <2> QED BY <1>3, <2>1, <2>2 DEF DeletionInv, DeletionTypes
  <1> QED BY <1>3, <1>4, <1>6, <1>7, ClaimHandsBack, RelockKeepsRest
       DEF DeletionInv

-----------------------------------------------------------------------------
(* Handing the rows back.                                                  *)

LEMMA ReleaseRows ==
    ASSUME DeletionInv, NEW d \in Deleters,
           LET r == Target(d)
               held == deletion[d].held
           IN  ledger' = [ledger EXCEPT ![r] = [v \in DOMAIN @ |->
                    IF v \in DOMAIN held /\ @[v].lockedAt = deletion[d].stamp
                      THEN [@[v] EXCEPT !.lockedAt = held[v].lockedAt,
                               !.outcome = held[v].outcome]
                      ELSE @[v]]]
    PROVE  /\ Relocked(Target(d))
           /\ \A v \in Versions(Target(d)) :
                \/ /\ v \in DOMAIN deletion[d].held
                   /\ ledger[Target(d)][v].lockedAt = deletion[d].stamp
                   /\ ledger'[Target(d)][v].lockedAt =
                        deletion[d].held[v].lockedAt
                   /\ ledger'[Target(d)][v].outcome =
                        deletion[d].held[v].outcome
                \/ /\ ~ /\ v \in DOMAIN deletion[d].held
                        /\ ledger[Target(d)][v].lockedAt = deletion[d].stamp
                   /\ ledger'[Target(d)][v] = ledger[Target(d)][v]
  <1> DEFINE r == Target(d)
             held == deletion[d].held
             mine(v) == /\ v \in DOMAIN held
                        /\ ledger[r][v].lockedAt = deletion[d].stamp
             given(v) == [ledger[r][v] EXCEPT !.lockedAt = held[v].lockedAt,
                            !.outcome = held[v].outcome]
             row(v) == IF mine(v) THEN given(v) ELSE ledger[r][v]
             rows == [v \in DOMAIN ledger[r] |-> row(v)]
  <1>1. Typed BY DEF DeletionInv, LocksInv, JournalInv, Journal
  <1>2. r \in Removals /\ held \in Seq(Held)
    BY DeletionFacts DEF DeletionInv
  <1>3. /\ ledger \in [Removals -> Seq(Rows(Payloads))]
    BY <1>1, StateFacts
  <1>4. ledger' = [ledger EXCEPT ![r] = rows] BY <1>2, <1>3
  <1>5. ASSUME NEW v \in Versions(r), mine(v)
        PROVE  /\ given(v) \in Rows(Payloads)
               /\ SameButLock(given(v), ledger[r][v])
               /\ given(v).lockedAt = held[v].lockedAt
               /\ given(v).outcome = held[v].outcome
    <2>1. ledger[r][v] \in Rows(Payloads) BY <1>1, <1>2, RowFacts
    <2>2. held[v] \in Held
      <3> HIDE DEF held
      <3>1. DOMAIN held = 1 .. Len(held) BY <1>2, LenProperties
      <3> QED BY <1>2, <1>5, <3>1, ElementOfSeq
    <2>3. held[v].lockedAt \in Locks /\ held[v].outcome \in Outcomes
      BY <2>2 DEF Held
    <2> HIDE DEF held
    <2>4. given(v) \in Rows(Payloads)
      BY ZenonT(60), <2>1, <2>3 DEF Rows
    <2> QED BY <2>1, <2>4 DEF Rows, SameButLock
  <1>6. ASSUME NEW v \in Versions(r)
        PROVE  /\ row(v) \in Rows(Payloads)
               /\ SameButLock(row(v), ledger[r][v])
               /\ \/ /\ mine(v) /\ row(v).lockedAt = held[v].lockedAt
                     /\ row(v).outcome = held[v].outcome
                  \/ ~mine(v) /\ row(v) = ledger[r][v]
    <2>1. ledger[r][v] \in Rows(Payloads) BY <1>1, <1>2, RowFacts
    <2>2. SameButLock(ledger[r][v], ledger[r][v]) BY <2>1 DEF SameButLock
    <2> HIDE DEF mine, given
    <2> QED BY <1>5, <2>1, <2>2
  <1>7. DOMAIN ledger[r] = Versions(r)
    BY <1>2, <1>3, LenProperties DEF Versions
  <1>8. /\ \A v \in Versions(r) : rows[v] = row(v)
        /\ rows = [v \in DOMAIN ledger[r] |-> rows[v]]
    <2> HIDE DEF row
    <2> QED BY <1>7
  <1> HIDE DEF row, rows, mine, r, held
  <1>9. /\ ledger' \in [Removals -> Seq(Rows(Payloads))]
        /\ \A q \in Removals : Len(ledger'[q]) = Len(ledger[q])
        /\ \A q \in Removals \ {r} : ledger'[q] = ledger[q]
        /\ \A v \in Versions(r) : ledger'[r][v] = rows[v]
    <2>1. \A v \in Versions(r) : rows[v] \in Rows(Payloads) BY <1>6, <1>8
    <2> QED BY <1>1, <1>2, <1>4, <1>8, <2>1, RowsByVersion
  <1>10. ASSUME NEW v \in Versions(r)
         PROVE  /\ SameButLock(ledger'[r][v], ledger[r][v])
                /\ \/ /\ mine(v) /\ ledger'[r][v].lockedAt = held[v].lockedAt
                      /\ ledger'[r][v].outcome = held[v].outcome
                   \/ ~mine(v) /\ ledger'[r][v] = ledger[r][v]
    <2>1. ledger'[r][v] = row(v) BY <1>8, <1>9
    <2> QED BY <1>6, <2>1
  <1>11. Relocked(r) BY <1>9, <1>10 DEF Relocked
  <1> QED BY <1>10, <1>11 DEF mine, r, held

LEMMA ReleaseSpares ==
    ASSUME Timely, DeletionInv, NEW d \in Deleters, ~DeletionAt(d, "idle"),
           lease[Target(d)] = deletion[d].stamp, Relocked(Target(d)),
           \A v \in Versions(Target(d)) :
                \/ /\ v \in DOMAIN deletion[d].held
                   /\ ledger[Target(d)][v].lockedAt = deletion[d].stamp
                   /\ ledger'[Target(d)][v].lockedAt =
                        deletion[d].held[v].lockedAt
                   /\ ledger'[Target(d)][v].outcome =
                        deletion[d].held[v].outcome
                \/ ledger'[Target(d)][v] = ledger[Target(d)][v]
    PROVE  /\ AttemptsSpared(Target(d))
           /\ \A v \in Versions(Target(d)) :
                ledger[Target(d)][v].status = "draft" =>
                    ledger'[Target(d)][v].lockedAt # NoLock
  <1> DEFINE r == Target(d)
             held == deletion[d].held
  <1>1. Journal /\ AttemptsHeld /\ HandsBack(d)
    BY DEF DeletionInv, LocksInv, JournalInv, DeletersHandBack
  <1>2. r \in Removals BY DeletionFacts DEF DeletionInv
  <1>3. \A v \in Versions(r) :
            /\ ledger'[r][v].status = ledger[r][v].status
            /\ ledger'[r][v].ext = ledger[r][v].ext
    BY DEF Relocked, SameButLock
  <1>4. ASSUME NEW v \in Versions(r), ledger[r][v].status = "draft",
               ledger[r][v].lockedAt = deletion[d].stamp,
               ledger'[r][v].lockedAt = held[v].lockedAt,
               ledger'[r][v].outcome = held[v].outcome
        PROVE  ledger'[r][v].lockedAt # NoLock /\ Resettable(ledger'[r][v], clock)
    <2>1. HandBack(ledger[r][v], held[v], clock) BY <1>1, <1>4 DEF HandsBack
    <2> QED BY <1>3, <1>4, <2>1 DEF HandBack, Resettable
  <1>5. ASSUME NEW v \in Versions(r), ledger[r][v].status = "draft"
        PROVE  ledger'[r][v].lockedAt # NoLock
    <2>1. ledger[r][v].lockedAt # NoLock
      BY <1>1, <1>2, <1>5 DEF Journal, RowsSound
    <2> QED BY <1>4, <1>5, <2>1
  <1>6. ASSUME NEW b \in Attempts, attempt[b].rem = r
        PROVE  /\ attempt[b].pc \in Owning =>
                    \/ ledger'[r][attempt[b].ver] = ledger[r][attempt[b].ver]
                    \/ ledger[r][attempt[b].ver].status = "superseded"
               /\ attempt[b].pc = "resetting" =>
                    Resettable(ledger'[r][attempt[b].ver], clock)
    <2> DEFINE v == attempt[b].ver
    <2>1. attempt[b].pc \in Owning \cup {"resetting"} => v \in Versions(r)
      BY <1>1, <1>6, NamedFacts DEF Journal
    <2>2. CASE attempt[b].pc \in Owning /\ ledger[r][v].status # "superseded"
      <3>1. ledger[r][v].lockedAt = attempt[b].stamp /\ attempt[b].stamp.by = b
        BY <1>1, <1>6, <2>2
           DEF AttemptsHeld, KeepsLock, RowHeld, Journal, AttemptsSound, Sound
      <3>2. deletion[d].stamp.by = d /\ d # b
        BY <1>1, Deleting DEF HandsBack
      <3>3. ledger[r][v].lockedAt # deletion[d].stamp BY <3>1, <3>2
      <3>4. ledger'[r][v] = ledger[r][v] BY <2>1, <2>2, <3>3
      <3>5. attempt[b].pc # "resetting" BY <2>2, StepNames
      <3> QED BY <3>4, <3>5
    <2>3. CASE attempt[b].pc = "resetting"
      <3>1. Resettable(ledger[r][v], clock)
        BY <1>1, <1>6, <2>3 DEF AttemptsHeld, KeepsLock
      <3>2. v \in Versions(r) BY <2>1, <2>3
      <3>3. Resettable(ledger'[r][v], clock)
        <4>1. CASE ledger[r][v].status = "draft"
                   /\ ledger'[r][v] # ledger[r][v]
          BY <1>4, <3>2, <4>1
        <4>2. CASE ledger'[r][v] = ledger[r][v] BY <3>1, <4>2
        <4>3. CASE ledger[r][v].status # "draft"
          BY <1>3, <3>1, <3>2, <4>3 DEF Resettable
        <4> QED BY <4>1, <4>2, <4>3
      <3>4. attempt[b].pc \notin Owning BY <2>3, StepNames
      <3> QED BY <3>3, <3>4
    <2>4. attempt[b].pc = "resetting" => attempt[b].pc \notin Owning
      BY StepNames
    <2> QED BY <2>2, <2>3, <2>4
  <1> QED BY <1>5, <1>6 DEF AttemptsSpared

\* Deletions that the step does not touch still hand back what they hold.
LEMMA OthersHandBack ==
    ASSUME DeletionInv, NEW e \in Deleters, deletion'[e] = deletion[e],
           ~DeletionAt(e, "idle"), UNCHANGED clock,
           LET r == Target(e)
           IN  \/ lease'[r] # deletion[e].stamp
               \/ ledger'[r] = ledger[r] /\ lease'[r] = lease[r]
    PROVE  HandsBack(e)'
  BY DEF DeletionInv, DeletersHandBack, HandsBack, Target, Versions

LEMMA ReleaseKeepsInv ==
    ASSUME Timely, DeletionInv, NEW d \in Deleters, ReleaseDeletion(d)
    PROVE  DeletionInv'
  <1> DEFINE r == Target(d)
  <1>1. /\ ~DeletionAt(d, "idle")
        /\ deletion' = [deletion EXCEPT ![d] = NoDeletion]
        /\ UNCHANGED <<clock, content, claimed, reserved, locker, attempt,
                       registry, wire, present>>
    BY DEF ReleaseDeletion, DeletionAt
  <1>2. /\ deletion \in [Deleters -> Deletion] /\ lease \in [Removals -> Locks]
        /\ present \in [Removals -> BOOLEAN] /\ r \in Removals
    BY DeletionFacts DEF DeletionInv, DeletionTypes
  <1>3. NoDeletion \in Deletion /\ NoDeletion.pc = "idle" /\ NoLock \in Locks
    BY RemovalsAssumption
       DEF NoDeletion, Deletion, DeletionSteps, SomeRemoval, NoLock, Locks
  <1>4. deletion'[d].pc = "idle"
        /\ \A e \in Deleters \ {d} : deletion'[e] = deletion[e]
    BY <1>1, <1>2, <1>3
  <1>5. CASE UNCHANGED <<lease, ledger>>
    <2>1. UNCHANGED vars BY <1>1, <1>5 DEF vars
    <2>2. LocksInv' BY <2>1, NextKeepsLocks DEF DeletionInv
    <2>3. DeletionTypes' BY <1>1, <1>2, <1>3, <1>5 DEF DeletionTypes
    <2>4. ASSUME NEW e \in Deleters, ~DeletionAt(e, "idle")'
          PROVE  HandsBack(e)'
      <3>1. deletion'[e] = deletion[e] /\ ~DeletionAt(e, "idle")
        BY <1>4, <2>4 DEF DeletionAt
      <3> QED BY <1>1, <1>5, <3>1, OthersHandBack
    <2>5. DeletersHandBack' BY <2>4 DEF DeletersHandBack
    <2>6. /\ OwnersPresent' /\ ClaimsFinalized'
          /\ DeletedInactive' /\ DeletedHoldsNothing'
      BY <1>1, <1>5
         DEF DeletionInv, OwnersPresent, ClaimsFinalized, DeletedInactive,
             DeletedHoldsNothing, EverFinalized, Versions
    <2> QED BY <2>2, <2>3, <2>5, <2>6 DEF DeletionInv
  <1>6. CASE ~UNCHANGED <<lease, ledger>>
    <2>1. /\ lease[r] = deletion[d].stamp
          /\ lease' = [lease EXCEPT ![r] = NoLock]
          /\ LET held == deletion[d].held
             IN  ledger' = [ledger EXCEPT ![r] = [v \in DOMAIN @ |->
                    IF v \in DOMAIN held /\ @[v].lockedAt = deletion[d].stamp
                      THEN [@[v] EXCEPT !.lockedAt = held[v].lockedAt,
                               !.outcome = held[v].outcome]
                      ELSE @[v]]]
      BY <1>6 DEF ReleaseDeletion
    <2>2. /\ Relocked(r)
          /\ \A v \in Versions(r) :
                \/ /\ v \in DOMAIN deletion[d].held
                   /\ ledger[r][v].lockedAt = deletion[d].stamp
                   /\ ledger'[r][v].lockedAt = deletion[d].held[v].lockedAt
                   /\ ledger'[r][v].outcome = deletion[d].held[v].outcome
                \/ ledger'[r][v] = ledger[r][v]
      BY <2>1, ReleaseRows
    <2>3. /\ AttemptsSpared(r)
          /\ \A v \in Versions(r) : ledger[r][v].status = "draft" =>
                ledger'[r][v].lockedAt # NoLock
      BY <1>1, <2>1, <2>2, ReleaseSpares
    <2>4. LocksInv'
      BY <1>1, <1>2, <2>2, <2>3, RelockKeepsLocks DEF DeletionInv
    <2>5. DeletionTypes' BY <1>1, <1>2, <1>3, <2>1 DEF DeletionTypes
    <2>6. ASSUME NEW e \in Deleters, ~DeletionAt(e, "idle")'
          PROVE  HandsBack(e)'
      <3>1. deletion'[e] = deletion[e] /\ ~DeletionAt(e, "idle")
        BY <1>4, <2>6 DEF DeletionAt
      <3>2. /\ Target(e) \in Removals /\ HandsBack(e)
            /\ e # Nobody
        BY <3>1, DeletionFacts, Deleting DEF DeletionInv, DeletersHandBack
      <3>3. deletion[e].stamp # NoLock
        BY <3>2 DEF HandsBack, NoLock
      <3>4. \/ lease'[Target(e)] # deletion[e].stamp
            \/ /\ ledger'[Target(e)] = ledger[Target(e)]
               /\ lease'[Target(e)] = lease[Target(e)]
        BY <1>2, <2>1, <2>2, <3>2, <3>3 DEF Relocked
      <3> QED BY <1>1, <3>1, <3>4, OthersHandBack
    <2>7. DeletersHandBack' BY <2>6 DEF DeletersHandBack
    <2> QED BY <1>1, <1>2, <2>2, <2>4, <2>5, <2>7, RelockKeepsRest
         DEF DeletionInv
  <1> QED BY <1>5, <1>6

-----------------------------------------------------------------------------
(* Cleaning up at the registry.                                            *)

\* Behind the fence nobody sends, gates or finishes for the Removal.
LEMMA FenceClears ==
    ASSUME Timely, DeletionInv, NEW d \in Deleters, ~DeletionAt(d, "idle"),
           Fence(d)
    PROVE  \A b \in Attempts : attempt[b].pc \in Owning =>
               attempt[b].rem # Target(d)
  <1>1. Journal /\ AttemptsHeld /\ HandsBack(d)
    BY DEF DeletionInv, LocksInv, JournalInv, DeletersHandBack
  <1> SUFFICES ASSUME NEW b \in Attempts, attempt[b].pc \in Owning,
                      attempt[b].rem = Target(d)
               PROVE  FALSE
    OBVIOUS
  <1> DEFINE row == ledger[Target(d)][attempt[b].ver]
  <1>2. attempt[b].ver \in Versions(Target(d))
    BY <1>1, NamedFacts DEF Journal
  <1>3. row.status \notin FinalizedStatuses /\ row.lockedAt = deletion[d].stamp
    BY <1>2 DEF Fence
  <1>4. row.lockedAt = attempt[b].stamp
    BY <1>1, <1>3 DEF AttemptsHeld, KeepsLock, RowHeld, FinalizedStatuses
  <1>5. attempt[b].stamp.by = b BY <1>1 DEF Journal, AttemptsSound, Sound
  <1>6. deletion[d].stamp.by = d /\ d # b BY <1>1, Deleting DEF HandsBack
  <1> QED BY <1>3, <1>4, <1>5, <1>6

\* The deletion moves on with the rows it claimed.
Proceeds(d) ==
    \E q \in Deletion :
        /\ deletion' = [deletion EXCEPT ![d] = q]
        /\ q.rem = deletion[d].rem /\ q.stamp = deletion[d].stamp
        /\ q.held = deletion[d].held

LEMMA ProceedsByPc ==
    ASSUME DeletionTypes, NEW d \in Deleters, NEW pc \in DeletionSteps,
           DeletionGoto(d, pc)
    PROVE  Proceeds(d)
  <1> DEFINE q == [deletion[d] EXCEPT !.pc = pc]
  <1>1. deletion[d] \in Deletion /\ deletion \in [Deleters -> Deletion]
    BY DEF DeletionTypes
  <1>2. deletion' = [deletion EXCEPT ![d] = q] BY <1>1 DEF DeletionGoto
  <1>3. q \in Deletion BY ZenonT(60), <1>1 DEF Deletion
  <1>4. q.rem = deletion[d].rem /\ q.stamp = deletion[d].stamp
        /\ q.held = deletion[d].held
    BY <1>1 DEF Deletion
  <1> HIDE DEF q
  <1> QED BY <1>2, <1>3, <1>4 DEF Proceeds

LEMMA ProceedsByTargets ==
    ASSUME DeletionTypes, NEW d \in Deleters,
           NEW unconfirmed \in SUBSET (1 .. MaxVersion),
           NEW targets \in SUBSET Targets,
           deletion' = [deletion EXCEPT ![d] =
               [deletion[d] EXCEPT !.unconfirmed = unconfirmed,
                  !.targets = targets]]
    PROVE  Proceeds(d)
  <1> DEFINE q == [deletion[d] EXCEPT !.unconfirmed = unconfirmed,
                     !.targets = targets]
  <1>1. deletion[d] \in Deletion /\ deletion \in [Deleters -> Deletion]
    BY DEF DeletionTypes
  <1>2. q \in Deletion BY ZenonT(60), <1>1 DEF Deletion
  <1>3. q.rem = deletion[d].rem /\ q.stamp = deletion[d].stamp
        /\ q.held = deletion[d].held
    BY <1>1 DEF Deletion
  <1> HIDE DEF q
  <1>4. deletion' = [deletion EXCEPT ![d] = q] BY DEF q
  <1> QED BY <1>2, <1>3, <1>4 DEF Proceeds

LEMMA ProceedingKeepsInv ==
    ASSUME DeletionInv, NEW d \in Deleters, ~DeletionAt(d, "idle"),
           Proceeds(d), LocksInv',
           UNCHANGED <<ledger, clock, claimed, reserved, attempt, present, lease>>
    PROVE  DeletionInv'
  <1>1. PICK q \in Deletion :
            /\ deletion' = [deletion EXCEPT ![d] = q]
            /\ q.rem = deletion[d].rem /\ q.stamp = deletion[d].stamp
            /\ q.held = deletion[d].held
    BY DEF Proceeds
  <1>2. deletion \in [Deleters -> Deletion] BY DEF DeletionInv, DeletionTypes
  <1>3. DeletionTypes' BY <1>1, <1>2 DEF DeletionInv, DeletionTypes
  <1>4. ASSUME NEW e \in Deleters, ~DeletionAt(e, "idle")'
        PROVE  HandsBack(e)'
    <2>1. /\ deletion'[e].rem = deletion[e].rem
          /\ deletion'[e].stamp = deletion[e].stamp
          /\ deletion'[e].held = deletion[e].held
          /\ ~DeletionAt(e, "idle")
      BY <1>1, <1>2, <1>4 DEF DeletionAt
    <2>2. HandsBack(e) BY <2>1 DEF DeletionInv, DeletersHandBack
    <2> QED BY <2>1, <2>2 DEF HandsBack, Target, Versions
  <1>5. DeletersHandBack' BY <1>4 DEF DeletersHandBack
  <1>6. /\ OwnersPresent' /\ ClaimsFinalized'
        /\ DeletedInactive' /\ DeletedHoldsNothing'
    BY DEF DeletionInv, OwnersPresent, ClaimsFinalized, DeletedInactive,
           DeletedHoldsNothing, EverFinalized, Versions
  <1> QED BY <1>3, <1>5, <1>6 DEF DeletionInv

\* What a fenced registry call does: it deletes records of its Removal or
\* none, and the deletion moves on or gives up.
LEMMA RegistryDeleteMove ==
    ASSUME DeletionTypes, NEW d \in Deleters, NEW refs, NEW ids, NEW next,
           RegistryDelete(d, refs, ids, next),
           deletion' = [deletion EXCEPT ![d] = next] => Proceeds(d)
    PROVE  Proceeds(d) /\ (DeleteRecords(refs, ids) \/ UNCHANGED registry)
  BY ProceedsByPc DEF RegistryDelete, AbandonCleanup, DeletionSteps

LEMMA DeleteEntryMove ==
    ASSUME DeletionTypes, NEW d \in Deleters, DeleteEntry(d)
    PROVE  /\ ~DeletionAt(d, "idle") /\ Proceeds(d)
           /\ UNCHANGED <<ledgerVars, attempt, wire, present, lease>>
           /\ \/ UNCHANGED registry
              \/ /\ Fence(d)
                 /\ \E refs, ids : /\ DeleteRecords(refs, ids)
                                   /\ \A ref \in refs : ref.rem = Target(d)
  <1>1. ~DeletionAt(d, "idle") BY DEF DeleteEntry, DeletionAt
  <1>2. UNCHANGED <<ledgerVars, attempt, wire, present, lease>>
    BY DEF DeleteEntry
  <1>3. CASE DeletionGoto(d, "rest") /\ UNCHANGED registry
    BY <1>1, <1>2, <1>3, ProceedsByPc DEF DeletionSteps
  <1>4. CASE AbandonCleanup(d) /\ UNCHANGED registry
    BY <1>1, <1>2, <1>4, ProceedsByPc DEF AbandonCleanup, DeletionSteps
  <1>5. ASSUME NEW t \in deletion[d].targets, Fence(d),
               RegistryDelete(d, {EntryRef(Target(d), t.ver)}, {t.id},
                   [deletion[d] EXCEPT !.targets = @ \ {t}])
        PROVE  /\ Proceeds(d)
               /\ \/ UNCHANGED registry
                  \/ \E refs, ids :
                        /\ DeleteRecords(refs, ids)
                        /\ \A ref \in refs : ref.rem = Target(d)
    <2> DEFINE left == deletion[d].targets \ {t}
               next == [deletion[d] EXCEPT !.targets = left]
               refs == {EntryRef(Target(d), t.ver)}
    <2>1. deletion[d] \in Deletion BY DeletionFacts
    <2>2. /\ left \in SUBSET Targets
          /\ deletion[d].unconfirmed \in SUBSET (1 .. MaxVersion)
      BY <2>1 DEF Deletion
    <2>3. next = [deletion[d] EXCEPT !.unconfirmed = deletion[d].unconfirmed,
                    !.targets = left]
      BY <2>1 DEF Deletion
    <2>4. RegistryDelete(d, refs, {t.id}, next) BY <1>5
    <2> HIDE DEF left
    <2>5. deletion' = [deletion EXCEPT ![d] = next] => Proceeds(d)
      BY <2>2, <2>3, ProceedsByTargets
    <2> HIDE DEF next
    <2>6. Proceeds(d) /\ (DeleteRecords(refs, {t.id}) \/ UNCHANGED registry)
      BY <2>4, <2>5, RegistryDeleteMove
    <2>7. \A ref \in refs : ref.rem = Target(d) BY DEF EntryRef
    <2> HIDE DEF refs
    <2> QED BY <2>6, <2>7
  <1> QED BY <1>1, <1>2, <1>3, <1>4, <1>5 DEF DeleteEntry

LEMMA DeleteRestMove ==
    ASSUME DeletionTypes, NEW d \in Deleters, DeleteRest(d)
    PROVE  /\ ~DeletionAt(d, "idle") /\ Proceeds(d)
           /\ UNCHANGED <<ledgerVars, attempt, wire, present, lease>>
           /\ \/ UNCHANGED registry
              \/ /\ Fence(d)
                 /\ \E refs, ids : /\ DeleteRecords(refs, ids)
                                   /\ \A ref \in refs : ref.rem = Target(d)
  <1>1. ~DeletionAt(d, "idle") BY DEF DeleteRest, DeletionAt
  <1>2. UNCHANGED <<ledgerVars, attempt, wire, present, lease>>
    BY DEF DeleteRest
  <1>3. CASE AbandonCleanup(d) /\ UNCHANGED registry
    BY <1>1, <1>2, <1>3, ProceedsByPc DEF AbandonCleanup, DeletionSteps
  <1>4. ASSUME NEW refs \in {{}, InputsOf(Target(d))}, Fence(d),
               RegistryDelete(d, refs, Nat, [deletion[d] EXCEPT !.pc = "finalize"])
        PROVE  /\ Proceeds(d)
               /\ \/ UNCHANGED registry
                  \/ /\ DeleteRecords(refs, Nat)
                     /\ \A ref \in refs : ref.rem = Target(d)
    <2> DEFINE next == [deletion[d] EXCEPT !.pc = "finalize"]
    <2>1. deletion \in [Deleters -> Deletion] BY DEF DeletionTypes
    <2>2. deletion' = [deletion EXCEPT ![d] = next] => DeletionGoto(d, "finalize")
      BY <2>1 DEF DeletionGoto
    <2>3. RegistryDelete(d, refs, Nat, next) BY <1>4
    <2> HIDE DEF next
    <2>4. deletion' = [deletion EXCEPT ![d] = next] => Proceeds(d)
      BY <2>2, ProceedsByPc DEF DeletionSteps
    <2>5. Proceeds(d) /\ (DeleteRecords(refs, Nat) \/ UNCHANGED registry)
      BY <2>3, <2>4, RegistryDeleteMove
    <2>6. \A ref \in refs : ref.rem = Target(d) BY DEF InputsOf
    <2> QED BY <2>5, <2>6
  <1> QED BY <1>1, <1>2, <1>3, <1>4 DEF DeleteRest

LEMMA RegistryCleanupKeepsInv ==
    ASSUME DeletionInv, NEW d \in Deleters, DeleteEntry(d) \/ DeleteRest(d)
    PROVE  DeletionInv'
  <1>1. /\ ~DeletionAt(d, "idle") /\ Proceeds(d)
        /\ UNCHANGED <<ledgerVars, attempt, wire, present, lease>>
        /\ UNCHANGED registry \/ \E refs, ids : DeleteRecords(refs, ids)
    BY DeleteEntryMove, DeleteRestMove DEF DeletionInv
  <1>2. Typed BY DEF DeletionInv, LocksInv, JournalInv, Journal
  <1>3. RegistryGrows /\ registry' \in [References -> Seq(BOOLEAN)]
    BY <1>1, <1>2, DeletingRecords, SameRegistryGrows
  <1>4. LocksInv' BY <1>1, <1>3, RecordsKeepLocks DEF DeletionInv
  <1>5. UNCHANGED <<ledger, clock, claimed, reserved, attempt, present, lease>>
    BY <1>1 DEF ledgerVars
  <1> QED BY <1>1, <1>4, <1>5, ProceedingKeepsInv

LEMMA LookupEntryKeepsInv ==
    ASSUME DeletionInv, NEW d \in Deleters, LookupEntry(d)
    PROVE  DeletionInv'
  <1>1. ~DeletionAt(d, "idle") /\ UNCHANGED <<vars, present, lease>>
    BY DEF LookupEntry, DeletionAt
  <1>2. /\ deletion[d] \in Deletion /\ DeletionTypes /\ Target(d) \in Removals
        /\ deletion \in [Deleters -> Deletion]
    BY DeletionFacts DEF DeletionInv, DeletionTypes
  <1>3. Typed BY DEF DeletionInv, LocksInv, JournalInv, Journal
  <1>4. ASSUME NEW v \in deletion[d].unconfirmed,
               NEW targets,
               \A t \in targets : \E id \in Matches(EntryRef(Target(d), v)) :
                   t = [ver |-> v, id |-> id],
               deletion' = [deletion EXCEPT
                   ![d].unconfirmed = @ \ {v}, ![d].targets = @ \cup targets]
        PROVE  Proceeds(d)
    <2> DEFINE less == deletion[d].unconfirmed \ {v}
               more == deletion[d].targets \cup targets
    <2>1. v \in 1 .. MaxVersion BY <1>2 DEF Deletion
    <2>2. EntryRef(Target(d), v) \in References
      BY <1>2, <2>1 DEF EntryRef, References, Kinds
    <2>3. \A id \in Matches(EntryRef(Target(d), v)) : id \in Nat
      <3>1. Len(registry[EntryRef(Target(d), v)]) \in Nat
        BY <1>3, <2>2, StateFacts, LenProperties
      <3> QED BY <1>3, <2>2, <3>1, RecordIds
    <2>4. targets \in SUBSET Targets BY <1>4, <2>1, <2>3 DEF Targets
    <2>5. less \in SUBSET (1 .. MaxVersion) /\ more \in SUBSET Targets
      BY <1>2, <2>4 DEF Deletion
    <2>6. deletion' = [deletion EXCEPT ![d] =
              [deletion[d] EXCEPT !.unconfirmed = less, !.targets = more]]
      BY <1>2, <1>4
    <2> HIDE DEF less, more
    <2> QED BY <1>2, <2>5, <2>6, ProceedsByTargets
  <1>5. ASSUME NEW v \in deletion[d].unconfirmed,
               LET ref == EntryRef(Target(d), v)
                   found == {[ver |-> v, id |-> id] : id \in Matches(ref)}
               IN  \E targets \in IF found = {} THEN {{}} ELSE {{t} : t \in found} :
                       deletion' = [deletion EXCEPT
                           ![d].unconfirmed = @ \ {v},
                           ![d].targets = @ \cup targets]
        PROVE  Proceeds(d)
    <2> DEFINE found == {[ver |-> v, id |-> id] :
                            id \in Matches(EntryRef(Target(d), v))}
    <2>1. PICK targets \in IF found = {} THEN {{}} ELSE {{t} : t \in found} :
              deletion' = [deletion EXCEPT
                  ![d].unconfirmed = @ \ {v}, ![d].targets = @ \cup targets]
      BY <1>5
    <2>2. targets \subseteq found BY <2>1
    <2>3. \A t \in targets : \E id \in Matches(EntryRef(Target(d), v)) :
              t = [ver |-> v, id |-> id]
      BY <2>2
    <2> QED BY <1>4, <2>1, <2>3
  <1>6. Proceeds(d)
    BY <1>2, <1>5, ProceedsByPc
       DEF LookupEntry, AbandonCleanup, DeletionSteps
  <1>7. LocksInv' BY <1>1, NextKeepsLocks DEF DeletionInv
  <1>8. UNCHANGED <<ledger, clock, claimed, reserved, attempt, present, lease>>
    BY <1>1 DEF vars
  <1> QED BY <1>1, <1>6, <1>7, <1>8, ProceedingKeepsInv

-----------------------------------------------------------------------------
(* Removing the Removal.                                                   *)

\* The rows of r stay as history, and nothing else of it does.
Removed(d, r) ==
    /\ ~DeletionAt(d, "idle") /\ Fence(d) /\ r = Target(d) /\ locker[r] = None
    /\ ledger' \in [Removals -> Seq(Rows(Payloads))]
    /\ \A q \in Removals : Len(ledger'[q]) = Len(ledger[q])
    /\ \A q \in Removals \ {r} : ledger'[q] = ledger[q]
    /\ \A v \in Versions(r) :
        /\ ledger'[r][v].status = "rejected"
        /\ ledger'[r][v].hash = ledger[r][v].hash
        /\ ledger'[r][v].ext = ledger[r][v].ext
        /\ ledger'[r][v].refresh = ledger[r][v].refresh
        /\ ledger'[r][v].prev = ledger[r][v].prev
    /\ FreeProduction(r)
    /\ present' = [present EXCEPT ![r] = FALSE]
    /\ lease' = [lease EXCEPT ![r] = NoLock]
    /\ deletion' = [deletion EXCEPT ![d] = NoDeletion]
    /\ UNCHANGED <<clock, content, locker, attempt, registry, wire>>

LEMMA FinalizeDeletionMove ==
    ASSUME Typed, DeletionTypes, NEW d \in Deleters, FinalizeDeletion(d)
    PROVE  \/ Removed(d, Target(d))
           \/ /\ ~DeletionAt(d, "idle") /\ Proceeds(d)
              /\ UNCHANGED <<vars, present, lease>>
  <1> DEFINE r == Target(d)
             row(v) == [ledger[r][v] EXCEPT !.status = "rejected",
                          !.lockedAt = NoLock, !.outcome = "none",
                          !.mutation = "unset"]
             rows == [v \in DOMAIN ledger[r] |-> row(v)]
  <1>1. /\ ~DeletionAt(d, "idle") /\ locker[r] = None
        /\ UNCHANGED <<clock, content, locker, attempt, registry, wire>>
    BY DEF FinalizeDeletion, DeletionAt
  <1>2. CASE /\ AbandonCleanup(d)
             /\ UNCHANGED <<ledger, reserved, claimed, present, lease>>
    <2>1. Proceeds(d) BY <1>2, ProceedsByPc DEF AbandonCleanup, DeletionSteps
    <2> QED BY <1>1, <1>2, <2>1 DEF vars
  <1>3. CASE /\ Fence(d)
             /\ ledger' = [ledger EXCEPT ![r] = [v \in DOMAIN @ |->
                    [@[v] EXCEPT !.status = "rejected", !.lockedAt = NoLock,
                        !.outcome = "none", !.mutation = "unset"]]]
             /\ FreeProduction(r)
             /\ present' = [present EXCEPT ![r] = FALSE]
             /\ lease' = [lease EXCEPT ![r] = NoLock]
             /\ deletion' = [deletion EXCEPT ![d] = NoDeletion]
    <2>1. r \in Removals /\ ledger \in [Removals -> Seq(Rows(Payloads))]
      BY DeletionFacts, StateFacts
    <2>2. ledger' = [ledger EXCEPT ![r] = rows] BY <1>3, <2>1
    <2>3. ASSUME NEW v \in Versions(r)
          PROVE  /\ row(v) \in Rows(Payloads)
                 /\ row(v).status = "rejected"
                 /\ row(v).hash = ledger[r][v].hash
                 /\ row(v).ext = ledger[r][v].ext
                 /\ row(v).refresh = ledger[r][v].refresh
                 /\ row(v).prev = ledger[r][v].prev
      <3>1. ledger[r][v] \in Rows(Payloads) BY <2>1, RowFacts
      <3>2. /\ NoLock \in Locks /\ "rejected" \in Statuses
            /\ "none" \in Outcomes /\ "unset" \in Mutations
        BY DEF NoLock, Locks, Statuses, Outcomes, Mutations
      <3>3. row(v) \in Rows(Payloads) BY ZenonT(60), <3>1, <3>2 DEF Rows
      <3> QED BY <3>1, <3>3 DEF Rows
    <2>4. DOMAIN ledger[r] = Versions(r) BY <2>1, LenProperties DEF Versions
    <2>5. /\ \A v \in Versions(r) : rows[v] = row(v)
          /\ rows = [v \in DOMAIN ledger[r] |-> rows[v]]
      BY <2>4
    <2> HIDE DEF row, rows
    <2>6. /\ ledger' \in [Removals -> Seq(Rows(Payloads))]
          /\ \A q \in Removals : Len(ledger'[q]) = Len(ledger[q])
          /\ \A q \in Removals \ {r} : ledger'[q] = ledger[q]
          /\ \A v \in Versions(r) : ledger'[r][v] = rows[v]
      <3>1. \A v \in Versions(r) : rows[v] \in Rows(Payloads) BY <2>3, <2>5
      <3> QED BY <2>1, <2>2, <2>5, <3>1, RowsByVersion
    <2>7. ASSUME NEW v \in Versions(r)
          PROVE  /\ ledger'[r][v].status = "rejected"
                 /\ ledger'[r][v].hash = ledger[r][v].hash
                 /\ ledger'[r][v].ext = ledger[r][v].ext
                 /\ ledger'[r][v].refresh = ledger[r][v].refresh
                 /\ ledger'[r][v].prev = ledger[r][v].prev
      <3>1. ledger'[r][v] = row(v) BY <2>5, <2>6
      <3> QED BY <2>3, <3>1
    <2> QED BY <1>1, <1>3, <2>6, <2>7 DEF Removed
  <1> QED BY <1>2, <1>3 DEF FinalizeDeletion

LEMMA RemovedFacts ==
    ASSUME Timely, DeletionInv, NEW d \in Deleters, NEW r \in Removals,
           Removed(d, r)
    PROVE  /\ \A v \in Versions(r) : ledger[r][v].status \notin FinalizedStatuses
           /\ present[r] /\ UNCHANGED claimed
           /\ \A b \in Batches : claimed[b] # r /\ reserved'[b].rem # r
           /\ \A b \in Batches : reserved'[b] \in {reserved[b], NoSubmission}
           /\ \A b \in Attempts : attempt[b].rem = r =>
                attempt[b].pc \notin Owning \cup {"resetting"}
  <1>1. /\ \A v \in Versions(r) : ledger[r][v].status \notin FinalizedStatuses
        /\ present[r]
    BY DEF Removed, Fence
  <1>2. \A b \in Batches : claimed[b] # r
    BY <1>1 DEF DeletionInv, ClaimsFinalized, EverFinalized
  <1>3. /\ claimed' = [b \in Batches |-> IF claimed[b] = r THEN None ELSE claimed[b]]
        /\ reserved' = [b \in Batches |->
               IF reserved[b].rem = r THEN NoSubmission ELSE reserved[b]]
    BY DEF Removed, FreeProduction
  <1>4. Inv /\ Journal BY DEF DeletionInv, LocksInv, JournalInv
  <1>5. claimed = [b \in Batches |-> claimed[b]]
    BY <1>4 DEF Inv, TypeOK, LedgerTypeOK
  <1>6. UNCHANGED claimed BY <1>2, <1>3, <1>5
  <1>7. \A b \in Batches : reserved'[b].rem # r
                           /\ reserved'[b] \in {reserved[b], NoSubmission}
    BY <1>3, NoneAssumption DEF NoSubmission
  <1>8. ASSUME NEW b \in Attempts, attempt[b].rem = r
        PROVE  attempt[b].pc \notin Owning \cup {"resetting"}
    <2>1. attempt[b].pc \notin Owning BY <1>8, FenceClears DEF Removed
    <2>2. b # None BY AttemptsAssumption, NoneAssumption
    <2>3. attempt[b].pc # "resetting"
      BY <1>4, <1>8, <2>2 DEF Removed, Journal, AttemptsSound, Sound
    <2> QED BY <2>1, <2>3
  <1> QED BY <1>1, <1>2, <1>6, <1>7, <1>8

LEMMA RemovedKeepsLocks ==
    ASSUME Timely, DeletionInv, NEW d \in Deleters, NEW r \in Removals,
           Removed(d, r)
    PROVE  LocksInv'
  <1>1. Inv /\ Journal /\ AttemptsHeld
    BY DEF DeletionInv, LocksInv, JournalInv
  <1>2. /\ ledger' \in [Removals -> Seq(Rows(Payloads))]
        /\ \A q \in Removals : Len(ledger'[q]) = Len(ledger[q])
        /\ \A q \in Removals \ {r} : ledger'[q] = ledger[q]
        /\ UNCHANGED <<clock, content, locker, attempt, registry, wire>>
    BY DEF Removed
  <1>3. \A v \in Versions(r) :
            /\ ledger'[r][v].status = "rejected"
            /\ ledger'[r][v].hash = ledger[r][v].hash
            /\ ledger'[r][v].ext = ledger[r][v].ext
            /\ ledger'[r][v].refresh = ledger[r][v].refresh
            /\ ledger'[r][v].prev = ledger[r][v].prev
    BY DEF Removed
  <1>4. \A q \in Removals : Len(ledger[q]) \in Nat BY <1>1, StateFacts DEF Journal
  <1>5. HashesKept /\ NoNewSubmitted /\ ClaimsKept
    <2>1. UNCHANGED claimed BY RemovedFacts
    <2> QED BY <1>2, <1>3, <2>1 DEF HashesKept, NoNewSubmitted, ClaimsKept, Versions
  <1>6. LedgerTypeOK'
    <2>1. UNCHANGED claimed
          /\ \A b \in Batches : reserved'[b] \in {reserved[b], NoSubmission}
      BY RemovedFacts
    <2>2. reserved' = [b \in Batches |-> reserved'[b]]
      BY DEF Removed, FreeProduction
    <2>3. \A b \in Batches : reserved'[b] \in Submissions \cup {NoSubmission}
      BY <1>1, <2>1 DEF Inv, TypeOK, LedgerTypeOK
    <2>4. reserved' \in [Batches -> Submissions \cup {NoSubmission}]
      BY <2>2, <2>3
    <2> QED BY <1>1, <1>2, <2>1, <2>4 DEF Inv, TypeOK, LedgerTypeOK
  <1>7. Inv'
    <2>1. Bounded' BY <1>1, <1>2 DEF Inv, Bounded
    <2>2. attempt' \in [Attempts -> Attempt] BY <1>1, <1>2 DEF Inv, TypeOK
    <2>3. \A b \in Attempts : Fits(attempt[b], ledger', claimed')
      BY <1>1, <1>5, OthersFit
    <2>4. AttemptsFit' BY <1>2, <2>3 DEF AttemptsFit
    <2> QED BY <1>1, <1>2, <1>5, <1>6, <2>1, <2>2, <2>4, FullStep
  <1>8. Typed'
    <2>1. Inv' => Typed' BY InvTyped, PTL
    <2> QED BY <1>7, <2>1
  <1>9. RowsSound'
    <2> SUFFICES ASSUME NEW q \in Removals, NEW v \in Versions(q)
                 PROVE
        /\ ledger'[q][v].status # "accepted" /\ ~ledger'[q][v].refresh
        /\ ledger'[q][v].prev \in {0, v - 1}
        /\ ledger'[q][v].status = "draft" =>
             v = Len(ledger'[q]) /\ ledger'[q][v].lockedAt # NoLock
        /\ ledger'[q][v].ext <= Len(registry[EntryOn(q, v)])
        /\ v > 1 /\ ledger'[q][v].status = "submitted" =>
             ledger'[q][v - 1].status \in {"rejected", "superseded"}
      <3>1. \A q \in Removals : Versions(q)' = Versions(q)
        BY <1>2 DEF Versions
      <3>2. \A q \in Removals : \A v \in Versions(q) :
                EntryOn(q, v)' = EntryOn(q, v)
        BY DEF EntryOn
      <3>3. UNCHANGED registry BY <1>2
      <3> QED BY <3>1, <3>2, <3>3 DEF RowsSound
    <2>1. RowsSound BY <1>1 DEF Journal
    <2>2. CASE q # r BY <1>2, <2>1, <2>2 DEF RowsSound
    <2>3. CASE q = r BY <1>3, <2>1, <2>3 DEF RowsSound
    <2> QED BY <2>2, <2>3
  <1>10. ASSUME NEW b \in Attempts
         PROVE  /\ Sound(b, attempt[b], ledger', registry, locker)
                /\ KeepsLock(attempt[b], ledger', clock)
    <2>1. /\ Sound(b, attempt[b], ledger, registry, locker)
          /\ KeepsLock(attempt[b], ledger, clock)
      BY <1>1 DEF Journal, AttemptsSound, AttemptsHeld
    <2>2. attempt[b].rem \in Removals BY <1>1, TypedFacts DEF Journal
    <2>3. CASE attempt[b].rem = r
      <3>1. attempt[b].pc \notin Owning \cup {"resetting"}
        BY <2>3, RemovedFacts
      <3> QED BY <2>1, <3>1 DEF Sound, KeepsLock
    <2>4. CASE attempt[b].rem # r
      <3>1. ledger'[attempt[b].rem] = ledger[attempt[b].rem]
        BY <1>2, <2>2, <2>4
      <3> QED BY <2>1, <3>1 DEF Sound, KeepsLock, Holds, Replaces
    <2> QED BY <2>3, <2>4
  <1>11. AttemptsSound' /\ AttemptsHeld'
    BY <1>2, <1>10 DEF AttemptsSound, AttemptsHeld
  <1> QED BY <1>7, <1>8, <1>9, <1>11 DEF LocksInv, JournalInv, Journal

LEMMA FinalizeDeletionKeepsInv ==
    ASSUME Timely, DeletionInv, NEW d \in Deleters, FinalizeDeletion(d)
    PROVE  DeletionInv'
  <1> DEFINE r == Target(d)
  <1>1. Typed /\ DeletionTypes /\ r \in Removals
    BY DeletionFacts DEF DeletionInv, LocksInv, JournalInv, Journal
  <1>2. CASE /\ ~DeletionAt(d, "idle") /\ Proceeds(d)
             /\ UNCHANGED <<vars, present, lease>>
    <2>1. LocksInv' BY <1>2, NextKeepsLocks DEF DeletionInv
    <2>2. UNCHANGED <<ledger, clock, claimed, reserved, attempt, present, lease>>
      BY <1>2 DEF vars
    <2> QED BY <1>2, <2>1, <2>2, ProceedingKeepsInv
  <1>3. CASE Removed(d, r)
    <2> HIDE DEF r
    <2>1. /\ UNCHANGED <<clock, attempt>>
          /\ \A q \in Removals : Len(ledger'[q]) = Len(ledger[q])
          /\ \A q \in Removals \ {r} : ledger'[q] = ledger[q]
          /\ \A v \in Versions(r) : ledger'[r][v].status = "rejected"
          /\ present' = [present EXCEPT ![r] = FALSE]
          /\ lease' = [lease EXCEPT ![r] = NoLock]
          /\ deletion' = [deletion EXCEPT ![d] = NoDeletion]
      BY <1>3 DEF Removed
    <2>2. /\ UNCHANGED claimed
          /\ \A b \in Batches : claimed[b] # r /\ reserved'[b].rem # r
          /\ \A b \in Batches : reserved'[b] \in {reserved[b], NoSubmission}
          /\ \A b \in Attempts : attempt[b].rem = r =>
               attempt[b].pc \notin Owning \cup {"resetting"}
      BY <1>1, <1>3, RemovedFacts
    <2>3. LocksInv' BY <1>1, <1>3, RemovedKeepsLocks
    <2>4. /\ present \in [Removals -> BOOLEAN] /\ lease \in [Removals -> Locks]
          /\ deletion \in [Deleters -> Deletion]
      BY <1>1 DEF DeletionTypes
    <2>5. NoDeletion \in Deletion /\ NoDeletion.pc = "idle" /\ NoLock \in Locks
      BY RemovalsAssumption
         DEF NoDeletion, Deletion, DeletionSteps, SomeRemoval, NoLock, Locks
    <2>6. DeletionTypes' BY <2>1, <2>4, <2>5 DEF DeletionTypes
    <2>7. \A s \in Removals : present'[s] <=> s # r /\ present[s]
      BY <2>1, <2>4
    <2>8. OwnersPresent'
      <3> SUFFICES ASSUME NEW b \in Attempts, attempt[b].pc \in PastScope
                   PROVE  present'[attempt[b].rem]
        BY <2>1 DEF OwnersPresent
      <3>1. attempt[b].rem \in Removals BY <1>1, TypedFacts
      <3>2. attempt[b].rem # r BY <2>2 DEF PastScope
      <3> QED BY <2>7, <3>1, <3>2 DEF DeletionInv, OwnersPresent
    <2>9. ASSUME NEW e \in Deleters, ~DeletionAt(e, "idle")'
          PROVE  HandsBack(e)'
      <3>1. deletion'[e] = deletion[e] /\ ~DeletionAt(e, "idle")
        BY <2>1, <2>4, <2>5, <2>9 DEF DeletionAt
      <3>2. Target(e) \in Removals /\ HandsBack(e) /\ e # Nobody
        BY <3>1, DeletionFacts, Deleting DEF DeletionInv, DeletersHandBack
      <3>3. deletion[e].stamp # NoLock BY <3>2 DEF HandsBack, NoLock
      <3>4. \/ lease'[Target(e)] # deletion[e].stamp
            \/ /\ ledger'[Target(e)] = ledger[Target(e)]
               /\ lease'[Target(e)] = lease[Target(e)]
        BY <2>1, <2>4, <3>2, <3>3
      <3> QED BY <2>1, <3>1, <3>4, OthersHandBack
    <2>10. DeletersHandBack' BY <2>9 DEF DeletersHandBack
    <2>11. ClaimsFinalized'
      <3> SUFFICES ASSUME NEW b \in Batches, NEW s \in Removals, claimed[b] = s
                   PROVE  EverFinalized(s)'
        BY <2>2 DEF ClaimsFinalized
      <3>1. EverFinalized(s) /\ s # r BY <2>2 DEF DeletionInv, ClaimsFinalized
      <3>2. ledger'[s] = ledger[s] BY <2>1, <3>1
      <3> QED BY <3>1, <3>2 DEF EverFinalized, Versions
    <2>12. DeletedInactive'
      <3> SUFFICES ASSUME NEW s \in Removals, ~present'[s], NEW v \in Versions(s)
                   PROVE  ledger'[s][v].status \notin ActiveStatuses
        BY <2>1 DEF DeletedInactive, Versions
      <3>1. CASE s = r BY <2>1, <3>1 DEF ActiveStatuses
      <3>2. CASE s # r BY <2>1, <2>7, <3>2 DEF DeletionInv, DeletedInactive
      <3> QED BY <3>1, <3>2
    <2>13. DeletedHoldsNothing'
      <3> SUFFICES ASSUME NEW s \in Removals, ~present'[s], NEW b \in Batches
                   PROVE  claimed'[b] # s /\ reserved'[b].rem # s
        BY DEF DeletedHoldsNothing
      <3>1. CASE s = r BY <2>2, <3>1
      <3>2. CASE s # r
        <4>1. claimed[b] # s /\ reserved[b].rem # s
          BY <2>7, <3>2 DEF DeletionInv, DeletedHoldsNothing
        <4>2. NoSubmission.rem # s BY NoneAssumption DEF NoSubmission
        <4> QED BY <2>2, <4>1, <4>2
      <3> QED BY <3>1, <3>2
    <2> QED BY <2>3, <2>6, <2>8, <2>10, <2>11, <2>12, <2>13 DEF DeletionInv
  <1> QED BY <1>1, <1>2, <1>3, FinalizeDeletionMove

LEMMA CrashDeletionKeepsInv ==
    ASSUME DeletionInv, NEW d \in Deleters, CrashDeletion(d)
    PROVE  DeletionInv'
  <1>1. /\ deletion' = [deletion EXCEPT ![d] = NoDeletion]
        /\ UNCHANGED <<vars, present, lease>>
    BY DEF CrashDeletion
  <1>2. UNCHANGED <<ledger, clock, claimed, reserved, attempt, present, lease>>
    BY <1>1 DEF vars
  <1>3. LocksInv' BY <1>1, NextKeepsLocks DEF DeletionInv
  <1>4. deletion \in [Deleters -> Deletion] BY DEF DeletionInv, DeletionTypes
  <1>5. NoDeletion \in Deletion /\ NoDeletion.pc = "idle"
    BY RemovalsAssumption
       DEF NoDeletion, Deletion, DeletionSteps, SomeRemoval, NoLock, Locks
  <1>6. DeletionTypes' BY <1>1, <1>4, <1>5 DEF DeletionInv, DeletionTypes
  <1>7. ASSUME NEW e \in Deleters, ~DeletionAt(e, "idle")'
        PROVE  HandsBack(e)'
    <2>1. deletion'[e] = deletion[e] /\ ~DeletionAt(e, "idle")
      BY <1>1, <1>4, <1>5, <1>7 DEF DeletionAt
    <2> QED BY <1>2, <2>1, OthersHandBack
  <1>8. DeletersHandBack' BY <1>7 DEF DeletersHandBack
  <1>9. /\ OwnersPresent' /\ ClaimsFinalized'
        /\ DeletedInactive' /\ DeletedHoldsNothing'
    BY <1>2 DEF DeletionInv, OwnersPresent, ClaimsFinalized, DeletedInactive,
           DeletedHoldsNothing, EverFinalized, Versions
  <1> QED BY <1>3, <1>6, <1>8, <1>9 DEF DeletionInv

-----------------------------------------------------------------------------
(* What a step of a submit attempt does that a deletion depends on.        *)

\* Rows stay, or become the attempt's own or nobody's; none is submitted.
RowsTouched(a) ==
    \A q \in Removals :
        /\ Len(ledger'[q]) >= Len(ledger[q])
        /\ \A v \in 1 .. Len(ledger'[q]) :
            \/ v \in Versions(q) /\ ledger'[q][v] = ledger[q][v]
            \/ /\ ledger'[q][v].lockedAt.by \in {a, Nobody}
               /\ ledger'[q][v].status # "submitted"
               /\ v \in Versions(q) => ledger[q][v].status # "submitted"

Submits(a) ==
    /\ attempt[a].pc = "finalize"
    /\ CanFinalize(Submission(a), attempt[a].stamp, ClaimBatches(a))
    /\ Finalize([rem |-> attempt[a].rem, ver |-> attempt[a].ver],
           attempt[a].ext, attempt[a].prev, ClaimBatches(a))

LEMMA QuietTouch ==
    ASSUME Typed, NEW a, UNCHANGED ledger
    PROVE  RowsTouched(a)
  <1>1. \A q \in Removals : Len(ledger[q]) \in Nat BY StateFacts
  <1> QED BY <1>1 DEF RowsTouched, Versions

LEMMA WriteRowTouch ==
    ASSUME Typed, NEW a, NEW r \in Removals, NEW v \in Versions(r),
           NEW row \in Rows(Payloads), WriteRow(r, v, row),
           row.lockedAt.by \in {a, Nobody}, row.status # "submitted",
           ledger[r][v].status # "submitted"
    PROVE  RowsTouched(a)
  <1>1. \A q \in Removals : Len(ledger[q]) \in Nat BY StateFacts
  <1>2. /\ \A q \in Removals : Len(ledger'[q]) = Len(ledger[q])
        /\ \A q \in Removals : \A u \in Versions(q) :
             ledger'[q][u] = IF q = r /\ u = v THEN row ELSE ledger[q][u]
    BY WriteRowRows
  <1> SUFFICES ASSUME NEW q \in Removals, NEW u \in Versions(q)
               PROVE
            \/ ledger'[q][u] = ledger[q][u]
            \/ /\ ledger'[q][u].lockedAt.by \in {a, Nobody}
               /\ ledger'[q][u].status # "submitted"
               /\ ledger[q][u].status # "submitted"
    BY <1>1, <1>2 DEF RowsTouched, Versions
  <1> QED BY <1>2

LEMMA StepTouches ==
    ASSUME Journal, AttemptsHeld, NEW a \in Attempts, Step(a)
    PROVE  RowsTouched(a) \/ (Submits(a) /\ Stop(a))
  <1> DEFINE r == attempt[a].rem
             v == attempt[a].ver
             stamp == [by |-> a, at |-> clock]
  <1>1. /\ Typed /\ r \in Removals
        /\ attempt[a].pc \in Owning \cup {"resetting"} =>
             v \in Versions(r) /\ Row(a) = ledger[r][v]
        /\ attempt[a].pc \in Owning => attempt[a].stamp.by = a
    BY TypedFacts, NamedFacts DEF Journal, AttemptsSound, Sound
  <1>2. stamp.by = a /\ NoLock.by = Nobody BY DEF NoLock
  <1> HIDE DEF stamp
  <1>3. CASE UNCHANGED ledger BY <1>1, <1>3, QuietTouch
  <1>4. CASE CreateDraft(a) /\ ~UNCHANGED ledger
    <2> DEFINE new == Len(ledger[r]) + 1
    <2>1. /\ \A s \in Removals : Len(ledger'[s]) =
                IF s = r THEN new ELSE Len(ledger[s])
          /\ \A s \in Removals : \A u \in Versions(s) :
                ledger'[s][u] = ledger[s][u]
          /\ \E prev \in Nat : ledger'[r][new] =
               [status |-> "draft", hash |-> attempt[a].payload, ext |-> 0,
                lockedAt |-> stamp, outcome |-> "none", mutation |-> "unset",
                refresh |-> FALSE, prev |-> prev]
      BY <1>4, CreateDraftMove DEF stamp
    <2>2. ledger'[r][new].lockedAt.by = a /\ ledger'[r][new].status = "draft"
      BY <1>2, <2>1
    <2>3. \A q \in Removals : Len(ledger[q]) \in Nat BY <1>1, StateFacts
    <2>4. new \notin Versions(r) BY <1>1, <2>3 DEF Versions
    <2>5. \A q \in Removals : \A u \in 1 .. Len(ledger'[q]) :
              u \in Versions(q) \/ (q = r /\ u = new)
      BY <1>1, <2>1, <2>3 DEF Versions
    <2>6. \A q \in Removals : Len(ledger'[q]) >= Len(ledger[q])
      BY <2>1, <2>3
    <2> HIDE DEF new
    <2> QED BY <2>1, <2>2, <2>4, <2>5, <2>6 DEF RowsTouched
  <1>5. CASE ResetDraft(a) /\ ~UNCHANGED ledger
    <2>1. attempt[a].pc = "resetting" BY <1>5 DEF ResetDraft, Is
    <2>2. ledger[r][v].status \in {"draft", "rejected"}
      BY <2>1 DEF AttemptsHeld, KeepsLock, Resettable
    <2>3. PICK row \in Rows(Payloads) :
              WriteRow(r, v, row) /\ row.lockedAt = stamp /\ row.status = "draft"
      <3>1. CanResetToDraft(ledger[r][v], attempt[a].bypass, attempt[a].began)
        BY <1>5 DEF ResetDraft
      <3> QED BY <1>5, <3>1, ResetDraftMove DEF stamp
    <2> QED BY <1>1, <1>2, <2>1, <2>2, <2>3, WriteRowTouch
  <1>6. CASE Retire(a) /\ ~UNCHANGED ledger
    <2>1. attempt[a].pc = "retire" /\ attempt[a].pc \in Owning
      BY <1>1, <1>6, RetireMove, PlaceNames
    <2>2. PICK row \in Rows(Payloads) :
            /\ WriteRow(r, v, row) /\ row.lockedAt = NoLock
            /\ row.status = "superseded" /\ Row(a).status = "draft"
      BY <1>1, <1>6, RetireMove
    <2> QED BY <1>1, <1>2, <2>1, <2>2, WriteRowTouch
  <1>7. CASE (Confirm(a) \/ RecordFailure(a)) /\ ~UNCHANGED ledger
    <2>1. attempt[a].pc \in Owning
      BY <1>1, <1>7, ConfirmMove, RecordFailureMove, PlaceNames
    <2>2. PICK row \in Rows(Payloads) :
            /\ WriteRow(r, v, row)
            /\ HoldsLock(r, v, attempt[a].stamp)
            /\ \/ row.lockedAt = Row(a).lockedAt /\ row.status = Row(a).status
               \/ row.lockedAt = NoLock /\ row.status = "rejected"
      BY <1>1, <1>7, ConfirmMove, RecordFailureMove
    <2>3. Row(a).status = "draft" /\ Row(a).lockedAt = attempt[a].stamp
      BY <1>1, <2>1, <2>2 DEF HoldsLock
    <2> QED BY <1>1, <1>2, <2>1, <2>2, <2>3, WriteRowTouch
  <1>8. CASE FinalizeSubmission(a) /\ ~UNCHANGED ledger
    BY <1>1, <1>8, FinalizeMove DEF Submits
  <1> QED BY <1>3, <1>4, <1>5, <1>6, <1>7, <1>8, SameLedger DEF Step, GateStep

\* Who claims and who reserves.
LEMMA StepProduction ==
    ASSUME Typed, RowsSound, NEW a \in Attempts, Step(a)
    PROVE  /\ UNCHANGED claimed \/ Submits(a)
           /\ \A b \in Batches :
                \/ reserved'[b] \in {reserved[b], NoSubmission}
                \/ attempt[a].pc = "reserve" /\ reserved'[b].rem = attempt[a].rem
  <1>1. CASE UNCHANGED <<claimed, reserved>> BY <1>1
  <1>2. CASE Retire(a) \/ RecordFailure(a)
    <2>1. UNCHANGED claimed /\ (UNCHANGED reserved \/ Release(Submission(a)))
      BY <1>2, RetireMove, RecordFailureMove
    <2> QED BY <2>1 DEF Release
  <1>3. CASE ReserveClaims(a)
    <2>1. /\ attempt[a].pc = "reserve" /\ UNCHANGED claimed
          /\ UNCHANGED reserved \/ Reserve(Submission(a), ClaimBatches(a))
      BY <1>3, ReserveMove
    <2>2. Submission(a).rem = attempt[a].rem BY DEF Submission
    <2> QED BY <2>1, <2>2 DEF Reserve
  <1>4. CASE FinalizeSubmission(a)
    <2>1. UNCHANGED <<claimed, reserved>> \/ Submits(a)
      BY <1>4, FinalizeMove DEF Submits
    <2>2. Submits(a) => \A b \in Batches :
              reserved'[b] \in {reserved[b], NoSubmission}
      BY DEF Submits, Finalize
    <2> QED BY <2>1, <2>2
  <1>5. CASE \/ \E s \in Removals : Load(a, s)
             \/ Route(a) \/ CreateDraft(a) \/ DecideResume(a) \/ ResetDraft(a)
             \/ GateStep(a)
             \/ LookupFound(a) \/ LookupNone(a) \/ LookupFails(a)
             \/ PostAnswered(a) \/ PostRefused(a) \/ PostUnanswered(a)
             \/ Reconcile(a) \/ Confirm(a) \/ Verify(a) \/ FailStep(a)
    <2>1. UNCHANGED <<claimed, reserved>>
      BY <1>5, GateMove, ConfirmMove DEF Load, Route, CreateDraft, DecideResume,
         ResetDraft, LookupFound, LookupNone, LookupFails, PostAnswered,
         PostRefused, PostUnanswered, Reconcile, Verify, FailStep, ledgerVars
    <2> QED BY <1>1, <2>1
  <1> QED BY <1>2, <1>3, <1>4, <1>5 DEF Step, GateStep

\* The gate of the production claims is on the way to everything after it.
LEMMA StepPlaces ==
    ASSUME Journal, NEW a \in Attempts, Step(a)
    PROVE  /\ \A b \in Attempts \ {a} : attempt'[b] = attempt[b]
           /\ attempt'[a].pc \in PastScope =>
                /\ attempt[a].pc \in PastScope \cup {"scope"}
                /\ attempt'[a].rem = attempt[a].rem
  <1> DEFINE Moved == /\ \A b \in Attempts \ {a} : attempt'[b] = attempt[b]
                      /\ attempt'[a].pc \in PastScope =>
                           /\ attempt[a].pc \in PastScope \cup {"scope"}
                           /\ attempt'[a].rem = attempt[a].rem
  <1>1. Typed /\ RowsSound /\ attempt \in [Attempts -> Attempt]
    BY StateFacts DEF Journal
  <1>2. ASSUME NEW q, attempt' = [attempt EXCEPT ![a] = q],
               q.pc \notin PastScope \/
                 /\ attempt[a].pc \in PastScope \cup {"scope"}
                 /\ q.rem = attempt[a].rem
        PROVE  Moved
    BY <1>1, <1>2
  <1>3. /\ PastScope = {"contend", "rebuild", "reserve", "lookup", "post",
                        "answer", "confirm", "verify", "finalize"}
    BY DEF PastScope, Owning, Gating, Sending, Finishing
  <1> SUFFICES Moved OBVIOUS
  <1> HIDE DEF Moved
  <1>4. Stop(a) => Moved BY <1>2, <1>3, IdleType DEF Stop
  <1>5. ASSUME NEW pc, Goto(a, pc),
               pc \notin PastScope \/ attempt[a].pc \in PastScope \cup {"scope"}
        PROVE  Moved
    <2> DEFINE q == [attempt[a] EXCEPT !.pc = pc]
    <2>1. attempt' = [attempt EXCEPT ![a] = q] BY <1>1, <1>5 DEF Goto
    <2>2. q.pc = pc /\ q.rem = attempt[a].rem BY <1>1 DEF Attempt
    <2> HIDE DEF q
    <2> QED BY <1>2, <1>5, <2>1, <2>2
  <1>6. Throw(a) => Moved BY <1>3, <1>5 DEF Throw
  <1>7. ASSUME NEW pc, NEW mutation, NEW prev, NEW kind, NEW ext,
               Becomes(a, pc, mutation, prev, kind, ext),
               attempt[a].pc \in PastScope \cup {"scope"}
        PROVE  Moved
    BY <1>2, <1>7 DEF Becomes, SameClaim
  <1>8. CASE \E r \in Removals : Load(a, r)
    <2>1. PICK r \in Removals : Load(a, r) BY <1>8
    <2> DEFINE q == [Idle EXCEPT !.pc = "loaded", !.rem = r,
                       !.payload = LivePayload(r), !.seen = MemberClaims(r)]
    <2>2. attempt' = [attempt EXCEPT ![a] = q] /\ q.pc = "loaded"
      BY <2>1 DEF Load, Idle
    <2> HIDE DEF q
    <2> QED BY <1>2, <1>3, <2>2
  <1>9. CASE Route(a)
    <2> DEFINE q == [attempt[a] EXCEPT !.pc = "resuming", !.began = clock]
    <2>1. \/ attempt' = [attempt EXCEPT ![a] = q]
          \/ Goto(a, "creating") \/ Stop(a)
      BY <1>1, <1>9 DEF Route
    <2>2. q.pc = "resuming" BY <1>1 DEF Attempt
    <2> HIDE DEF q
    <2> QED BY <1>2, <1>3, <1>4, <1>5, <2>1, <2>2
  <1>10. CASE CreateDraft(a)
    <2>1. \/ Stop(a)
          \/ \E q \in Attempt : attempt' = [attempt EXCEPT ![a] = q]
                                /\ q.pc = "scope"
      BY <1>10, CreateDraftTurn DEF TakesDraft
    <2> QED BY <1>2, <1>3, <1>4, <2>1
  <1>11. CASE DecideResume(a)
    <2> DEFINE d == DecideSubmissionClaim(ledger[attempt[a].rem],
                      attempt[a].payload, clock, RemovalPolicy)
               reclaims == CanReclaimInterrupted(
                      ledger[attempt[a].rem][d.version])
    <2>1. \/ Stop(a)
          \/ attempt' = [attempt EXCEPT ![a] =
                [attempt[a] EXCEPT !.pc = "resetting", !.ver = d.version,
                   !.bypass = reclaims]]
      BY <1>1, <1>11 DEF DecideResume
    <2> HIDE DEF d, reclaims
    <2>2. ASSUME NEW version, NEW bypass, attempt' = [attempt EXCEPT ![a] =
                [attempt[a] EXCEPT !.pc = "resetting", !.ver = version,
                   !.bypass = bypass]]
          PROVE  Moved
      <3> DEFINE q == [attempt[a] EXCEPT !.pc = "resetting", !.ver = version,
                         !.bypass = bypass]
      <3>1. attempt' = [attempt EXCEPT ![a] = q] BY <2>2
      <3>2. q.pc = "resetting" BY <1>1 DEF Attempt
      <3> HIDE DEF q
      <3> QED BY <1>2, <1>3, <3>1, <3>2
    <2> QED BY <1>4, <2>1, <2>2
  <1>12. CASE ResetDraft(a)
    <2>1. \/ Stop(a)
          \/ \E q \in Attempt : attempt' = [attempt EXCEPT ![a] = q]
                                /\ q.pc = "revision"
      BY <1>12, ResetDraftMove DEF ResetDraft
    <2> QED BY <1>2, <1>3, <1>4, <2>1
  <1>13. CASE CheckRevision(a) \/ Retire(a) \/ FailStep(a)
    <2>1. Goto(a, "scope") \/ Goto(a, "retire") \/ Throw(a)
      BY <1>13 DEF CheckRevision, Retire, FailStep, Drifted
    <2> QED BY <1>3, <1>5, <1>6, <2>1
  <1>14. CASE CheckScope(a) \/ CheckContenders(a) \/ CheckPayload(a)
    <2>1. attempt[a].pc \in PastScope \cup {"scope"}
      BY <1>3, <1>14 DEF CheckScope, CheckContenders, CheckPayload, Is
    <2>2. \E pc : Goto(a, pc)
      BY <1>14 DEF CheckScope, CheckContenders, CheckPayload, Drifted, Throw
    <2> QED BY <1>5, <2>1, <2>2
  <1>15. CASE ReserveClaims(a) \/ Confirm(a)
    <2>1. /\ attempt[a].pc \in PastScope
          /\ \/ Throw(a)
             \/ \E pc, mutation, prev, kind, ext :
                  Becomes(a, pc, mutation, prev, kind, ext)
      BY <1>1, <1>3, <1>15, ReserveMove, ConfirmMove DEF Advances
    <2> QED BY <1>6, <1>7, <2>1
  <1>16. CASE \/ LookupFound(a) \/ LookupNone(a) \/ LookupFails(a)
              \/ PostAnswered(a) \/ PostRefused(a) \/ PostUnanswered(a)
              \/ Reconcile(a) \/ Verify(a)
    <2>1. attempt[a].pc \in PastScope
      BY <1>3, <1>16 DEF LookupFound, LookupNone, LookupFails, PostAnswered,
         PostRefused, PostUnanswered, Reconcile, Verify, Is
    <2>2. \/ \E pc : Goto(a, pc)
          \/ \E pc, mutation : attempt' = [attempt EXCEPT ![a] =
                [attempt[a] EXCEPT !.pc = pc, !.mutation = mutation]]
          \/ \E pc, mutation, ext : attempt' = [attempt EXCEPT ![a] =
                [attempt[a] EXCEPT !.pc = pc, !.mutation = mutation,
                   !.ext = ext]]
      <3>1. CASE LookupNone(a) \/ PostRefused(a)
        BY <3>1 DEF LookupNone, PostRefused
      <3>2. CASE LookupFails(a) \/ PostUnanswered(a) \/ Verify(a)
        <4> DEFINE advanced == Advance(attempt[a].mutation, "possible")
        <4>1. \/ attempt' = [attempt EXCEPT ![a] =
                    [attempt[a] EXCEPT !.pc = "fail", !.mutation = advanced]]
              \/ attempt' = [attempt EXCEPT ![a] =
                    [attempt[a] EXCEPT !.pc = "answer", !.mutation = advanced]]
              \/ attempt' = [attempt EXCEPT ![a] =
                    [attempt[a] EXCEPT !.pc = "finalize",
                       !.mutation = "confirmed"]]
          BY <1>1, <3>2 DEF LookupFails, PostUnanswered, Verify, ThrowWith
        <4> HIDE DEF advanced
        <4> QED BY <4>1
      <3>3. ASSUME NEW id, Confirmed(a, id)
            PROVE  \E pc, mutation, ext : attempt' = [attempt EXCEPT ![a] =
                    [attempt[a] EXCEPT !.pc = pc, !.mutation = mutation,
                       !.ext = ext]]
        <4> DEFINE ext == IF attempt[a].kind = "entry" THEN id ELSE attempt[a].ext
        <4>1. attempt' = [attempt EXCEPT ![a] =
                  [attempt[a] EXCEPT !.pc = "confirm",
                     !.mutation = "confirmed", !.ext = ext]]
          BY <1>1, <3>3 DEF Confirmed
        <4> HIDE DEF ext
        <4> QED BY <4>1
      <3>4. CASE LookupFound(a) \/ PostAnswered(a) \/ Reconcile(a)
        BY <3>3, <3>4 DEF LookupFound, PostAnswered, Reconcile, Throw
      <3> QED BY <1>16, <3>1, <3>2, <3>4
    <2>3. \A pc, mutation, ext :
            /\ [attempt[a] EXCEPT !.pc = pc, !.mutation = mutation].rem
                 = attempt[a].rem
            /\ [attempt[a] EXCEPT !.pc = pc, !.mutation = mutation,
                  !.ext = ext].rem = attempt[a].rem
      BY <1>1 DEF Attempt
    <2>4. ASSUME NEW q, attempt' = [attempt EXCEPT ![a] = q],
                 q.rem = attempt[a].rem
          PROVE  Moved
      BY <1>2, <2>1, <2>4
    <2>5. ASSUME NEW pc, NEW mutation, attempt' = [attempt EXCEPT ![a] =
                [attempt[a] EXCEPT !.pc = pc, !.mutation = mutation]]
          PROVE  Moved
      BY <2>3, <2>4, <2>5
    <2>6. ASSUME NEW pc, NEW mutation, NEW ext,
                 attempt' = [attempt EXCEPT ![a] =
                    [attempt[a] EXCEPT !.pc = pc, !.mutation = mutation,
                       !.ext = ext]]
          PROVE  Moved
      <3> DEFINE q == [attempt[a] EXCEPT !.pc = pc, !.mutation = mutation,
                         !.ext = ext]
      <3>1. q.rem = attempt[a].rem /\ attempt' = [attempt EXCEPT ![a] = q]
        BY <2>3, <2>6
      <3> HIDE DEF q
      <3> QED BY <2>4, <3>1
    <2>7. ASSUME NEW pc, Goto(a, pc) PROVE Moved BY <1>5, <2>1, <2>7
    <2> QED BY <2>2, <2>5, <2>6, <2>7
  <1>17. CASE FinalizeSubmission(a)
    <2>1. Throw(a) \/ Stop(a) BY <1>17 DEF FinalizeSubmission
    <2> QED BY <1>4, <1>6, <2>1
  <1>18. CASE RecordFailure(a) BY <1>1, <1>4, <1>18, RecordFailureMove
  <1> QED BY <1>8, <1>9, <1>10, <1>11, <1>12, <1>13, <1>14, <1>15, <1>16,
       <1>17, <1>18 DEF Step

-----------------------------------------------------------------------------
(* The steps of submit attempts keep the invariant.                        *)

LEMMA StepClock ==
    ASSUME NEW a \in Attempts, Step(a)
    PROVE  UNCHANGED clock
  <1>1. CASE GateStep(a) BY <1>1, GateMove DEF ledgerVars
  <1>2. CASE ~GateStep(a)
    BY <1>2 DEF Step, GateStep, Load, Route, CreateDraft, DecideResume,
       ResetDraft, Retire, ReserveClaims, LookupFound, LookupNone, LookupFails,
       PostAnswered, PostRefused, PostUnanswered, Reconcile, Confirm, Verify,
       FinalizeSubmission, FailStep, RecordFailure, ledgerVars
  <1> QED BY <1>1, <1>2

\* A finalization, row by row.
LEMMA SubmitRows ==
    ASSUME Journal, NEW a \in Attempts, Submits(a)
    PROVE  LET r == attempt[a].rem
               v == attempt[a].ver
           IN  /\ r \in Removals /\ v \in Versions(r)
               /\ ledger[r][v].status = "draft"
               /\ \A q \in Removals : Len(ledger'[q]) = Len(ledger[q])
               /\ ledger'[r][v].status = "submitted"
               /\ ledger'[r][v].lockedAt = NoLock
               /\ \A q \in Removals : \A u \in Versions(q) :
                    \/ q = r /\ u = v
                    \/ ledger'[q][u] = ledger[q][u]
                    \/ /\ q = r
                       /\ ledger'[q][u].lockedAt = ledger[q][u].lockedAt
                       /\ ledger'[q][u].status = "superseded"
               /\ claimed' = [b \in Batches |->
                     IF b \in ClaimBatches(a) THEN r ELSE claimed[b]]
  <1> DEFINE r == attempt[a].rem
             v == attempt[a].ver
  <1>1. Typed /\ r \in Removals /\ v \in Versions(r)
        /\ attempt[a].ext \in Nat
    BY PlaceNames, TypedFacts, NamedFacts DEF Submits, Journal
  <1>2. Finalize([rem |-> r, ver |-> v], attempt[a].ext, attempt[a].prev,
            ClaimBatches(a))
    BY DEF Submits
  <1>3. ledger[r][v].status = "draft"
    BY DEF Submits, CanFinalize, HoldsLock, Submission
  <1>4. claimed' = [b \in Batches |->
            IF b \in ClaimBatches(a) THEN r ELSE claimed[b]]
    BY <1>2 DEF Finalize
  <1>5. /\ \A q \in Removals : Len(ledger'[q]) = Len(ledger[q])
        /\ ledger'[r][v].status = "submitted" /\ ledger'[r][v].lockedAt = NoLock
        /\ \A u \in Versions(r) \ {v} : u = attempt[a].prev =>
              /\ ledger'[r][u].status = "superseded"
              /\ ledger'[r][u].lockedAt = ledger[r][u].lockedAt
        /\ \A q \in Removals : \A u \in Versions(q) :
              ~(q = r /\ u \in {v, attempt[a].prev}) =>
                  ledger'[q][u] = ledger[q][u]
    <2>1. FinalRows(r, v, attempt[a].ext, attempt[a].prev)
      BY <1>1, <1>2, FinalRowsAre
    <2> QED BY <2>1 DEF FinalRows, SubmittedRow, SupersededRow
  <1> QED BY <1>1, <1>3, <1>4, <1>5

LEMMA StepHandsBack ==
    ASSUME Timely, DeletionInv, NEW a \in Attempts, Step(a),
           UNCHANGED <<lease, deletion>>
    PROVE  DeletersHandBack'
  <1>1. Journal /\ AttemptsHeld BY DEF DeletionInv, LocksInv, JournalInv
  <1>2. UNCHANGED clock BY StepClock
  <1> SUFFICES ASSUME NEW e \in Deleters, ~DeletionAt(e, "idle")
               PROVE  HandsBack(e)'
    BY DEF DeletersHandBack, DeletionAt
  <1> DEFINE r == Target(e)
             stamp == deletion[e].stamp
  <1>3. HandsBack(e) /\ r \in Removals /\ e \notin {a, Nobody}
    BY DeletionFacts, Deleting DEF DeletionInv, DeletersHandBack
  <1> SUFFICES ASSUME NEW u \in 1 .. Len(ledger'[r]), lease[r] = stamp,
                      ledger'[r][u].lockedAt = stamp
               PROVE  /\ u \in DOMAIN deletion[e].held
                      /\ HandBack(ledger'[r][u], deletion[e].held[u], clock)
    BY <1>2, <1>3 DEF HandsBack, Target, Versions
  <1>4. stamp.by = e BY <1>3 DEF HandsBack
  <1>5. CASE RowsTouched(a)
    <2>1. u \in Versions(r) /\ ledger'[r][u] = ledger[r][u]
      BY <1>3, <1>4, <1>5 DEF RowsTouched
    <2> QED BY <1>3, <2>1 DEF HandsBack
  <1>6. CASE Submits(a)
    <2>1. u \in Versions(r) BY <1>1, <1>3, <1>6, SubmitRows DEF Versions
    <2>2. stamp # NoLock BY <1>3, <1>4 DEF NoLock
    <2>3. \/ ledger'[r][u] = ledger[r][u]
          \/ /\ ledger'[r][u].lockedAt = ledger[r][u].lockedAt
             /\ ledger'[r][u].status = "superseded"
      BY <1>1, <1>3, <1>6, <2>1, <2>2, SubmitRows
    <2> QED BY <1>3, <2>1, <2>3 DEF HandsBack, HandBack
  <1> QED BY <1>1, <1>5, <1>6, StepTouches

LEMMA StepClaims ==
    ASSUME Timely, DeletionInv, NEW a \in Attempts, Step(a)
    PROVE  ClaimsFinalized'
  <1>1. Typed /\ RowsSound /\ Journal /\ AttemptsHeld
    BY DEF DeletionInv, LocksInv, JournalInv, Journal
  <1>2. FinalizedKept
    BY NextKeepsFinalized DEF Next, DeletionInv
  <1>3. \A q \in Removals : \A u \in Versions(q) : u \in 1 .. Len(ledger'[q])
    <2>1. \A q \in Removals : Len(ledger[q]) \in Nat BY <1>1, StateFacts
    <2>2. LocksInv' => Typed' BY InvTyped, PTL DEF LocksInv, JournalInv, Journal
    <2>3. LocksInv' BY NextKeepsLocks DEF Next, DeletionInv
    <2>4. \A q \in Removals : Len(ledger'[q]) \in Nat
      BY <2>2, <2>3, BoundsAssumption DEF Typed, Bounded
    <2>5. \A q \in Removals : Len(ledger'[q]) >= Len(ledger[q])
      BY <1>1, <2>1, StepTouches, SubmitRows DEF RowsTouched
    <2> QED BY <2>1, <2>4, <2>5 DEF Versions
  <1>4. ASSUME NEW q \in Removals, EverFinalized(q)
        PROVE  EverFinalized(q)'
    <2>1. PICK u \in Versions(q) : ledger[q][u].status \in FinalizedStatuses
      BY <1>4 DEF EverFinalized
    <2>2. ledger'[q][u].status \in FinalizedStatuses
      BY <1>2, <2>1 DEF FinalizedKept, FinalizedStatuses
    <2> QED BY <1>3, <2>2 DEF EverFinalized, Versions
  <1> SUFFICES ASSUME NEW b \in Batches, NEW q \in Removals, claimed'[b] = q
               PROVE  EverFinalized(q)'
    BY DEF ClaimsFinalized
  <1>5. CASE claimed[b] = q BY <1>4, <1>5 DEF DeletionInv, ClaimsFinalized
  <1>6. CASE claimed[b] # q
    <2>1. Submits(a) BY <1>1, <1>6, StepProduction
    <2>2. q = attempt[a].rem BY <1>1, <1>6, <2>1, SubmitRows
    <2>3. /\ attempt[a].ver \in 1 .. Len(ledger'[q])
          /\ ledger'[q][attempt[a].ver].status = "submitted"
      BY <1>1, <1>3, <2>1, <2>2, SubmitRows
    <2> QED BY <2>3 DEF EverFinalized, Versions, FinalizedStatuses
  <1> QED BY <1>5, <1>6

LEMMA StepKeepsDeleted ==
    ASSUME Timely, DeletionInv, NEW a \in Attempts, Step(a), UNCHANGED present
    PROVE  DeletedInactive' /\ DeletedHoldsNothing'
  <1>1. Typed /\ RowsSound /\ Journal /\ AttemptsHeld
    BY DEF DeletionInv, LocksInv, JournalInv, Journal
  <1>2. RowsSound'
    BY NextKeepsLocks DEF Next, DeletionInv, LocksInv, JournalInv, Journal
  <1>3. attempt[a].pc \in PastScope => present[attempt[a].rem]
    BY DEF DeletionInv, OwnersPresent
  <1>4. "reserve" \in PastScope /\ "finalize" \in PastScope
    BY DEF PastScope, Owning, Gating, Sending, Finishing
  <1>5. Submits(a) => present[attempt[a].rem] BY <1>3, <1>4 DEF Submits
  <1> SUFFICES ASSUME NEW q \in Removals, ~present[q]
               PROVE  /\ \A u \in 1 .. Len(ledger'[q]) :
                           ledger'[q][u].status \notin ActiveStatuses
                      /\ \A b \in Batches :
                           claimed'[b] # q /\ reserved'[b].rem # q
    BY DEF DeletedInactive, DeletedHoldsNothing, Versions
  <1>6. \A u \in Versions(q) : ledger[q][u].status \notin ActiveStatuses
    BY DEF DeletionInv, DeletedInactive
  <1>7. ASSUME NEW u \in 1 .. Len(ledger'[q])
        PROVE  ledger'[q][u].status \notin ActiveStatuses
    <2>1. ledger'[q][u].status # "accepted"
      BY <1>2, <1>7 DEF RowsSound, Versions
    <2>2. CASE RowsTouched(a)
      BY <1>6, <2>1, <2>2 DEF RowsTouched, ActiveStatuses
    <2>3. CASE Submits(a)
      <3>1. u \in Versions(q) BY <1>1, <2>3, SubmitRows DEF Versions
      <3>2. ledger'[q][u] = ledger[q][u]
        BY <1>1, <1>5, <2>3, <3>1, SubmitRows
      <3> QED BY <1>6, <3>1, <3>2
    <2> QED BY <1>1, <2>2, <2>3, StepTouches
  <1>8. ASSUME NEW b \in Batches
        PROVE  claimed'[b] # q /\ reserved'[b].rem # q
    <2>1. claimed[b] # q /\ reserved[b].rem # q
      BY DEF DeletionInv, DeletedHoldsNothing
    <2>2. NoSubmission.rem # q BY NoneAssumption DEF NoSubmission
    <2>3. claimed'[b] # q
      BY <1>1, <1>5, <2>1, StepProduction, SubmitRows
    <2>4. reserved'[b].rem # q
      BY <1>1, <1>3, <1>4, <2>1, <2>2, StepProduction
    <2> QED BY <2>3, <2>4
  <1> QED BY <1>7, <1>8

LEMMA SubmitKeepsInv ==
    ASSUME Timely, DeletionInv, NEW a \in Attempts, Step(a),
           attempt[a].pc = "scope" => present[attempt[a].rem],
           UNCHANGED <<present, lease, deletion>>
    PROVE  DeletionInv'
  <1>1. Journal BY DEF DeletionInv, LocksInv, JournalInv
  <1>2. LocksInv' BY NextKeepsLocks DEF Next, DeletionInv
  <1>3. DeletionTypes' BY DEF DeletionInv, DeletionTypes
  <1>4. OwnersPresent'
    <2>1. /\ \A b \in Attempts \ {a} : attempt'[b] = attempt[b]
          /\ attempt'[a].pc \in PastScope =>
               /\ attempt[a].pc \in PastScope \cup {"scope"}
               /\ attempt'[a].rem = attempt[a].rem
      BY <1>1, StepPlaces
    <2> QED BY <2>1 DEF DeletionInv, OwnersPresent
  <1> QED BY <1>2, <1>3, <1>4, StepHandsBack, StepClaims, StepKeepsDeleted
       DEF DeletionInv

\* Steps that leave the rows, the claims and the deletions alone.
LEMMA QuietKeepsInv ==
    ASSUME DeletionInv, LocksInv', NEW now \in Nat, clock' = now, now >= clock,
           UNCHANGED <<ledger, claimed, reserved, present, lease, deletion>>,
           \A a \in Attempts : attempt'[a].pc \in PastScope =>
               attempt'[a] = attempt[a]
    PROVE  DeletionInv'
  <1>1. DeletionTypes' BY DEF DeletionInv, DeletionTypes
  <1>2. OwnersPresent' BY DEF DeletionInv, OwnersPresent
  <1>3. ASSUME NEW e \in Deleters, ~DeletionAt(e, "idle")
        PROVE  HandsBack(e)'
    <2>1. HandsBack(e) /\ deletion[e].held \in Seq(Held) /\ clock \in Nat
      BY <1>3, DeletionFacts, StateFacts
         DEF DeletionInv, DeletersHandBack, LocksInv, JournalInv, Journal
    <2>2. \A v \in DOMAIN deletion[e].held : deletion[e].held[v].lockedAt.at \in Nat
      <3>1. \A v \in DOMAIN deletion[e].held : deletion[e].held[v] \in Held
        BY <2>1, LenProperties, ElementOfSeq
      <3> QED BY <3>1 DEF Held, Locks
    <2>3. \A at \in Nat : clock - at >= LockTTL => now - at >= LockTTL
      BY <2>1, LockTTLAssumption
    <2>4. ASSUME NEW v \in DOMAIN deletion[e].held, NEW row,
                 HandBack(row, deletion[e].held[v], clock)
          PROVE  HandBack(row, deletion[e].held[v], now)
      BY <2>2, <2>3, <2>4 DEF HandBack
    <2> QED BY <2>1, <2>4 DEF HandsBack, Target, Versions
  <1>4. DeletersHandBack' BY <1>3 DEF DeletersHandBack, DeletionAt
  <1>5. ClaimsFinalized' /\ DeletedInactive' /\ DeletedHoldsNothing'
    BY DEF DeletionInv, ClaimsFinalized, DeletedInactive, DeletedHoldsNothing,
           EverFinalized, Versions
  <1> QED BY <1>1, <1>2, <1>4, <1>5 DEF DeletionInv

LEMMA RefusedKeepsInv ==
    ASSUME Timely, DeletionInv, NEW a \in Attempts,
           RefusedClaim(a) \/ RefusedGate(a)
    PROVE  DeletionInv'
  <1>1. Inv /\ Journal /\ AttemptsHeld
    BY DEF DeletionInv, LocksInv, JournalInv
  <1>2. /\ attempt \in [Attempts -> Attempt] /\ attempt[a] \in Attempt
        /\ clock \in Nat
    BY <1>1, TypedFacts DEF Journal
  <1>3. UNCHANGED <<ledgerVars, registry, wire, present, lease, deletion>>
    BY DEF RefusedClaim, RefusedGate
  <1>4. UNCHANGED <<ledger, clock, claimed, reserved>> BY <1>3 DEF ledgerVars
  <1>5. CASE RefusedClaim(a)
    <2>1. Stop(a) /\ attempt[a].pc \in {"creating", "resuming"}
      BY <1>5 DEF RefusedClaim, RefusesClaim, Is
    <2>2. Inv'
      <3>1. HashesKept /\ ClaimsKept BY <1>1, <1>4, Untouched
      <3>2. attempt' \in [Attempts -> Attempt] /\ AttemptsFit'
        BY <1>1, <2>1, <3>1, StopStep
      <3> QED BY <1>1, <1>3, <3>2, PureStep
    <2>3. Typed'
      <3>1. Inv' => Typed' BY InvTyped, PTL
      <3> QED BY <2>2, <3>1
    <2>4. RowsSound' /\ AttemptsSound'
      <3>1. LocksRespected(a) BY <1>3 DEF ledgerVars, LocksRespected
      <3> QED BY <1>1, <1>3, <1>4, <2>1, <3>1, PreparingStop
    <2>5. AttemptsHeld' BY <1>1, <1>4, <2>1, QuietRows, HeldStop
    <2>6. LocksInv'
      BY <2>2, <2>3, <2>4, <2>5 DEF LocksInv, JournalInv, Journal
    <2>7. \A b \in Attempts : attempt'[b].pc \in PastScope =>
              attempt'[b] = attempt[b]
      <3>1. Idle.pc \notin PastScope BY IdleType, StepNames DEF PastScope
      <3> QED BY <1>2, <2>1, <3>1 DEF Stop
    <2> QED BY <1>2, <1>3, <1>4, <2>6, <2>7, QuietKeepsInv
  <1>6. CASE RefusedGate(a)
    <2>1. Throw(a) /\ attempt[a].pc \in Gating
      BY <1>6 DEF RefusedGate, RefusesGate, Gating
    <2>2. Step(a) BY <1>3, <2>1 DEF Step, FailStep
    <2>3. LocksInv' BY <2>2, NextKeepsLocks DEF Next, DeletionInv
    <2>4. \A b \in Attempts : attempt'[b].pc \in PastScope =>
              attempt'[b] = attempt[b]
      <3>1. attempt'[a].pc = "fail"
            /\ \A b \in Attempts \ {a} : attempt'[b] = attempt[b]
        BY <1>2, <2>1 DEF Throw, Goto, Attempt
      <3>2. "fail" \notin PastScope BY DEF PastScope
      <3> QED BY <3>1, <3>2
    <2> QED BY <1>2, <1>3, <1>4, <2>3, <2>4, QuietKeepsInv
  <1> QED BY <1>5, <1>6

LEMMA OthersActKeepsInv ==
    ASSUME Timely, DeletionInv, Environment
    PROVE  DeletionInv'
  <1>1. Typed /\ clock \in Nat /\ attempt \in [Attempts -> Attempt]
    BY StateFacts DEF DeletionInv, LocksInv, JournalInv, Journal
  <1>2. LocksInv' BY NextKeepsLocks DEF Next, Environment, DeletionInv
  <1>3. UNCHANGED <<ledger, claimed, reserved, present, lease, deletion>>
    BY DEF Environment, Crash, Deliver, Change, Tick, ledgerVars
  <1>4. PICK now \in Nat : clock' = now /\ now >= clock
    BY <1>1 DEF Environment, Crash, Deliver, Change, Tick, ledgerVars
  <1>5. \A b \in Attempts : attempt'[b].pc \in PastScope =>
            attempt'[b] = attempt[b]
    <2>1. Idle.pc \notin PastScope BY IdleType, StepNames DEF PastScope
    <2>2. UNCHANGED attempt \/ \E a \in Attempts : Stop(a)
      BY DEF Environment, Crash, Deliver, Change, Tick
    <2> QED BY <1>1, <2>1, <2>2 DEF Stop
  <1> QED BY <1>2, <1>3, <1>4, <1>5, QuietKeepsInv

-----------------------------------------------------------------------------
(* The invariant holds in every behaviour.                                 *)

LEMMA InitEstablishesDeletion == DeletionInit => DeletionInv
  <1> SUFFICES ASSUME DeletionInit PROVE DeletionInv OBVIOUS
  <1>1. Init /\ LocksInv BY InitEstablishesLocks DEF DeletionInit
  <1>2. Typed BY <1>1 DEF LocksInv, JournalInv, Journal
  <1>3. \A r \in Removals : Versions(r) = {}
    BY <1>1, EmptySeq DEF Init, LedgerInit, Versions
  <1>4. \A a \in Attempts : attempt[a].pc \notin PastScope
    BY <1>1, IdleType, StepNames DEF Init, PastScope
  <1>5. DeletionTypes
    <2>1. SomeRemoval \in Removals
      BY IdleType DEF Idle, Attempt
    <2>2. << >> \in Seq(Held) BY EmptySeq
    <2>3. NoLock \in Locks BY DEF NoLock, Locks
    <2>4. NoDeletion \in Deletion
      BY <2>1, <2>2, <2>3 DEF NoDeletion, Deletion, DeletionSteps
    <2> QED BY <2>3, <2>4 DEF DeletionInit, DeletionTypes
  <1>6. \A d \in Deleters : DeletionAt(d, "idle")
    BY DEF DeletionInit, DeletionAt, NoDeletion
  <1>7. \A b \in Batches : claimed[b] = None /\ reserved[b] = NoSubmission
    BY <1>1 DEF Init, LedgerInit
  <1>8. ClaimsFinalized BY <1>7, NoneAssumption DEF ClaimsFinalized
  <1>9. DeletedInactive /\ DeletedHoldsNothing
    BY DEF DeletionInit, DeletedInactive, DeletedHoldsNothing
  <1> QED BY <1>1, <1>4, <1>5, <1>6, <1>8, <1>9
       DEF DeletionInv, OwnersPresent, DeletersHandBack

\* A step of a submit attempt is a step of the pipeline, or a refusal.
LEMMA SubmitStepCases ==
    ASSUME NEW a \in Attempts, SubmitStep(a)
    PROVE  \/ RefusedClaim(a) \/ RefusedGate(a)
           \/ /\ Step(a)
              /\ attempt[a].pc = "scope" => present[attempt[a].rem]
              /\ UNCHANGED <<present, lease, deletion>>
  <1>1. ASSUME NEW r \in Removals, StartSubmit(a, r)
        PROVE  /\ Step(a) /\ attempt[a].pc # "scope"
               /\ UNCHANGED <<present, lease, deletion>>
    BY <1>1 DEF StartSubmit, Step, Load, Is
  <1>2. CASE ContinueSubmit(a)
    BY <1>2 DEF ContinueSubmit, RefusesGate
  <1> QED BY <1>1, <1>2 DEF SubmitStep

LEMMA NextKeepsDeletion ==
    Timely /\ DeletionInv /\ [DeletionNext]_deletionVars => DeletionInv'
  <1> SUFFICES ASSUME Timely, DeletionInv, [DeletionNext]_deletionVars
               PROVE  DeletionInv'
    OBVIOUS
  <1>1. ASSUME NEW a \in Attempts, SubmitStep(a) PROVE DeletionInv'
    BY <1>1, SubmitStepCases, SubmitKeepsInv, RefusedKeepsInv
  <1>2. ASSUME NEW d \in Deleters, DeleteStep(d) \/ CrashDeletion(d)
        PROVE  DeletionInv'
    BY <1>2, ClaimKeepsInv, LookupEntryKeepsInv, RegistryCleanupKeepsInv,
       FinalizeDeletionKeepsInv, ReleaseKeepsInv, CrashDeletionKeepsInv
       DEF DeleteStep
  <1>3. CASE UNCHANGED deletionVars
    <2>1. UNCHANGED <<clock, ledger, claimed, reserved, attempt, present,
                      lease, deletion>>
      BY <1>3 DEF deletionVars, vars, ledgerVars
    <2>2. clock \in Nat
      BY StateFacts DEF DeletionInv, LocksInv, JournalInv, Journal
    <2>3. LocksInv'
      <3>1. UNCHANGED vars BY <1>3 DEF deletionVars
      <3> QED BY <3>1, NextKeepsLocks DEF DeletionInv
    <2> QED BY <2>1, <2>2, <2>3, QuietKeepsInv
  <1> QED BY <1>1, <1>2, <1>3, OthersActKeepsInv DEF DeletionNext

(* The inductive invariant holds in every behaviour of submit attempts and *)
(* deletions, as long as no call outlives the time its lock protects it.   *)
THEOREM DeletionInvariance ==
    ASSUME Timely
    PROVE  DeletionSpec => []DeletionInv
  BY InitEstablishesDeletion, NextKeepsDeletion, PTL DEF DeletionSpec

(* Every variable keeps its type through claims, hand-backs and removals.  *)
THEOREM DeletionTypeCorrectness ==
    ASSUME Timely
    PROVE  DeletionSpec => []DeletionTypeOK
  <1>1. DeletionInv => DeletionTypeOK
    BY DEF DeletionInv, DeletionTypes, DeletionTypeOK, LocksInv, JournalInv, Inv
  <1> QED BY <1>1, DeletionInvariance, PTL

(* claimRemovalDeletion takes no row from an attempt that may still write  *)
(* to the registry: also with deletions running, whoever sends, gates or   *)
(* finishes holds the lock it stamped.                                     *)
THEOREM DeletionRespectsLocks ==
    ASSUME Timely
    PROVE  DeletionSpec => []SendersHoldTheirLock
  <1>1. DeletionInv => SendersHoldTheirLock
    BY DEF DeletionInv, LocksInv, AttemptsHeld, KeepsLock, RowHeld,
           SendersHoldTheirLock, HoldsLock
  <1> QED BY <1>1, DeletionInvariance, PTL

(* finalizeRemovalDeletion frees every production claim and reservation of *)
(* the Removal, and an attempt that loaded it before never takes one       *)
(* again: a deleted Removal keeps no credit batch from another.            *)
THEOREM DeletedFreesProduction ==
    ASSUME Timely
    PROVE  DeletionSpec => []DeletedHoldsNothing
  <1>1. DeletionInv => DeletedHoldsNothing BY DEF DeletionInv
  <1> QED BY <1>1, DeletionInvariance, PTL

(* The fences of a deletion and the gates of an attempt leave no order of  *)
(* the two in which a Removal that is gone is submitted.                   *)
THEOREM DeletionFinality ==
    ASSUME Timely
    PROVE  DeletionSpec => []DeletedNeverSubmitted
  <1>1. DeletionInv => DeletedNeverSubmitted
    BY DEF DeletionInv, DeletedInactive, DeletedNeverSubmitted
  <1> QED BY <1>1, DeletionInvariance, PTL

-----------------------------------------------------------------------------
(* No GHG Entry is deleted under a sender.                                 *)

\* Outside of deletions the registry only gains records.
LEMMA StepAddsRecords ==
    ASSUME Typed, NEW a \in Attempts, Step(a)
    PROVE  UNCHANGED registry \/ \E ref \in References : CreateRecord(ref)
  <1>1. CASE PostAnswered(a) \/ PostUnanswered(a)
    <2>1. attempt[a].pc \in Owning \cup {"resetting"}
      BY <1>1, PlaceNames DEF PostAnswered, PostUnanswered, Is
    <2>2. Reference(a) \in References
      BY <2>1, NamedFacts, TypedFacts DEF Reference, References, Kinds
    <2> QED BY <1>1, <2>2 DEF PostAnswered, PostUnanswered
  <1>2. CASE GateStep(a) BY <1>2, GateMove
  <1>3. CASE ~(PostAnswered(a) \/ PostUnanswered(a) \/ GateStep(a))
    BY <1>3 DEF Step, GateStep, Load, Route, CreateDraft, DecideResume,
       ResetDraft, Retire, ReserveClaims, LookupFound, LookupNone, LookupFails,
       PostRefused, Reconcile, Confirm, Verify, FinalizeSubmission, FailStep,
       RecordFailure
  <1> QED BY <1>1, <1>2, <1>3

\* Every record that is there stays.
RecordsStay ==
    \A ref \in References : \A id \in Matches(ref) : registry'[ref][id]

LEMMA AddingKeepsRecords ==
    ASSUME Typed,
           UNCHANGED registry \/ \E ref \in References : CreateRecord(ref)
    PROVE  RecordsStay
  <1>1. registry \in [References -> Seq(BOOLEAN)] BY StateFacts
  <1>2. CASE UNCHANGED registry BY <1>2 DEF RecordsStay, Matches
  <1>3. ASSUME NEW ref \in References, CreateRecord(ref),
               NEW other \in References, NEW id \in Matches(other)
        PROVE  registry'[other][id]
    <2>1. registry'[ref] = Append(registry[ref], TRUE)
          /\ \A q \in References \ {ref} : registry'[q] = registry[q]
      BY <1>1, <1>3 DEF CreateRecord
    <2>2. registry[ref] \in Seq(BOOLEAN) /\ Len(registry[ref]) \in Nat
          /\ DOMAIN registry[ref] = 1 .. Len(registry[ref])
      BY <1>1, LenProperties
    <2>3. registry[other][id] /\ id \in DOMAIN registry[other]
      BY <1>3 DEF Matches
    <2>4. CASE other = ref
      <3>1. id \in 1 .. Len(registry[ref]) BY <2>2, <2>3, <2>4
      <3> DEFINE records == registry[ref]
      <3>2. records \in Seq(BOOLEAN) /\ id \in 1 .. Len(records)
        BY <2>2, <3>1
      <3> HIDE DEF records
      <3>3. Append(records, TRUE)[id] = records[id]
        BY <3>2, AppendProperties
      <3> QED BY <2>1, <2>3, <2>4, <3>3 DEF records
    <2> QED BY <2>1, <2>3, <2>4
  <1> QED BY <1>2, <1>3 DEF RecordsStay

\* Only a fenced call of a deletion takes records away.
LEMMA StepSparesSenders ==
    ASSUME Timely, DeletionInv, [DeletionNext]_deletionVars,
           NEW ref \in References, NEW id \in Matches(ref), ~registry'[ref][id],
           NEW a \in Attempts, attempt[a].pc \in Owning
    PROVE  attempt[a].rem # ref.rem
  <1>1. Typed /\ DeletionTypes
    BY DEF DeletionInv, LocksInv, JournalInv, Journal
  <1>2. ~RecordsStay BY DEF RecordsStay
  <1>3. ~(UNCHANGED registry \/ \E q \in References : CreateRecord(q))
    BY <1>1, <1>2, AddingKeepsRecords
  <1>4. CASE \E b \in Attempts : SubmitStep(b)
    <2>1. PICK b \in Attempts : SubmitStep(b) BY <1>4
    <2>2. CASE Step(b) BY <1>1, <1>3, <2>2, StepAddsRecords
    <2>3. CASE RefusedClaim(b) \/ RefusedGate(b)
      BY <1>3, <2>3 DEF RefusedClaim, RefusedGate
    <2> QED BY <2>1, <2>2, <2>3, SubmitStepCases
  <1>5. CASE Environment
    <2>1. ASSUME NEW req \in wire, Deliver(req) PROVE FALSE
      <3>1. req.ref \in References
        BY <1>1, <2>1, StateFacts DEF Requests
      <3> QED BY <1>3, <2>1, <3>1 DEF Deliver
    <2> QED BY <1>3, <1>5, <2>1
         DEF Environment, Crash, Change, Tick, ledgerVars
  <1>6. CASE \E d \in Deleters : DeleteStep(d) \/ CrashDeletion(d)
    <2>1. PICK d \in Deleters : DeleteStep(d) \/ CrashDeletion(d) BY <1>6
    <2>2. CASE DeleteEntry(d) \/ DeleteRest(d)
      <3>1. ~DeletionAt(d, "idle") /\ Fence(d)
            /\ \E refs, ids : /\ DeleteRecords(refs, ids)
                              /\ \A q \in refs : q.rem = Target(d)
        BY <1>1, <1>3, <2>2, DeleteEntryMove, DeleteRestMove
      <3>2. PICK refs, ids : /\ DeleteRecords(refs, ids)
                             /\ \A q \in refs : q.rem = Target(d)
        BY <3>1
      <3>3. ref \in refs BY <1>1, <3>2, DeletingRecords DEF Matches
      <3> QED BY <3>1, <3>2, <3>3, FenceClears
    <2>3. CASE ~(DeleteEntry(d) \/ DeleteRest(d))
      BY <1>3, <2>1, <2>3 DEF DeleteStep, ClaimDeletion, LookupEntry,
         FinalizeDeletion, ReleaseDeletion, CrashDeletion, vars
    <2> QED BY <2>2, <2>3
  <1>7. CASE UNCHANGED deletionVars BY <1>3, <1>7 DEF deletionVars, vars
  <1> QED BY <1>4, <1>5, <1>6, <1>7 DEF DeletionNext

(* assertLedgerUnchangedSinceClaim stands between every registry deletion  *)
(* and the rows: no GHG Entry disappears under an attempt that sends,      *)
(* gates or finishes for its Removal.                                      *)
THEOREM FencedDeletion ==
    ASSUME Timely
    PROVE  DeletionSpec => NoDeleteUnderSender
  <1>1. DeletionInv /\ [DeletionNext]_deletionVars =>
            [\A ref \in References :
               (\E id \in Matches(ref) : ~registry'[ref][id]) =>
                   \A a \in Attempts :
                       attempt[a].pc \in Owning =>
                           attempt[a].rem # ref.rem]_deletionVars
    BY StepSparesSenders
  <1> QED BY <1>1, DeletionInvariance, PTL DEF DeletionSpec, NoDeleteUnderSender

-----------------------------------------------------------------------------
(* What the rest of the system may rely on.                                *)

SubmittedIn(r) == \E v \in Versions(r) : ledger[r][v].status = "submitted"

\* What an observer of r sees is what its row and its versions say.
SameAccount(r) ==
    /\ present'[r] = present[r]
    /\ SubmittedIn(r)' <=> SubmittedIn(r)

PhaseOf(r) == IF ~present[r] THEN "deleted"
              ELSE IF SubmittedIn(r) THEN "submitted"
              ELSE "open"

LEMMA PhaseByRemoval == Phase = [r \in Removals |-> PhaseOf(r)]
  BY DEF Phase, PhaseOf, SubmittedIn

LEMMA PhaseByRemovalNext == Phase' = [r \in Removals |-> PhaseOf(r)']
  BY DEF Phase, PhaseOf, SubmittedIn

\* One Removal changes its phase, the others do not.
LEMMA PhaseMoves ==
    ASSUME NEW r \in Removals, \A q \in Removals \ {r} : SameAccount(q)
    PROVE  Phase' = [Phase EXCEPT ![r] = PhaseOf(r)']
  <1>1. \A q \in Removals \ {r} : PhaseOf(q)' = PhaseOf(q)
    BY DEF SameAccount, PhaseOf
  <1>2. Phase = [q \in Removals |-> PhaseOf(q)] BY PhaseByRemoval
  <1>3. Phase' = [q \in Removals |-> PhaseOf(q)'] BY PhaseByRemovalNext
  <1>4. [Phase EXCEPT ![r] = PhaseOf(r)'] =
            [q \in Removals |-> IF q = r THEN PhaseOf(r)' ELSE PhaseOf(q)]
    BY <1>2
  <1> QED BY <1>1, <1>3, <1>4

LEMMA PhaseStays ==
    ASSUME \A q \in Removals : SameAccount(q)
    PROVE  Phase' = Phase
  <1>1. \A q \in Removals : PhaseOf(q)' = PhaseOf(q)
    BY DEF SameAccount, PhaseOf
  <1> QED BY <1>1, PhaseByRemoval, PhaseByRemovalNext

\* Rows that keep their status leave the account as it was.
LEMMA SameRowsSameAccount ==
    ASSUME UNCHANGED present,
           \A q \in Removals :
               /\ Len(ledger'[q]) = Len(ledger[q])
               /\ \A v \in Versions(q) :
                    ledger'[q][v].status = ledger[q][v].status
    PROVE  \A q \in Removals : SameAccount(q)
  BY DEF SameAccount, SubmittedIn, Versions

\* Finalizing a submission is the abstract submission.
LEMMA SubmitsSubmit ==
    ASSUME Timely, DeletionInv, NEW a \in Attempts, Submits(a),
           UNCHANGED present, NEW r \in Removals, r = attempt[a].rem
    PROVE  \E batches \in SUBSET Members[r] : Accounting!Submit(r, batches)
  <1> DEFINE v == attempt[a].ver
  <1>1. Journal BY DEF DeletionInv, LocksInv, JournalInv
  <1>2. /\ r \in Removals /\ v \in Versions(r)
        /\ \A q \in Removals : Len(ledger'[q]) = Len(ledger[q])
        /\ ledger'[r][v].status = "submitted"
        /\ \A q \in Removals \ {r} : \A u \in Versions(q) :
              ledger'[q][u] = ledger[q][u]
        /\ claimed' = [b \in Batches |->
              IF b \in ClaimBatches(a) THEN r ELSE claimed[b]]
    BY <1>1, SubmitRows
  <1>3. present[r]
    BY DEF Submits, DeletionInv, OwnersPresent, PastScope, Owning, Finishing
  <1>4. \A q \in Removals \ {r} : SameAccount(q)
    BY <1>2 DEF SameAccount, SubmittedIn, Versions
  <1>5. PhaseOf(r)' = "submitted"
    <2>1. v \in 1 .. Len(ledger'[r]) BY <1>2 DEF Versions
    <2>2. \E u \in 1 .. Len(ledger'[r]) : ledger'[r][u].status = "submitted"
      BY <1>2, <2>1
    <2> QED BY <1>3, <2>2 DEF PhaseOf, SubmittedIn, Versions
  <1>6. Phase' = [Phase EXCEPT ![r] = "submitted"]
    BY <1>2, <1>4, <1>5, PhaseMoves
  <1>7. Phase[r] \in {"open", "submitted"}
    BY <1>2, <1>3, PhaseByRemoval DEF PhaseOf
  <1>8. /\ \A b \in ClaimBatches(a) : claimed[b] \in {None, r}
        /\ ClaimBatches(a) \in SUBSET Members[r]
    BY DEF Submits, CanFinalize, Submission, ClaimBatches
  <1> QED BY <1>2, <1>6, <1>7, <1>8 DEF Accounting!Submit

\* Every other step of an attempt is invisible.
LEMMA TouchedRowsSameAccount ==
    ASSUME Typed, Typed', NEW a, RowsTouched(a), UNCHANGED present
    PROVE  \A q \in Removals : SameAccount(q)
  <1> SUFFICES ASSUME NEW q \in Removals
               PROVE  SubmittedIn(q)' <=> SubmittedIn(q)
    BY DEF SameAccount
  <1>1. ASSUME SubmittedIn(q) PROVE SubmittedIn(q)'
    <2>1. PICK v \in Versions(q) : ledger[q][v].status = "submitted"
      BY <1>1 DEF SubmittedIn
    <2>2. /\ v \in 1 .. Len(ledger[q]) /\ Len(ledger'[q]) \in Nat
          /\ Len(ledger'[q]) >= Len(ledger[q]) /\ Len(ledger[q]) \in Nat
      BY <2>1, BoundsAssumption DEF RowsTouched, Versions, Typed, Bounded
    <2>3. v \in 1 .. Len(ledger'[q]) BY <2>2
    <2>4. ledger'[q][v] = ledger[q][v] BY <2>1, <2>3 DEF RowsTouched
    <2> QED BY <2>1, <2>3, <2>4 DEF SubmittedIn, Versions
  <1>2. ASSUME SubmittedIn(q)' PROVE SubmittedIn(q)
    <2>1. PICK v \in 1 .. Len(ledger'[q]) : ledger'[q][v].status = "submitted"
      BY <1>2 DEF SubmittedIn, Versions
    <2>2. v \in Versions(q) /\ ledger'[q][v] = ledger[q][v]
      BY <2>1 DEF RowsTouched
    <2> QED BY <2>1, <2>2 DEF SubmittedIn
  <1> QED BY <1>1, <1>2

\* finalizeRemovalDeletion is the abstract deletion.
LEMMA RemovedDeletes ==
    ASSUME Timely, DeletionInv, NEW d \in Deleters, NEW r \in Removals,
           Removed(d, r)
    PROVE  Accounting!Delete(r)
  <1>1. /\ \A v \in Versions(r) : ledger[r][v].status \notin FinalizedStatuses
        /\ present[r] /\ UNCHANGED claimed
    BY RemovedFacts
  <1>2. present \in [Removals -> BOOLEAN] BY DEF DeletionInv, DeletionTypes
  <1>3. ~SubmittedIn(r) BY <1>1 DEF SubmittedIn, FinalizedStatuses
  <1>4. Phase[r] = "open" BY <1>1, <1>3, PhaseByRemoval DEF PhaseOf
  <1>5. ~present'[r] /\ \A q \in Removals \ {r} : present'[q] = present[q]
    BY <1>2 DEF Removed
  <1>6. \A q \in Removals \ {r} : SameAccount(q)
    <2>1. \A q \in Removals \ {r} : ledger'[q] = ledger[q] BY DEF Removed
    <2> QED BY <1>5, <2>1 DEF SameAccount, SubmittedIn, Versions
  <1>7. PhaseOf(r)' = "deleted" BY <1>5 DEF PhaseOf
  <1>8. Phase' = [Phase EXCEPT ![r] = "deleted"] BY <1>6, <1>7, PhaseMoves
  <1> QED BY <1>1, <1>4, <1>8 DEF Accounting!Delete

\* Claims, hand-backs and registry cleanup are invisible.
LEMMA DeletionSameAccount ==
    ASSUME Timely, DeletionInv, NEW d \in Deleters,
           DeleteStep(d) \/ CrashDeletion(d), ~Removed(d, Target(d))
    PROVE  UNCHANGED claimed /\ \A q \in Removals : SameAccount(q)
  <1>1. Typed /\ DeletionTypes
    BY DEF DeletionInv, LocksInv, JournalInv, Journal
  <1>2. ASSUME NEW r \in Removals, Relocked(r), UNCHANGED <<present, claimed>>
        PROVE  UNCHANGED claimed /\ \A q \in Removals : SameAccount(q)
    BY <1>2, SameRowsSameAccount DEF Relocked, SameButLock, Versions
  <1>3. ASSUME UNCHANGED <<ledger, present, claimed>>
        PROVE  UNCHANGED claimed /\ \A q \in Removals : SameAccount(q)
    BY <1>3, SameRowsSameAccount
  <1>4. ASSUME NEW r \in Removals, ClaimDeletion(d, r)
        PROVE  Relocked(r) /\ UNCHANGED <<present, claimed>>
    BY <1>1, <1>4, ClaimRows DEF ClaimDeletion
  <1>5. CASE ReleaseDeletion(d)
    BY <1>1, <1>2, <1>3, <1>5, ReleaseRows, DeletionFacts DEF ReleaseDeletion
  <1>6. CASE DeleteEntry(d) \/ DeleteRest(d)
    BY <1>1, <1>3, <1>6, DeleteEntryMove, DeleteRestMove DEF ledgerVars
  <1>7. CASE FinalizeDeletion(d)
    BY <1>1, <1>3, <1>7, FinalizeDeletionMove DEF vars, ledgerVars
  <1>8. CASE LookupEntry(d) \/ CrashDeletion(d)
    BY <1>3, <1>8 DEF LookupEntry, CrashDeletion, vars, ledgerVars
  <1> QED BY <1>2, <1>4, <1>5, <1>6, <1>7, <1>8 DEF DeleteStep

LEMMA StepImplementsAccounting ==
    ASSUME Timely, DeletionInv, [DeletionNext]_deletionVars
    PROVE  Accounting!AccountingNext \/ (Phase' = Phase /\ UNCHANGED claimed)
  <1>1. Typed /\ RowsSound /\ Journal /\ AttemptsHeld
    BY DEF DeletionInv, LocksInv, JournalInv, Journal
  <1>2. ASSUME UNCHANGED <<ledger, present, claimed>>
        PROVE  Phase' = Phase /\ UNCHANGED claimed
    BY <1>2, SameRowsSameAccount, PhaseStays
  <1>3. ASSUME NEW a \in Attempts, SubmitStep(a)
        PROVE  Accounting!AccountingNext \/ (Phase' = Phase /\ UNCHANGED claimed)
    <2>1. CASE RefusedClaim(a) \/ RefusedGate(a)
      BY <1>2, <2>1 DEF RefusedClaim, RefusedGate, ledgerVars
    <2>2. CASE Step(a) /\ UNCHANGED present
      <3>1. CASE Submits(a)
        <4>1. attempt[a].rem \in Removals BY <1>1, TypedFacts
        <4> QED BY <2>2, <3>1, <4>1, SubmitsSubmit
                 DEF Accounting!AccountingNext
      <3>2. CASE ~Submits(a)
        <4>1. RowsTouched(a) /\ UNCHANGED claimed
          BY <1>1, <2>2, <3>2, StepTouches, StepProduction
        <4>2. Typed'
          BY <2>2, NextKeepsLocks
             DEF Next, DeletionInv, LocksInv, JournalInv, Journal
        <4> QED BY <1>1, <2>2, <4>1, <4>2, TouchedRowsSameAccount, PhaseStays
      <3> QED BY <3>1, <3>2
    <2> QED BY <1>3, <2>1, <2>2, SubmitStepCases
  <1>4. ASSUME NEW d \in Deleters, DeleteStep(d) \/ CrashDeletion(d)
        PROVE  Accounting!AccountingNext \/ (Phase' = Phase /\ UNCHANGED claimed)
    <2>1. Target(d) \in Removals BY DeletionFacts DEF DeletionInv
    <2>2. CASE Removed(d, Target(d))
      BY <2>1, <2>2, RemovedDeletes DEF Accounting!AccountingNext
    <2>3. CASE ~Removed(d, Target(d))
      BY <1>4, <2>3, DeletionSameAccount, PhaseStays
    <2> QED BY <2>2, <2>3
  <1>5. CASE Environment \/ UNCHANGED deletionVars
    BY <1>2, <1>5 DEF Environment, Crash, Deliver, Change, Tick, ledgerVars,
       deletionVars, vars
  <1> QED BY <1>3, <1>4, <1>5 DEF DeletionNext

LEMMA InitImplementsAccounting ==
    DeletionInit => Accounting!AccountingInit
  <1> SUFFICES ASSUME DeletionInit PROVE Accounting!AccountingInit OBVIOUS
  <1>1. \A r \in Removals : Versions(r) = {}
    BY EmptySeq DEF DeletionInit, Init, LedgerInit, Versions
  <1>2. \A r \in Removals : PhaseOf(r) = "open"
    BY <1>1 DEF DeletionInit, PhaseOf, SubmittedIn
  <1> QED BY <1>2, PhaseByRemoval
       DEF Accounting!AccountingInit, DeletionInit, Init, LedgerInit

(* Seen from outside, attempts, locks, versions, registry calls, leases    *)
(* and hand-backs implement the promise of RemovalAccounting: every        *)
(* Removal is open until it is submitted for good or deleted for good, and *)
(* a credit batch gets one owner, a Removal that is submitted.             *)
THEOREM DeletionImplementsAccounting ==
    ASSUME Timely
    PROVE  DeletionSpec => SubmittedOrDeleted
  <1>1. DeletionInv /\ [DeletionNext]_deletionVars =>
            [Accounting!AccountingNext]_<<Phase, claimed>>
    BY StepImplementsAccounting
  <1>2. DeletionSpec => [][Accounting!AccountingNext]_<<Phase, claimed>>
    BY <1>1, DeletionInvariance, PTL DEF DeletionSpec
  <1> QED BY <1>2, InitImplementsAccounting, PTL
       DEF DeletionSpec, SubmittedOrDeleted, Accounting!AccountingSpec,
           Accounting!accountingVars
-----------------------------------------------------------------------------
(* What is known of the GHG Entries.                                       *)

\* The GHG Entries the registry holds for version v of r.
Entries(r, v) == Matches(EntryRef(r, v))

\* One version never has two GHG Entries at a time.
EntryOnce ==
    \A r \in Removals : \A v \in 1 .. MaxVersion :
        \A i, j \in Entries(r, v) : i = j

\* An id that is known, to a row or to an attempt, leaves no other to find.
RowsKnow ==
    \A r \in Removals : \A v \in Versions(r) :
        ledger[r][v].ext # 0 => Entries(r, v) \subseteq {ledger[r][v].ext}

Knows(q) ==
    q.pc \in Owning /\ q.ext # 0 => Entries(q.rem, q.ver) \subseteq {q.ext}

AttemptsKnow == \A a \in Attempts : Knows(attempt[a])

\* What a deletion still has to look for, or to delete.
Pending(q, v, id) ==
    \/ q.pc = "lookup" /\ v \in q.unconfirmed
    \/ q.pc \in {"lookup", "entries"} /\ [ver |-> v, id |-> id] \in q.targets

\* As long as the fence of a deletion stands, nothing else is left to delete.
Clears(d) ==
    deletion[d].pc \notin {"idle", "release"} /\ Fence(d) =>
        \A v \in 1 .. MaxVersion : \A id \in Entries(Target(d), v) :
            Pending(deletion[d], v, id)

DeletersClear == \A d \in Deleters : Clears(d)

DeletedEmpty ==
    \A r \in Removals : ~present[r] =>
        \A v \in 1 .. MaxVersion : Entries(r, v) = {}

EntriesInv ==
    /\ wire = {} /\ RecordsVersioned /\ AttemptsUnsent
    /\ EntryOnce /\ RowsKnow /\ AttemptsKnow
    /\ DeletersClear /\ DeletedEmpty

-----------------------------------------------------------------------------
(* What a step of an attempt does to the GHG Entries.                      *)

EntriesShrink ==
    \A r \in Removals : \A v \in 1 .. MaxVersion :
        Entries(r, v)' \subseteq Entries(r, v)

\* The attempt creates the GHG Entry of its version, which had none.
PostsEntry(a) ==
    /\ attempt[a].pc = "post" /\ attempt[a].kind = "entry"
    /\ UNCHANGED ledger
    /\ \A r \in Removals : \A v \in 1 .. MaxVersion :
        IF r = attempt[a].rem /\ v = attempt[a].ver
          THEN Entries(r, v) = {} /\ Entries(r, v)' \subseteq {NewId(Reference(a))}
          ELSE Entries(r, v)' = Entries(r, v)

LEMMA EntryReferences ==
    ASSUME NEW r \in Removals, NEW v \in 1 .. MaxVersion
    PROVE  EntryRef(r, v) \in References
  BY DEF EntryRef, References, Kinds

LEMMA QuietEntries ==
    ASSUME UNCHANGED registry
    PROVE  EntriesShrink
  BY DEF EntriesShrink, Entries, Matches

\* A record created where none is left is the only one.
LEMMA CreatedMatches ==
    ASSUME Typed, NEW ref \in References, NoneLeft(registry[ref]),
           CreateRecord(ref)
    PROVE  Matches(ref) = {} /\ Matches(ref)' \subseteq {NewId(ref)}
  <1> DEFINE records == registry[ref]
             n == Len(records)
  <1>1. records \in Seq(BOOLEAN) /\ registry'[ref] = Append(records, TRUE)
    BY StateFacts, CreateRecordMove
  <1>2. n \in Nat /\ DOMAIN records = 1 .. n BY <1>1, LenProperties
  <1>3. \A id \in 1 .. n : ~records[id] BY <1>2 DEF NoneLeft
  <1> HIDE DEF records
  <1>4. /\ Len(Append(records, TRUE)) = n + 1
        /\ Append(records, TRUE) \in Seq(BOOLEAN)
        /\ \A id \in 1 .. n : Append(records, TRUE)[id] = records[id]
    BY <1>1, AppendedTrue
  <1>5. DOMAIN Append(records, TRUE) = 1 .. n + 1 BY <1>4, LenProperties
  <1> HIDE DEF n
  <1>6. \A id \in 1 .. n + 1 : id \in 1 .. n \/ id = n + 1 BY <1>2
  <1>7. \A id \in DOMAIN registry'[ref] : registry'[ref][id] => id = n + 1
    BY <1>1, <1>3, <1>4, <1>5, <1>6
  <1>8. \A id \in DOMAIN registry[ref] : ~registry[ref][id] BY DEF NoneLeft
  <1>9. NewId(ref) = n + 1 BY DEF NewId, n, records
  <1> QED BY <1>7, <1>8, <1>9 DEF Matches

LEMMA StepEntries ==
    ASSUME Journal, AttemptsUnsent, NEW a \in Attempts, Step(a)
    PROVE  EntriesShrink \/ PostsEntry(a)
  <1>1. Typed BY DEF Journal
  <1>2. CASE UNCHANGED registry BY <1>2, QuietEntries
  <1>3. CASE /\ attempt[a].pc = "post" /\ Reference(a) \in References
             /\ CreateRecord(Reference(a))
    <2>1. \A other \in References \ {Reference(a)} :
              registry'[other] = registry[other]
      BY <1>1, <1>3, CreateRecordMove
    <2>2. \A r \in Removals : \A v \in 1 .. MaxVersion :
              EntryRef(r, v) # Reference(a) => Entries(r, v)' = Entries(r, v)
      BY <2>1, EntryReferences DEF Entries, Matches
    <2>3. CASE attempt[a].kind # "entry"
      <3>1. \A r \in Removals : \A v \in 1 .. MaxVersion :
                EntryRef(r, v) # Reference(a)
        BY <2>3 DEF EntryRef, Reference
      <3> QED BY <2>2, <3>1 DEF EntriesShrink
    <2>4. CASE attempt[a].kind = "entry"
      <3>1. PostAnswered(a) \/ PostUnanswered(a)
        <4>1. ~UNCHANGED registry
          <5>1. /\ Len(registry'[Reference(a)]) = Len(registry[Reference(a)]) + 1
                /\ Len(registry[Reference(a)]) \in Nat
            BY <1>1, <1>3, CreateRecordMove, RecordIds, StateFacts, LenProperties
          <5> QED BY <5>1
        <4> QED BY <4>1, OnlyPostsWrite
      <3>2. UNCHANGED ledger
        BY <3>1 DEF PostAnswered, PostUnanswered, ledgerVars
      <3>3. NoneLeft(registry[Reference(a)])
        BY <1>3 DEF AttemptsUnsent, Unsent, Reference
      <3>4. PICK ref \in References : ref = Reference(a) BY <1>3
      <3>5. Matches(ref) = {} /\ Matches(ref)' \subseteq {NewId(ref)}
        BY <1>1, <1>3, <3>3, <3>4, CreatedMatches
      <3>6. ASSUME NEW r \in Removals, NEW v \in 1 .. MaxVersion
            PROVE  IF r = attempt[a].rem /\ v = attempt[a].ver
                     THEN /\ Entries(r, v) = {}
                          /\ Entries(r, v)' \subseteq {NewId(Reference(a))}
                     ELSE Entries(r, v)' = Entries(r, v)
        <4>1. EntryRef(r, v) = ref <=> r = attempt[a].rem /\ v = attempt[a].ver
          BY <2>4, <3>4 DEF EntryRef, Reference
        <4>2. EntryRef(r, v) = ref =>
                  Entries(r, v) = {} /\ Entries(r, v)' \subseteq {NewId(ref)}
          BY <3>5 DEF Entries
        <4> QED BY <2>2, <3>4, <4>1, <4>2
      <3> QED BY <1>3, <2>4, <3>2, <3>6 DEF PostsEntry
    <2> QED BY <2>3, <2>4
  <1> QED BY <1>2, <1>3, StepRecords

\* A step journals no registry id but the one its own attempt knows.
RowIdsKept(a) ==
    \A r \in Removals : \A v \in 1 .. Len(ledger'[r]) : ledger'[r][v].ext # 0 =>
        /\ v \in Versions(r)
        /\ \/ ledger'[r][v].ext = ledger[r][v].ext
           \/ /\ attempt[a].pc \in Owning /\ UNCHANGED registry
              /\ r = attempt[a].rem /\ v = attempt[a].ver
              /\ ledger'[r][v].ext = attempt[a].ext

LEMMA WriteRowIds ==
    ASSUME Journal, NEW a \in Attempts, NEW row \in Rows(Payloads),
           WriteRow(attempt[a].rem, attempt[a].ver, row),
           attempt[a].pc \in Owning \cup {"resetting"},
           \/ row.ext = Row(a).ext
           \/ /\ attempt[a].pc \in Owning /\ UNCHANGED registry
              /\ row.ext = attempt[a].ext
    PROVE  RowIdsKept(a)
  <1> DEFINE r == attempt[a].rem
             v == attempt[a].ver
  <1>1. Typed /\ r \in Removals /\ v \in Versions(r) /\ Row(a) = ledger[r][v]
    BY TypedFacts, NamedFacts DEF Journal
  <1>2. /\ \A s \in Removals : Len(ledger'[s]) = Len(ledger[s])
        /\ \A s \in Removals : \A u \in Versions(s) :
             ledger'[s][u] = IF s = r /\ u = v THEN row ELSE ledger[s][u]
    BY <1>1, WriteRowRows
  <1>3. \A s \in Removals : Versions(s) = 1 .. Len(ledger[s])
    BY <1>1, StateFacts, LenProperties DEF Versions
  <1> QED BY <1>1, <1>2, <1>3 DEF RowIdsKept

LEMMA StepRowIds ==
    ASSUME Journal, NEW a \in Attempts, Step(a)
    PROVE  RowIdsKept(a)
  <1> DEFINE r == attempt[a].rem
             v == attempt[a].ver
  <1>1. /\ Typed /\ r \in Removals /\ attempt[a].ext \in Nat
        /\ attempt[a].prev \in Nat
        /\ attempt[a].pc \in Owning \cup {"resetting"} =>
             v \in Versions(r) /\ Row(a) = ledger[r][v]
        /\ \A s \in Removals : Versions(s) = 1 .. Len(ledger[s])
    BY TypedFacts, NamedFacts, StateFacts, LenProperties DEF Journal, Versions
  <1>2. (UNCHANGED ledger) => RowIdsKept(a) BY <1>1 DEF RowIdsKept
  <1>4. CASE \/ \E s \in Removals : Load(a, s)
             \/ Route(a) \/ DecideResume(a) \/ GateStep(a) \/ ReserveClaims(a)
             \/ LookupFound(a) \/ LookupNone(a) \/ LookupFails(a)
             \/ PostAnswered(a) \/ PostRefused(a) \/ PostUnanswered(a)
             \/ Reconcile(a) \/ Verify(a) \/ FailStep(a)
    BY <1>2, <1>4, SameLedger
  <1>5. CASE CreateDraft(a)
    <2> DEFINE new == Len(ledger[r]) + 1
    <2>1. CASE UNCHANGED ledger BY <1>2, <2>1
    <2>2. CASE /\ \A s \in Removals : Len(ledger'[s]) =
                     IF s = r THEN new ELSE Len(ledger[s])
               /\ \A s \in Removals : \A u \in Versions(s) :
                     ledger'[s][u] = ledger[s][u]
               /\ ledger'[r][new].ext = 0
      <3>1. \A u \in 1 .. new : u \in Versions(r) \/ u = new
        <4>1. Len(ledger[r]) \in Nat BY <1>1, StateFacts, LenProperties
        <4> QED BY <1>1, <4>1
      <3> QED BY <1>1, <2>2, <3>1 DEF RowIdsKept
    <2>3. \/ UNCHANGED ledger
          \/ /\ \A s \in Removals : Len(ledger'[s]) =
                  IF s = r THEN new ELSE Len(ledger[s])
             /\ \A s \in Removals : \A u \in Versions(s) :
                  ledger'[s][u] = ledger[s][u]
             /\ \E prev \in Nat : ledger'[r][new] =
                  [status |-> "draft", hash |-> attempt[a].payload, ext |-> 0,
                   lockedAt |-> [by |-> a, at |-> clock], outcome |-> "none",
                   mutation |-> "unset", refresh |-> FALSE, prev |-> prev]
      BY <1>5, CreateDraftMove
    <2> HIDE DEF new
    <2>4. (\E prev \in Nat : ledger'[r][new] =
             [status |-> "draft", hash |-> attempt[a].payload, ext |-> 0,
              lockedAt |-> [by |-> a, at |-> clock], outcome |-> "none",
              mutation |-> "unset", refresh |-> FALSE, prev |-> prev])
          => ledger'[r][new].ext = 0
      OBVIOUS
    <2> QED BY ZenonT(60), <2>1, <2>2, <2>3, <2>4
  <1>6. CASE ResetDraft(a)
    <2>1. attempt[a].pc = "resetting" BY <1>6 DEF ResetDraft, Is
    <2>2. CASE CanResetToDraft(ledger[r][v], attempt[a].bypass, attempt[a].began)
      <3>1. PICK row \in Rows(Payloads) :
                WriteRow(r, v, row) /\ row.ext = ledger[r][v].ext
        BY <1>6, <2>2, ResetDraftMove
      <3> QED BY <1>1, <2>1, <3>1, WriteRowIds
    <2>3. CASE UNCHANGED ledger BY <1>2, <2>3
    <2> QED BY <1>6, <2>2, <2>3 DEF ResetDraft
  <1>7. CASE Retire(a)
    <2>1. /\ attempt[a].pc \in Owning
          /\ \/ UNCHANGED ledger
             \/ \E row \in Rows(Payloads) :
                  WriteRow(r, v, row) /\ row.ext = Row(a).ext
      BY <1>1, <1>7, RetireMove, PlaceNames
    <2> QED BY <1>2, <2>1, WriteRowIds
  <1>8. CASE Confirm(a)
    <2>1. /\ attempt[a].pc \in Owning /\ UNCHANGED registry
          /\ \/ UNCHANGED ledger
             \/ \E row \in Rows(Payloads) :
                  WriteRow(r, v, row) /\ row.ext = attempt[a].ext
      BY <1>1, <1>8, ConfirmMove, PlaceNames
    <2> QED BY <1>2, <2>1, WriteRowIds
  <1>9. CASE FinalizeSubmission(a)
    <2>1. /\ attempt[a].pc \in Owning /\ UNCHANGED registry
          /\ \/ UNCHANGED ledger
             \/ Finalize([rem |-> r, ver |-> v], attempt[a].ext,
                   attempt[a].prev, ClaimBatches(a))
      BY <1>1, <1>9, FinalizeMove, PlaceNames
    <2>2. ASSUME Finalize([rem |-> r, ver |-> v], attempt[a].ext,
                     attempt[a].prev, ClaimBatches(a))
          PROVE  RowIdsKept(a)
      <3>1. /\ \A q \in Removals : Len(ledger'[q]) = Len(ledger[q])
            /\ ledger'[r][v].ext = attempt[a].ext
            /\ \A u \in Versions(r) \ {v} : u = attempt[a].prev =>
                  ledger'[r][u].ext = ledger[r][u].ext
            /\ \A q \in Removals : \A u \in Versions(q) :
                  ~(q = r /\ u \in {v, attempt[a].prev}) =>
                      ledger'[q][u] = ledger[q][u]
        <4>1. FinalRows(r, v, attempt[a].ext, attempt[a].prev)
          BY <1>1, <2>1, <2>2, FinalRowsAre
        <4> QED BY <4>1 DEF FinalRows, SubmittedRow, SupersededRow
      <3>2. ASSUME NEW q \in Removals, NEW u \in 1 .. Len(ledger'[q])
            PROVE  u \in Versions(q)
        BY <3>1 DEF Versions
      <3>3. ASSUME NEW q \in Removals, NEW u \in Versions(q)
            PROVE  \/ ledger'[q][u].ext = ledger[q][u].ext
                   \/ q = r /\ u = v
        BY <3>1
      <3> QED BY <2>1, <3>1, <3>2, <3>3 DEF RowIdsKept
    <2> QED BY <1>2, <2>1, <2>2
  <1>10. CASE RecordFailure(a)
    <2>1. /\ attempt[a].pc \in Owning
          /\ \/ UNCHANGED ledger
             \/ \E row \in Rows(Payloads) :
                  WriteRow(r, v, row) /\ row.ext = Row(a).ext
      BY <1>1, <1>10, RecordFailureMove, PlaceNames
    <2> QED BY <1>2, <2>1, WriteRowIds
  <1> QED BY <1>4, <1>5, <1>6, <1>7, <1>8, <1>9, <1>10 DEF Step, GateStep

\* An attempt learns the id of its GHG Entry from what it claims, from a
\* lookup, or from the answer to its own POST.
LearnsId(a, q) ==
    q.pc \in Owning /\ q.ext # 0 =>
        /\ q.rem = attempt[a].rem /\ q.ver = attempt[a].ver
        /\ \/ attempt[a].pc \in Owning /\ q.ext = attempt[a].ext
           \/ /\ attempt[a].pc \in Owning /\ UNCHANGED registry
              /\ attempt[a].kind = "entry" /\ q.ext \in Matches(Reference(a))
           \/ /\ attempt[a].pc = "post" /\ attempt[a].kind = "entry"
              /\ q.ext = NewId(Reference(a))
           \/ /\ attempt[a].pc = "resetting" /\ UNCHANGED registry
              /\ q.ext = Row(a).ext

Learns(a) == \E q : attempt' = [attempt EXCEPT ![a] = q] /\ LearnsId(a, q)

LEMMA BecomesLearns ==
    ASSUME NEW a \in Attempts, attempt[a].pc \in Owning,
           NEW pc, NEW mutation, NEW prev, NEW kind, NEW ext,
           Becomes(a, pc, mutation, prev, kind, ext),
           \/ ext = attempt[a].ext
           \/ /\ UNCHANGED registry /\ attempt[a].kind = "entry"
              /\ ext \in Matches(Reference(a))
           \/ /\ attempt[a].pc = "post" /\ attempt[a].kind = "entry"
              /\ ext = NewId(Reference(a))
    PROVE  Learns(a)
  <1>1. PICK q \in Attempt :
            /\ attempt' = [attempt EXCEPT ![a] = q]
            /\ q.rem = attempt[a].rem /\ q.ver = attempt[a].ver /\ q.ext = ext
    BY DEF Becomes, SameClaim
  <1>2. LearnsId(a, q) BY <1>1 DEF LearnsId
  <1> QED BY <1>1, <1>2 DEF Learns

LEMMA ConfirmedLearns ==
    ASSUME Typed, NEW a \in Attempts, attempt[a].pc \in Owning,
           NEW id \in Nat, Confirmed(a, id),
           \/ UNCHANGED registry /\ id \in Matches(Reference(a))
           \/ attempt[a].pc = "post" /\ id = NewId(Reference(a))
    PROVE  Learns(a)
  <1>1. CASE attempt[a].kind = "entry"
    BY <1>1, ConfirmedMove, BecomesLearns
  <1>2. CASE attempt[a].kind # "entry"
    <2>1. Becomes(a, "confirm", "confirmed", attempt[a].prev, attempt[a].kind,
             attempt[a].ext)
      BY <1>2, ConfirmedMove
    <2> QED BY <2>1, BecomesLearns
  <1> QED BY <1>1, <1>2

LEMMA StepLearns ==
    ASSUME Journal, NEW a \in Attempts, Step(a)
    PROVE  Learns(a)
  <1>1. Typed /\ RowsSound /\ attempt \in [Attempts -> Attempt]
    BY StateFacts DEF Journal
  <1>2. ASSUME NEW q, attempt' = [attempt EXCEPT ![a] = q],
               q.pc \notin Owning \/ q.ext = 0
        PROVE  Learns(a)
    BY <1>2 DEF Learns, LearnsId
  <1>3. Stop(a) => Learns(a)
    <2>1. Idle.ext = 0 BY DEF Idle
    <2> QED BY <1>2, <2>1 DEF Stop
  <1>4. ASSUME NEW pc \in Steps, Goto(a, pc), attempt[a].pc \in Owning
        PROVE  Learns(a)
    BY <1>1, <1>4, GotoAdvances, BecomesLearns DEF Advances
  <1>5. Throw(a) /\ attempt[a].pc \in Owning => Learns(a)
    BY <1>4, PlaceNames DEF Throw
  <1>6. CASE Preparation(a) BY <1>2, <1>6, PreparingMove
  <1>7. CASE CreateDraft(a)
    <2>1. \/ Stop(a)
          \/ \E q \in Attempt : /\ attempt' = [attempt EXCEPT ![a] = q]
                                /\ q.ext = attempt[a].ext
      <3>1. ASSUME ~Stop(a)
            PROVE  \E q \in Attempt : /\ attempt' = [attempt EXCEPT ![a] = q]
                                      /\ q.ext = attempt[a].ext
        <4>1. PICK q \in Attempt : TakesDraft(a, q)
          BY <1>7, <3>1, CreateDraftTurn, Zenon
        <4> QED BY <4>1 DEF TakesDraft
      <3> QED BY <3>1
    <2>2. attempt[a].ext = 0
      <3>1. attempt[a].pc = "creating" BY <1>7, CreateDraftTurn
      <3>2. attempt[a].pc \notin Owning
        BY <3>1 DEF Owning, Gating, Sending, Finishing
      <3> QED BY <3>2 DEF Journal, AttemptsSound, Sound, Fresh
    <2> QED BY <1>2, <1>3, <2>1, <2>2
  <1>8. CASE ResetDraft(a)
    <2>1. attempt[a].pc = "resetting" BY <1>8 DEF ResetDraft, Is
    <2>2. CASE Stop(a) BY <1>3, <2>2
    <2>3. CASE CanResetToDraft(ledger[attempt[a].rem][attempt[a].ver],
                   attempt[a].bypass, attempt[a].began)
      <3>1. PICK q \in Attempt :
                /\ attempt' = [attempt EXCEPT ![a] = q]
                /\ q.rem = attempt[a].rem /\ q.ver = attempt[a].ver
                /\ q.ext = Row(a).ext
        BY <1>8, <2>3, ResetDraftMove DEF Row
      <3>2. UNCHANGED registry BY <1>8 DEF ResetDraft
      <3> QED BY <2>1, <3>1, <3>2 DEF Learns, LearnsId
    <2> QED BY <1>8, <2>2, <2>3 DEF ResetDraft
  <1>9. CASE GateStep(a)
    <2>1. attempt[a].pc \in Owning BY <1>9, GateMove, PlaceNames
    <2>2. \E pc \in Steps : Goto(a, pc) BY <1>9, GateMove, PlaceNames
    <2> QED BY <1>4, <2>1, <2>2
  <1>10. CASE Retire(a) \/ FailStep(a)
    <2>1. Throw(a) /\ attempt[a].pc \in Owning
      BY <1>10 DEF Retire, FailStep, Is, Owning, Gating, Sending, Finishing
    <2> QED BY <1>5, <2>1
  <1>11. CASE ReserveClaims(a)
    <2>1. attempt[a].pc \in Owning BY <1>1, <1>11, ReserveMove, PlaceNames
    <2>2. \/ Throw(a)
          \/ \E pc, prev : Becomes(a, pc, attempt[a].mutation, prev, "inputs",
                                   attempt[a].ext)
      BY <1>1, <1>11, ReserveMove
    <2> QED BY <1>5, <2>1, <2>2, BecomesLearns
  <1>12. CASE Exchange(a)
    <2>1. attempt[a].pc \in Owning BY <1>12, ExchangeMove, PlaceNames
    <2>2. Reference(a) \in References /\ Matches(Reference(a)) \subseteq Nat
          /\ NewId(Reference(a)) \in Nat
      <3>1. Reference(a) \in References BY <1>1, <2>1, NamedFacts
      <3>2. PICK ref \in References : ref = Reference(a) BY <3>1
      <3>3. registry[ref] \in Seq(BOOLEAN) BY <1>1, StateFacts
      <3>4. Len(registry[ref]) \in Nat /\ DOMAIN registry[ref] = 1 .. Len(registry[ref])
        BY <3>3, LenProperties
      <3>5. Matches(ref) \subseteq Nat /\ NewId(ref) \in Nat
        BY <3>4 DEF Matches, NewId
      <3> QED BY <3>1, <3>2, <3>5
    <2>3. CASE LookupFound(a)
      <3>1. /\ UNCHANGED registry
            /\ \E id \in Matches(Reference(a)) : Confirmed(a, id)
        BY <2>3 DEF LookupFound
      <3> QED BY <1>1, <2>1, <2>2, <3>1, ConfirmedLearns
    <2>4. CASE PostAnswered(a)
      <3>1. attempt[a].pc = "post" /\ Confirmed(a, NewId(Reference(a)))
        BY <2>4 DEF PostAnswered, Is
      <3> QED BY <1>1, <2>1, <2>2, <3>1, ConfirmedLearns
    <2>5. CASE Reconcile(a)
      <3>1. /\ UNCHANGED registry
            /\ \/ \E id \in Matches(Reference(a)) : Confirmed(a, id)
               \/ Throw(a)
        BY <2>5 DEF Reconcile
      <3> QED BY <1>1, <1>5, <2>1, <2>2, <3>1, ConfirmedLearns
    <2>6. CASE LookupNone(a) \/ PostRefused(a)
      <3>1. Goto(a, "post") \/ Goto(a, "answer")
        BY <2>6 DEF LookupNone, PostRefused
      <3> QED BY <1>4, <2>1, <3>1, PlaceNames
    <2>7. CASE LookupFails(a) \/ PostUnanswered(a)
      <3> DEFINE advanced == Advance(attempt[a].mutation, "possible")
      <3>1. advanced \in {"none", "possible", "confirmed"} 
        BY <1>1, TypedFacts DEF Advance
      <3>2. \E pc \in {"fail", "answer"} : attempt' = [attempt EXCEPT ![a] =
                [attempt[a] EXCEPT !.pc = pc, !.mutation = advanced]]
        BY <1>1, <2>7 DEF LookupFails, PostUnanswered, ThrowWith
      <3> HIDE DEF advanced
      <3>3. \E pc : Becomes(a, pc, advanced, attempt[a].prev, attempt[a].kind,
                       attempt[a].ext)
        <4>1. PICK pc \in {"fail", "answer"} : attempt' = [attempt EXCEPT ![a] =
                  [attempt[a] EXCEPT !.pc = pc, !.mutation = advanced]]
          BY <3>2
        <4>2. pc \in Steps BY PlaceNames
        <4>3. Becomes(a, pc, advanced, attempt[a].prev, attempt[a].kind,
                attempt[a].ext)
          BY <1>1, <3>1, <4>1, <4>2, MutationMove
        <4> QED BY <4>3
      <3> QED BY <2>1, <3>3, BecomesLearns
    <2> QED BY <1>12, <2>3, <2>4, <2>5, <2>6, <2>7 DEF Exchange
  <1>13. CASE Confirm(a)
    <2>1. attempt[a].pc \in Owning BY <1>1, <1>13, ConfirmMove, PlaceNames
    <2>2. \/ Throw(a)
          \/ \E pc, kind : Becomes(a, pc, attempt[a].mutation, attempt[a].prev,
                                   kind, attempt[a].ext)
      BY <1>1, <1>13, ConfirmMove DEF Advances
    <2> QED BY <1>5, <2>1, <2>2, BecomesLearns
  <1>14. CASE Verify(a)
    <2>1. attempt[a].pc \in Owning BY <1>1, <1>14, VerifyMove, PlaceNames
    <2> QED BY <1>1, <1>14, <2>1, VerifyMove, BecomesLearns
  <1>15. CASE FinalizeSubmission(a)
    <2>1. attempt[a].pc \in Owning BY <1>1, <1>15, FinalizeMove, PlaceNames
    <2>2. Throw(a) \/ Stop(a) BY <1>15 DEF FinalizeSubmission
    <2> QED BY <1>3, <1>5, <2>1, <2>2
  <1>16. CASE RecordFailure(a) BY <1>1, <1>3, <1>16, RecordFailureMove
  <1> QED BY <1>6, <1>7, <1>8, <1>9, <1>10, <1>11, <1>12, <1>13, <1>14,
       <1>15, <1>16 DEF Step, GateStep, Preparation, Exchange

LEMMA DeletedEmptyMeans == DeletedEmpty <=> DeletedLeavesNoEntry
  <1>1. \A ref \in References : ref.kind = "entry" =>
            /\ ref.rem \in Removals /\ ref.ver \in 1 .. MaxVersion
            /\ ref = EntryRef(ref.rem, ref.ver)
    BY DEF References, EntryRef
  <1>2. ASSUME NEW r \in Removals
        PROVE  (\A v \in 1 .. MaxVersion : Entries(r, v) = {})
                   <=> LiveEntries(r) = {}
    <2>1. ASSUME \A v \in 1 .. MaxVersion : Entries(r, v) = {},
                 NEW ref \in LiveEntries(r)
          PROVE  FALSE
      BY <1>1, <2>1 DEF LiveEntries, Found, Entries
    <2>2. ASSUME LiveEntries(r) = {}, NEW v \in 1 .. MaxVersion
          PROVE  Entries(r, v) = {}
      <3>1. /\ EntryRef(r, v) \in References
            /\ EntryRef(r, v).kind = "entry" /\ EntryRef(r, v).rem = r
        BY EntryReferences DEF EntryRef
      <3> QED BY <2>2, <3>1 DEF LiveEntries, Found, Entries
    <2> QED BY <2>1, <2>2
  <1> QED BY <1>2 DEF DeletedEmpty, DeletedLeavesNoEntry

-----------------------------------------------------------------------------
(* What the steps of attempts know of the GHG Entries afterwards.          *)

\* When a POST goes out, nobody else knows of an entry, or needs to.
LEMMA PosterAlone ==
    ASSUME Journal, AttemptsHeld, NEW a \in Attempts, PostsEntry(a)
    PROVE  /\ attempt[a].ext = 0 /\ attempt[a].pc \in Owning
           /\ attempt[a].ver \in Versions(attempt[a].rem)
           /\ attempt[a].ver \in 1 .. MaxVersion
           /\ Row(a).status = "draft" /\ Row(a).ext = 0
           /\ \A b \in Attempts \ {a} : attempt[b].pc \in Owning =>
                ~(attempt[b].rem = attempt[a].rem /\ attempt[b].ver = attempt[a].ver)
  <1>1. /\ attempt[a].pc = "post" /\ attempt[a].kind = "entry"
        /\ attempt[a].pc \in Owning
    BY PlaceNames DEF PostsEntry
  <1>2. /\ attempt[a].ver \in Versions(attempt[a].rem)
        /\ attempt[a].ver \in 1 .. MaxVersion
        /\ Row(a) = ledger[attempt[a].rem][attempt[a].ver]
    BY <1>1, NamedFacts DEF Journal
  <1>3. RowHeld(attempt[a], Row(a))
    BY <1>1, <1>2 DEF AttemptsHeld, KeepsLock
  <1>4. Row(a).status = "draft" /\ Row(a).lockedAt = attempt[a].stamp
    BY <1>1, <1>3 DEF RowHeld
  <1>5. Sound(a, attempt[a], ledger, registry, locker)
    BY DEF Journal, AttemptsSound
  <1>6. attempt[a].ext = 0 BY <1>1, <1>5 DEF Sound
  <1>7. Row(a).ext \in {0, attempt[a].ext}
    BY <1>1, <1>2, <1>4, <1>5 DEF Sound, Holds
  <1> QED BY <1>1, <1>2, <1>4, <1>6, <1>7, OwnRow

\* A step that only removes records leaves what is known true.
LEMMA ShrinkKnows ==
    ASSUME EntriesShrink, EntryOnce
    PROVE  /\ EntryOnce'
           /\ \A r \in Removals : \A v \in 1 .. MaxVersion :
                \A ext : Entries(r, v) \subseteq {ext} =>
                    Entries(r, v)' \subseteq {ext}
  BY DEF EntriesShrink, EntryOnce

LEMMA StepEntryOnce ==
    ASSUME Journal, AttemptsUnsent, EntryOnce, NEW a \in Attempts, Step(a)
    PROVE  EntryOnce'
  <1>1. CASE EntriesShrink BY <1>1, ShrinkKnows
  <1>2. CASE PostsEntry(a)
    <2>1. ASSUME NEW r \in Removals, NEW v \in 1 .. MaxVersion,
                 NEW i \in Entries(r, v)', NEW j \in Entries(r, v)'
          PROVE  i = j
      BY <1>2, <2>1 DEF PostsEntry, EntryOnce
    <2> QED BY <2>1 DEF EntryOnce
  <1> QED BY <1>1, <1>2, StepEntries

LEMMA StepRowsKnow ==
    ASSUME Journal, Typed', AttemptsHeld, AttemptsUnsent, RowsKnow,
           AttemptsKnow, NEW a \in Attempts, Step(a)
    PROVE  RowsKnow'
  <1> SUFFICES ASSUME NEW r \in Removals, NEW v \in 1 .. Len(ledger'[r]),
                      ledger'[r][v].ext # 0
               PROVE  Entries(r, v)' \subseteq {ledger'[r][v].ext}
    BY DEF RowsKnow, Versions
  <1>1. Typed BY DEF Journal
  <1>2. /\ v \in Versions(r)
        /\ \/ ledger'[r][v].ext = ledger[r][v].ext
           \/ /\ attempt[a].pc \in Owning /\ UNCHANGED registry
              /\ r = attempt[a].rem /\ v = attempt[a].ver
              /\ ledger'[r][v].ext = attempt[a].ext
    BY StepRowIds DEF RowIdsKept
  <1>3. v \in 1 .. MaxVersion BY <1>1, <1>2, RowFacts
  <1>4. CASE ledger'[r][v].ext = ledger[r][v].ext
    <2>1. Entries(r, v) \subseteq {ledger[r][v].ext}
      BY <1>2, <1>4 DEF RowsKnow
    <2>2. CASE EntriesShrink BY <1>3, <1>4, <2>1, <2>2 DEF EntriesShrink
    <2>3. CASE PostsEntry(a)
      <3>1. ~(r = attempt[a].rem /\ v = attempt[a].ver)
        BY <1>4, <2>3, PosterAlone DEF Row
      <3> QED BY <1>3, <1>4, <2>1, <2>3, <3>1 DEF PostsEntry
    <2> QED BY <2>2, <2>3, StepEntries
  <1>5. CASE /\ attempt[a].pc \in Owning /\ UNCHANGED registry
             /\ r = attempt[a].rem /\ v = attempt[a].ver
             /\ ledger'[r][v].ext = attempt[a].ext
    <2>1. Entries(r, v) \subseteq {attempt[a].ext}
      BY <1>5 DEF AttemptsKnow, Knows
    <2>2. Entries(r, v)' = Entries(r, v) BY <1>5 DEF Entries, Matches
    <2> QED BY <1>5, <2>1, <2>2
  <1> QED BY <1>2, <1>4, <1>5

LEMMA StepAttemptsKnow ==
    ASSUME Journal, AttemptsHeld, AttemptsUnsent, EntryOnce, RowsKnow,
           AttemptsKnow, NEW a \in Attempts, Step(a)
    PROVE  AttemptsKnow'
  <1>1. Typed /\ attempt \in [Attempts -> Attempt] BY StateFacts DEF Journal
  <1>2. PICK q : attempt' = [attempt EXCEPT ![a] = q] /\ LearnsId(a, q)
    BY StepLearns DEF Learns
  <1>3. /\ attempt'[a] = q
        /\ \A b \in Attempts \ {a} : attempt'[b] = attempt[b]
    BY <1>1, <1>2
  <1>4. \A b \in Attempts : attempt[b].pc \in Owning \cup {"resetting"} =>
            /\ attempt[b].rem \in Removals /\ attempt[b].ver \in 1 .. MaxVersion
            /\ attempt[b].ver \in Versions(attempt[b].rem)
    BY <1>1, TypedFacts, NamedFacts
  <1>5. \A b \in Attempts : Knows(attempt[b]) BY DEF AttemptsKnow
  <1>6. ASSUME NEW b \in Attempts, attempt[b].pc \in Owning,
               NEW ext, ext = attempt[b].ext, ext # 0,
               NEW r \in Removals, NEW v \in 1 .. MaxVersion,
               r = attempt[b].rem, v = attempt[b].ver
        PROVE  Entries(r, v)' \subseteq {ext}
    <2>1. Entries(r, v) \subseteq {ext} BY <1>5, <1>6 DEF Knows
    <2>2. CASE EntriesShrink BY <2>1, <2>2 DEF EntriesShrink
    <2>3. CASE PostsEntry(a)
      <3>1. ~(r = attempt[a].rem /\ v = attempt[a].ver)
        BY <1>6, <2>3, PosterAlone
      <3>2. Entries(r, v)' = Entries(r, v) BY <2>3, <3>1 DEF PostsEntry
      <3> QED BY <2>1, <3>2
    <2> QED BY <2>2, <2>3, StepEntries
  <1>7. ASSUME NEW b \in Attempts \ {a},
               attempt'[b].pc \in Owning, attempt'[b].ext # 0,
               NEW r \in Removals, NEW v \in 1 .. MaxVersion,
               r = attempt'[b].rem, v = attempt'[b].ver
        PROVE  Entries(r, v)' \subseteq {attempt'[b].ext}
    BY <1>3, <1>6, <1>7
  <1>8. ASSUME q.pc \in Owning, q.ext # 0,
               NEW r \in Removals, NEW v \in 1 .. MaxVersion,
               r = q.rem, v = q.ver
        PROVE  Entries(r, v)' \subseteq {q.ext}
    <2>1. r = attempt[a].rem /\ v = attempt[a].ver
      BY <1>2, <1>8 DEF LearnsId
    <2>2. CASE attempt[a].pc \in Owning /\ q.ext = attempt[a].ext
      BY <1>6, <1>8, <2>1, <2>2
    <2>3. CASE /\ attempt[a].pc \in Owning /\ UNCHANGED registry
               /\ attempt[a].kind = "entry" /\ q.ext \in Matches(Reference(a))
      <3>1. Reference(a) = EntryRef(r, v)
        BY <2>1, <2>3 DEF Reference, EntryRef
      <3>2. q.ext \in Entries(r, v) BY <2>3, <3>1 DEF Entries
      <3>3. Entries(r, v)' = Entries(r, v) BY <2>3 DEF Entries, Matches
      <3> QED BY <3>2, <3>3 DEF EntryOnce
    <2>4. CASE /\ attempt[a].pc = "post" /\ attempt[a].kind = "entry"
               /\ q.ext = NewId(Reference(a))
      <3>1. CASE PostsEntry(a) BY <2>1, <2>4, <3>1 DEF PostsEntry
      <3>2. CASE EntriesShrink
        <4>1. NoneLeft(registry[EntryRef(r, v)])
          BY <2>1, <2>4 DEF AttemptsUnsent, Unsent, EntryRef
        <4>2. Entries(r, v) = {} BY <4>1 DEF NoneLeft, Entries, Matches
        <4> QED BY <3>2, <4>2 DEF EntriesShrink
      <3> QED BY <3>1, <3>2, StepEntries
    <2>5. CASE /\ attempt[a].pc = "resetting" /\ UNCHANGED registry
               /\ q.ext = Row(a).ext
      <3>1. v \in Versions(r) /\ q.ext = ledger[r][v].ext
        BY <1>4, <2>1, <2>5 DEF Row
      <3>2. Entries(r, v) \subseteq {q.ext} BY <1>8, <3>1 DEF RowsKnow
      <3>3. Entries(r, v)' = Entries(r, v) BY <2>5 DEF Entries, Matches
      <3> QED BY <3>2, <3>3
    <2> QED BY <1>2, <1>8, <2>2, <2>3, <2>4, <2>5 DEF LearnsId
  <1>9. \A b \in Attempts :
            attempt'[b].pc \in Owning /\ attempt'[b].ext # 0 =>
              /\ attempt'[b].rem \in Removals
              /\ attempt'[b].ver \in 1 .. MaxVersion
    <2>1. "post" \in Owning BY PlaceNames
    <2>2. q.pc \in Owning /\ q.ext # 0 =>
              /\ attempt[a].pc \in Owning \cup {"resetting"}
              /\ q.rem = attempt[a].rem /\ q.ver = attempt[a].ver
      BY <1>2, <2>1 DEF LearnsId
    <2>3. \A b \in Attempts \ {a} : attempt'[b].pc \in Owning =>
              /\ attempt'[b].rem \in Removals
              /\ attempt'[b].ver \in 1 .. MaxVersion
      BY <1>3, <1>4
    <2> QED BY <1>3, <1>4, <2>2, <2>3
  <1>10. \A b \in Attempts : Knows(attempt[b])'
    <2> SUFFICES ASSUME NEW b \in Attempts,
                        attempt'[b].pc \in Owning, attempt'[b].ext # 0
                 PROVE  Entries(attempt[b].rem, attempt[b].ver)'
                            \subseteq {attempt'[b].ext}
      BY DEF Knows
    <2>1. PICK r \in Removals, v \in 1 .. MaxVersion :
              r = attempt'[b].rem /\ v = attempt'[b].ver
      BY <1>9
    <2>2. Entries(r, v)' \subseteq {attempt'[b].ext}
      BY <1>3, <1>7, <1>8, <2>1
    <2> QED BY <2>1, <2>2 DEF Entries, EntryRef, Matches
  <1> QED BY <1>10 DEF AttemptsKnow

\* No attempt sends for a Removal that is gone.
LEMMA StepDeletedEmpty ==
    ASSUME DeletionInv, AttemptsUnsent, DeletedEmpty, NEW a \in Attempts,
           Step(a), UNCHANGED present
    PROVE  DeletedEmpty'
  <1>1. CASE EntriesShrink BY <1>1 DEF EntriesShrink, DeletedEmpty
  <1>2. CASE PostsEntry(a)
    <2>1. attempt[a].pc = "post" BY <1>2 DEF PostsEntry
    <2>2. "post" \in PastScope
      BY DEF PastScope, Owning, Gating, Sending, Finishing
    <2>3. present[attempt[a].rem] BY <2>1, <2>2 DEF DeletionInv, OwnersPresent
    <2> QED BY <1>2, <2>3 DEF PostsEntry, DeletedEmpty
  <1> QED BY <1>1, <1>2, StepEntries DEF DeletionInv, LocksInv, JournalInv, Journal

-----------------------------------------------------------------------------
(* A fence stands only over rows nobody else writes.                       *)

LEMMA FenceStood ==
    ASSUME DeletionInv, AttemptsHeld, NEW a \in Attempts, Step(a),
           UNCHANGED <<present, lease, deletion>>,
           NEW d \in Deleters, ~DeletionAt(d, "idle"), Fence(d)'
    PROVE  Fence(d)
  <1> DEFINE stamp == deletion[d].stamp
  <1>1. Journal /\ Typed BY DEF DeletionInv, LocksInv, JournalInv, Journal
  <1>2. PICK r \in Removals : r = Target(d)
    BY DeletionFacts DEF DeletionInv
  <1>3. stamp.by = d /\ d \notin {a, Nobody}
    BY Deleting DEF DeletionInv, DeletersHandBack, HandsBack
  <1>4. /\ present[r] /\ lease[r] = stamp
        /\ Len(ledger'[r]) = Len(deletion[d].held)
        /\ \A v \in 1 .. Len(ledger'[r]) :
             /\ ledger'[r][v].status \notin FinalizedStatuses
             /\ ledger'[r][v].lockedAt = stamp
    BY <1>2 DEF Fence, Target, Versions
  <1>5. Len(ledger[r]) \in Nat /\ Versions(r) = 1 .. Len(ledger[r])
    BY <1>1, StateFacts, LenProperties DEF Versions
  <1>6. CASE RowsTouched(a)
    <2>1. /\ Len(ledger'[r]) >= Len(ledger[r])
          /\ \A v \in 1 .. Len(ledger'[r]) :
               v \in 1 .. Len(ledger[r]) /\ ledger'[r][v] = ledger[r][v]
      BY <1>3, <1>4, <1>5, <1>6 DEF RowsTouched
    <2>2. Len(ledger'[r]) \in Nat
      <3>1. deletion[d].held \in Seq(Held)
        BY DeletionFacts DEF DeletionInv
      <3> QED BY <1>4, <3>1, LenProperties
    <2>3. Len(ledger'[r]) = Len(ledger[r])
      <3>1. CASE Len(ledger'[r]) = 0 BY <1>5, <2>1, <3>1
      <3>2. CASE Len(ledger'[r]) # 0
        <4>1. Len(ledger'[r]) \in 1 .. Len(ledger'[r]) BY <2>2, <3>2
        <4> QED BY <1>5, <2>1, <2>2, <4>1
      <3> QED BY <3>1, <3>2
    <2> QED BY <1>2, <1>4, <1>5, <2>1, <2>3 DEF Fence
  <1>7. CASE Submits(a)
    <2>1. r # attempt[a].rem
      <3>1. "submitted" \in FinalizedStatuses BY DEF FinalizedStatuses
      <3> QED BY <1>1, <1>4, <1>5, <1>7, <3>1, SubmitRows
    <2>2. /\ Len(ledger'[r]) = Len(ledger[r])
          /\ \A v \in Versions(r) : ledger'[r][v] = ledger[r][v]
      BY <1>1, <1>7, <2>1, SubmitRows
    <2> QED BY <1>2, <1>4, <1>5, <2>2 DEF Fence
  <1> QED BY <1>1, <1>6, <1>7, StepTouches

LEMMA StepDeletersClear ==
    ASSUME Timely, DeletionInv, AttemptsUnsent, DeletersClear,
           NEW a \in Attempts, Step(a), UNCHANGED <<present, lease, deletion>>
    PROVE  DeletersClear'
  <1>1. Journal /\ AttemptsHeld
    BY DEF DeletionInv, LocksInv, JournalInv, Journal
  <1> SUFFICES ASSUME NEW d \in Deleters,
                      deletion[d].pc \notin {"idle", "release"}, Fence(d)',
                      NEW r \in Removals, r = Target(d),
                      NEW v \in 1 .. MaxVersion, NEW id \in Entries(r, v)'
               PROVE  Pending(deletion[d], v, id)
    <2>1. \A d \in Deleters : Target(d) \in Removals
      BY DeletionFacts DEF DeletionInv
    <2> QED BY <2>1 DEF DeletersClear, Clears, Target, Entries, EntryRef, Matches
  <1>2. Fence(d) BY <1>1, FenceStood DEF DeletionAt
  <1>3. id \in Entries(r, v)
    <2>1. CASE EntriesShrink BY <2>1 DEF EntriesShrink
    <2>2. CASE PostsEntry(a)
      <3>1. attempt[a].pc \in Owning BY <2>2, PlaceNames DEF PostsEntry
      <3>2. r # attempt[a].rem BY <1>2, <3>1, FenceClears DEF DeletionAt
      <3> QED BY <2>2, <3>2 DEF PostsEntry
    <2> QED BY <1>1, <2>1, <2>2, StepEntries
  <1> QED BY <1>2, <1>3 DEF DeletersClear, Clears

LEMMA StepKeepsEntries ==
    ASSUME Timely, ~LateRequests, DeletionInv, DeletionInv', EntriesInv,
           NEW a \in Attempts, Step(a), UNCHANGED <<present, lease, deletion>>
    PROVE  EntriesInv'
  <1>1. Journal /\ Typed' /\ AttemptsHeld
    BY DEF DeletionInv, LocksInv, JournalInv, Journal
  <1>2. UNCHANGED wire BY <1>1, StepWire
  <1>3. RecordsVersioned' /\ AttemptsUnsent'
    BY <1>1, StepVersioned, StepUnsent DEF EntriesInv
  <1>4. EntryOnce' /\ RowsKnow' /\ AttemptsKnow'
    BY <1>1, StepEntryOnce, StepRowsKnow, StepAttemptsKnow DEF EntriesInv
  <1>5. DeletersClear' /\ DeletedEmpty'
    BY StepDeletersClear, StepDeletedEmpty DEF EntriesInv
  <1> QED BY <1>2, <1>3, <1>4, <1>5 DEF EntriesInv

-----------------------------------------------------------------------------
(* The steps of deletions.                                                 *)

\* A deletion journals no id, inserts no row, and creates no record.
Cleans ==
    /\ UNCHANGED <<attempt, wire>>
    /\ \A r \in Removals :
        /\ Len(ledger'[r]) = Len(ledger[r])
        /\ \A v \in Versions(r) : ledger'[r][v].ext = ledger[r][v].ext
    /\ UNCHANGED registry \/ \E refs, ids : DeleteRecords(refs, ids)

LEMMA NoneStaysLeft ==
    ASSUME Typed, Cleans, NEW ref \in References
    PROVE  /\ NoneLeft(registry[ref]) => NoneLeft(registry'[ref])
           /\ registry[ref] = << >> => registry'[ref] = << >>
           /\ Matches(ref)' \subseteq Matches(ref)
  <1>1. CASE UNCHANGED registry BY <1>1 DEF Matches
  <1>2. CASE \E refs, ids : DeleteRecords(refs, ids)
    <2>1. /\ registry'[ref] \in Seq(BOOLEAN)
          /\ DOMAIN registry'[ref] = DOMAIN registry[ref]
          /\ \A id \in DOMAIN registry[ref] :
               registry'[ref][id] => registry[ref][id]
      BY <1>2, DeletingRecords
    <2>2. ASSUME registry[ref] = << >> PROVE registry'[ref] = << >>
      <3>1. DOMAIN registry'[ref] = {} BY <2>1, <2>2
      <3>2. /\ Len(registry'[ref]) \in Nat
            /\ DOMAIN registry'[ref] = 1 .. Len(registry'[ref])
        BY <2>1, LenProperties
      <3>3. Len(registry'[ref]) = 0
        <4>1. ASSUME NEW n \in Nat, 1 .. n = {} PROVE n = 0 BY <4>1
        <4> QED BY <3>1, <3>2, <4>1
      <3> QED BY <2>1, <3>3, EmptySeq
    <2> QED BY <2>1, <2>2 DEF NoneLeft, Matches
  <1> QED BY <1>1, <1>2 DEF Cleans

LEMMA CleaningShrinks ==
    ASSUME Typed, Cleans
    PROVE  EntriesShrink
  BY NoneStaysLeft, EntryReferences DEF EntriesShrink, Entries

LEMMA CleaningKnows ==
    ASSUME Typed, EntriesInv, Cleans
    PROVE  /\ wire' = {} /\ RecordsVersioned' /\ AttemptsUnsent'
           /\ EntryOnce' /\ RowsKnow' /\ AttemptsKnow'
  <1>1. EntriesShrink BY CleaningShrinks
  <1>2. wire' = {} BY DEF EntriesInv, Cleans
  <1>3. \A r \in Removals : Versions(r)' = Versions(r)
    BY DEF Cleans, Versions
  <1>4. RecordsVersioned'
    <2>1. \A ref \in References : ref.rem \in Removals BY DEF References
    <2>2. ASSUME NEW ref \in References, ref.ver \notin Versions(ref.rem)'
          PROVE  registry'[ref] = << >>
      <3>1. registry[ref] = << >>
        BY <1>3, <2>1, <2>2 DEF EntriesInv, RecordsVersioned
      <3> QED BY <3>1, NoneStaysLeft
    <2> QED BY <2>2 DEF RecordsVersioned
  <1>5. AttemptsUnsent'
    <2>1. ASSUME NEW b \in Attempts, attempt[b].pc \in Owning, NEW k \in Kinds,
                 NEW ref, ref = [kind |-> k, rem |-> attempt[b].rem,
                                 ver |-> attempt[b].ver]
          PROVE  NoneLeft(registry[ref]) => NoneLeft(registry'[ref])
      <3>1. ref \in References
        BY <2>1, TypedFacts, NamedFacts DEF References
      <3> QED BY <3>1, NoneStaysLeft
    <2>2. /\ Gating \subseteq Owning /\ Sending \subseteq Owning
          /\ "post" \in Owning /\ "inputs" \in Kinds /\ "entry" \in Kinds
      BY DEF Owning, Sending, Kinds
    <2>3. ASSUME NEW b \in Attempts PROVE Unsent(attempt[b], registry')
      <3>1. attempt[b].kind \in Kinds BY TypedFacts
      <3>2. Unsent(attempt[b], registry) BY DEF EntriesInv, AttemptsUnsent
      <3> QED BY <2>1, <2>2, <3>1, <3>2 DEF Unsent
    <2> QED BY <2>3 DEF AttemptsUnsent, Cleans
  <1>6. EntryOnce' BY <1>1, ShrinkKnows DEF EntriesInv
  <1>7. RowsKnow'
    <2>1. ASSUME NEW r \in Removals, NEW v \in Versions(r),
                 ledger[r][v].ext # 0
          PROVE  Entries(r, v)' \subseteq {ledger[r][v].ext}
      <3>1. v \in 1 .. MaxVersion BY RowFacts
      <3> QED BY <1>1, <2>1, <3>1 DEF EntriesShrink, EntriesInv, RowsKnow
    <2> QED BY <1>3, <2>1 DEF RowsKnow, Cleans
  <1>8. AttemptsKnow'
    <2>1. ASSUME NEW b \in Attempts,
                 attempt'[b].pc \in Owning, attempt'[b].ext # 0
          PROVE  Entries(attempt[b].rem, attempt[b].ver)'
                     \subseteq {attempt'[b].ext}
      <3>1. attempt' = attempt BY DEF Cleans
      <3>2. PICK r \in Removals, v \in 1 .. MaxVersion :
                r = attempt[b].rem /\ v = attempt[b].ver
        BY <2>1, <3>1, TypedFacts, NamedFacts
      <3>3. Entries(r, v) \subseteq {attempt[b].ext}
        BY <2>1, <3>1, <3>2 DEF EntriesInv, AttemptsKnow, Knows
      <3>4. Entries(r, v)' \subseteq {attempt[b].ext}
        BY <1>1, <3>3 DEF EntriesShrink
      <3> QED BY <3>1, <3>2, <3>4 DEF Entries, EntryRef, Matches
    <2> QED BY <2>1 DEF AttemptsKnow, Knows
  <1> QED BY <1>2, <1>4, <1>5, <1>6, <1>7, <1>8

\* A deletion that does not move stays clear while its fence does.
LEMMA OthersStayClear ==
    ASSUME DeletionInv, EntriesShrink, NEW e \in Deleters, Clears(e),
           deletion'[e] = deletion[e],
           deletion[e].pc \notin {"idle", "release"} /\ Fence(e)' => Fence(e)
    PROVE  Clears(e)'
  <1>1. PICK r \in Removals : r = Target(e)
    BY DeletionFacts DEF DeletionInv
  <1> SUFFICES ASSUME deletion[e].pc \notin {"idle", "release"}, Fence(e)',
                      NEW v \in 1 .. MaxVersion, NEW id \in Entries(r, v)'
               PROVE  Pending(deletion[e], v, id)
    BY <1>1 DEF Clears, Target, Entries, EntryRef, Matches, Pending
  <1>2. id \in Entries(r, v) BY DEF EntriesShrink
  <1> QED BY <1>1, <1>2 DEF Clears

\* A fence that stands on the same Removal, lease and rows stood before.
LEMMA SameFence ==
    ASSUME DeletionInv, NEW e \in Deleters, deletion'[e] = deletion[e],
           ~DeletionAt(e, "idle"),
           LET r == Target(e)
           IN  \/ present'[r] = FALSE \/ lease'[r] # deletion[e].stamp
               \/ /\ ledger'[r] = ledger[r] /\ lease'[r] = lease[r]
                  /\ present'[r] = present[r],
           Fence(e)'
    PROVE  Fence(e)
  BY DEF Fence, Target, Versions

\* The deleting processes that do not move, when one at a Removal r does.
LEMMA OthersClear ==
    ASSUME DeletionInv, EntriesInv, Cleans, NEW d \in Deleters,
           NEW r \in Removals, NEW q, deletion' = [deletion EXCEPT ![d] = q],
           \/ UNCHANGED <<ledger, present, lease>>
           \/ /\ \A s \in Removals \ {r} :
                   /\ ledger'[s] = ledger[s] /\ lease'[s] = lease[s]
                   /\ present'[s] = present[s]
              /\ \/ present'[r] = FALSE
                 \/ lease'[r] = NoLock \/ lease'[r].by = d
    PROVE  \A e \in Deleters \ {d} : Clears(e)'
  <1> SUFFICES ASSUME NEW e \in Deleters \ {d} PROVE Clears(e)' OBVIOUS
  <1>1. Typed BY DEF DeletionInv, LocksInv, JournalInv, Journal
  <1>2. deletion'[e] = deletion[e] BY DEF DeletionInv, DeletionTypes
  <1>3. Target(e) \in Removals BY DeletionFacts DEF DeletionInv
  <1>4. ASSUME ~DeletionAt(e, "idle"), Fence(e)' PROVE Fence(e)
    <2>1. deletion[e].stamp.by = e
      BY <1>4 DEF DeletionInv, DeletersHandBack, HandsBack
    <2>2. NoLock.by # e BY Deleting DEF NoLock
    <2>3. lease'[Target(e)] = NoLock \/ lease'[Target(e)].by = d =>
              lease'[Target(e)] # deletion[e].stamp
      BY <2>1, <2>2
    <2>4. \/ present'[Target(e)] = FALSE
          \/ lease'[Target(e)] # deletion[e].stamp
          \/ /\ ledger'[Target(e)] = ledger[Target(e)]
             /\ lease'[Target(e)] = lease[Target(e)]
             /\ present'[Target(e)] = present[Target(e)]
      BY <1>3, <2>3
    <2> QED BY <1>2, <1>4, <2>4, SameFence
  <1>5. EntriesShrink BY <1>1, CleaningShrinks
  <1>6. Clears(e) BY DEF EntriesInv, DeletersClear
  <1> QED BY <1>2, <1>4, <1>5, <1>6, OthersStayClear DEF DeletionAt

LEMMA ClaimKeepsEntries ==
    ASSUME DeletionInv, EntriesInv, NEW d \in Deleters, NEW r \in Removals,
           ClaimDeletion(d, r)
    PROVE  EntriesInv'
  <1>1. Typed BY DEF DeletionInv, LocksInv, JournalInv, Journal
  <1>2. /\ UNCHANGED <<attempt, registry, wire, present>>
        /\ lease' = [lease EXCEPT ![r] = [by |-> d, at |-> clock]]
    BY DEF ClaimDeletion
  <1>3. Relocked(r) BY <1>1, ClaimRows
  <1>4. Cleans
    <2>1. \A s \in Removals : \A v \in Versions(s) :
              ledger'[s][v].ext = ledger[s][v].ext
      BY <1>3 DEF Relocked, SameButLock
    <2> QED BY <1>2, <1>3, <2>1 DEF Cleans, Relocked
  <1>5. PICK q \in Deletion : deletion' = [deletion EXCEPT ![d] = q] /\ q.rem = r
    <2>1. DeletionTypes BY DEF DeletionInv
    <2>2. \E q \in Deletion :
            /\ deletion' = [deletion EXCEPT ![d] = q]
            /\ q.pc # "idle" /\ q.rem = r
            /\ q.stamp = [by |-> d, at |-> clock]
            /\ q.held = [v \in Versions(r) |-> Remembered(ledger[r][v])]
      BY <1>1, <2>1, ClaimMove
    <2> QED BY <2>2
  <1>6. /\ lease \in [Removals -> Locks]
        /\ deletion \in [Deleters -> Deletion]
    BY DEF DeletionInv, DeletionTypes
  <1>7. \A e \in Deleters \ {d} : Clears(e)'
    <2>1. lease'[r].by = d BY <1>2, <1>6
    <2>2. \A s \in Removals \ {r} :
              /\ ledger'[s] = ledger[s] /\ lease'[s] = lease[s]
              /\ present'[s] = present[s]
      BY <1>2, <1>3, <1>6 DEF Relocked
    <2> QED BY <1>4, <1>5, <2>1, <2>2, OthersClear
  <1>8. Clears(d)'
    <2> DEFINE rows == ledger[r]
               known == {u \in DOMAIN rows : rows[u].ext # 0}
    <2>1. deletion'[d] = q BY <1>5, <1>6
    <2>2. /\ q.pc = IF rows = << >> THEN "finalize" ELSE "lookup"
          /\ q.unconfirmed = {v \in DOMAIN rows : rows[v].ext = 0}
          /\ q.targets = {[ver |-> v, id |-> rows[v].ext] : v \in known}
      BY <1>6, <2>1 DEF ClaimDeletion
    <2>3. DOMAIN rows = Versions(r) /\ (rows = << >> => Versions(r) = {})
      BY <1>1, StateFacts, LenProperties, EmptySeq DEF Versions
    <2>4. ASSUME NEW v \in 1 .. MaxVersion, NEW id \in Entries(r, v)
          PROVE  Pending(q, v, id)
      <3>1. EntryRef(r, v) \in References
            /\ EntryRef(r, v).rem = r /\ EntryRef(r, v).ver = v
        BY EntryReferences DEF EntryRef
      <3>2. registry[EntryRef(r, v)] # << >>
        BY EmptySeq DEF Entries, Matches
      <3>3. v \in Versions(r)
        BY <3>1, <3>2 DEF EntriesInv, RecordsVersioned
      <3>4. q.pc = "lookup" BY <2>2, <2>3, <3>3
      <3>5. CASE rows[v].ext = 0 BY <2>2, <2>3, <3>3, <3>4, <3>5 DEF Pending
      <3>6. CASE rows[v].ext # 0
        <4>1. id = rows[v].ext BY <3>3, <3>6 DEF EntriesInv, RowsKnow
        <4> QED BY <2>2, <2>3, <3>3, <3>4, <3>6, <4>1 DEF Pending
      <3> QED BY <3>5, <3>6
    <2>5. \A v \in 1 .. MaxVersion : Entries(r, v)' = Entries(r, v)
      BY <1>2 DEF Entries, Matches
    <2> QED BY <1>5, <2>1, <2>4, <2>5
         DEF Clears, Target, Entries, EntryRef, Matches, Pending
  <1>9. DeletersClear' BY <1>7, <1>8 DEF DeletersClear
  <1>10. DeletedEmpty'
    BY <1>2 DEF EntriesInv, DeletedEmpty, Entries, Matches
  <1> QED BY <1>1, <1>4, <1>9, <1>10, CleaningKnows DEF EntriesInv

\* A step that only looks up, deletes or gives up keeps pending what is left.
LEMMA CleanupKeepsEntries ==
    ASSUME DeletionInv, EntriesInv, NEW d \in Deleters,
           NEW r \in Removals, r = Target(d), NEW q,
           UNCHANGED <<ledger, attempt, wire, present, lease>>,
           UNCHANGED registry \/ \E refs, ids : DeleteRecords(refs, ids),
           deletion' = [deletion EXCEPT ![d] = q],
           \/ q.pc \in {"idle", "release"}
           \/ /\ q.rem = deletion[d].rem /\ q.stamp = deletion[d].stamp
              /\ q.held = deletion[d].held
              /\ deletion[d].pc \notin {"idle", "release"}
              /\ \A v \in 1 .. MaxVersion :
                   \A id \in Entries(r, v) \cap Entries(r, v)' :
                     Pending(deletion[d], v, id) => Pending(q, v, id)
    PROVE  EntriesInv'
  <1>1. Typed BY DEF DeletionInv, LocksInv, JournalInv, Journal
  <1>2. Cleans BY DEF Cleans
  <1>3. deletion'[d] = q BY DEF DeletionInv, DeletionTypes
  <1>4. \A e \in Deleters \ {d} : Clears(e)' BY <1>2, OthersClear
  <1>5. Clears(d)'
    <2> SUFFICES ASSUME q.pc \notin {"idle", "release"}, Fence(d)',
                        q.rem = r,
                        NEW v \in 1 .. MaxVersion, NEW id \in Entries(r, v)'
                 PROVE  Pending(q, v, id)
      BY <1>3 DEF Clears, Target, Entries, EntryRef, Matches, Pending
    <2>1. Fence(d)
      <3>1. /\ q.rem = deletion[d].rem /\ q.stamp = deletion[d].stamp
            /\ q.held = deletion[d].held
        OBVIOUS
      <3>2. Target(d) = r /\ Target(d)' = r BY <1>3 DEF Target
      <3>3. /\ present[r] /\ lease[r] = q.stamp
            /\ Len(ledger[r]) = Len(q.held)
            /\ \A u \in 1 .. Len(ledger[r]) :
                 /\ ledger[r][u].status \notin FinalizedStatuses
                 /\ ledger[r][u].lockedAt = q.stamp
        BY <1>3, <3>2 DEF Fence, Versions
      <3> QED BY <3>1, <3>2, <3>3 DEF Fence, Versions
    <2>2. id \in Entries(r, v) BY <1>1, <1>2, CleaningShrinks DEF EntriesShrink
    <2>3. Clears(d) BY DEF EntriesInv, DeletersClear
    <2> QED BY <2>1, <2>2, <2>3 DEF Clears
  <1>6. DeletersClear' BY <1>4, <1>5 DEF DeletersClear
  <1>7. DeletedEmpty'
    <2>1. EntriesShrink BY <1>1, <1>2, CleaningShrinks
    <2> QED BY <2>1 DEF EntriesShrink, EntriesInv, DeletedEmpty
  <1> QED BY <1>1, <1>2, <1>6, <1>7, CleaningKnows DEF EntriesInv

\* A claim given up, or a deletion that ends, has nothing to keep pending.
LEMMA AbandonedKeepsEntries ==
    ASSUME DeletionInv, EntriesInv, NEW d \in Deleters,
           UNCHANGED <<ledger, attempt, wire, present, lease>>,
           UNCHANGED registry \/ \E refs, ids : DeleteRecords(refs, ids),
           \/ AbandonCleanup(d)
           \/ deletion' = [deletion EXCEPT ![d] = NoDeletion]
    PROVE  EntriesInv'
  <1>1. Target(d) \in Removals /\ deletion[d] \in Deletion
    BY DeletionFacts DEF DeletionInv
  <1> DEFINE given == [deletion[d] EXCEPT !.pc = "release"]
  <1>2. \/ deletion' = [deletion EXCEPT ![d] = given]
        \/ deletion' = [deletion EXCEPT ![d] = NoDeletion]
    BY DEF AbandonCleanup, DeletionGoto, DeletionInv, DeletionTypes
  <1>3. given.pc = "release" /\ NoDeletion.pc = "idle"
    BY <1>1 DEF Deletion, NoDeletion
  <1> HIDE DEF given
  <1> QED BY <1>1, <1>2, <1>3, CleanupKeepsEntries

LEMMA LookupKeepsEntries ==
    ASSUME DeletionInv, EntriesInv, NEW d \in Deleters, LookupEntry(d)
    PROVE  EntriesInv'
  <1>1. /\ deletion[d].pc = "lookup"
        /\ UNCHANGED <<ledger, attempt, wire, present, lease, registry>>
    BY DEF LookupEntry, DeletionAt, vars
  <1>2. /\ deletion[d] \in Deletion /\ deletion \in [Deleters -> Deletion]
        /\ Target(d) \in Removals
    BY DeletionFacts DEF DeletionInv, DeletionTypes
  <1>3. PICK r \in Removals : r = Target(d) BY <1>2
  <1>4. CASE AbandonCleanup(d) BY <1>1, <1>4, AbandonedKeepsEntries
  <1>5. CASE deletion[d].unconfirmed = {} /\ DeletionGoto(d, "entries")
    <2> DEFINE q == [deletion[d] EXCEPT !.pc = "entries"]
    <2>1. deletion' = [deletion EXCEPT ![d] = q]
      BY <1>2, <1>5 DEF DeletionGoto
    <2>2. /\ q.pc = "entries" /\ q.targets = deletion[d].targets
          /\ q.rem = deletion[d].rem /\ q.stamp = deletion[d].stamp
          /\ q.held = deletion[d].held
      BY <1>2 DEF Deletion
    <2> HIDE DEF q
    <2>3. \A v, id : Pending(deletion[d], v, id) => Pending(q, v, id)
      BY <1>5, <2>2 DEF Pending
    <2> QED BY <1>1, <1>3, <2>1, <2>2, <2>3, CleanupKeepsEntries
  <1>6. ASSUME NEW v \in deletion[d].unconfirmed,
               NEW found, found = {[ver |-> v, id |-> id] : id \in Entries(r, v)},
               NEW targets \in IF found = {} THEN {{}} ELSE {{t} : t \in found},
               deletion' = [deletion EXCEPT
                   ![d].unconfirmed = @ \ {v}, ![d].targets = @ \cup targets]
        PROVE  EntriesInv'
    <2> DEFINE less == deletion[d].unconfirmed \ {v}
               more == deletion[d].targets \cup targets
               q == [deletion[d] EXCEPT !.unconfirmed = less, !.targets = more]
    <2>1. deletion' = [deletion EXCEPT ![d] = q] BY <1>2, <1>6
    <2>2. v \in 1 .. MaxVersion BY <1>2 DEF Deletion
    <2> HIDE DEF less, more
    <2>3. /\ q.pc = "lookup" /\ q.unconfirmed = less /\ q.targets = more
          /\ q.rem = deletion[d].rem /\ q.stamp = deletion[d].stamp
          /\ q.held = deletion[d].held
      BY <1>1, <1>2 DEF Deletion
    <2> HIDE DEF q
    <2>4. ASSUME NEW u \in 1 .. MaxVersion, NEW id \in Entries(r, u),
                 Pending(deletion[d], u, id)
          PROVE  Pending(q, u, id)
      <3>1. CASE [ver |-> u, id |-> id] \in deletion[d].targets
        BY <2>3, <3>1 DEF Pending, more
      <3>2. CASE u \in deletion[d].unconfirmed /\ u # v
        BY <2>3, <3>2 DEF Pending, less
      <3>3. CASE u = v
        <4>1. [ver |-> v, id |-> id] \in found BY <1>6, <2>4, <3>3
        <4>2. \A t \in found : t = [ver |-> v, id |-> id]
          BY <1>6, <2>2, <2>4, <3>3 DEF EntriesInv, EntryOnce
        <4>3. [ver |-> v, id |-> id] \in targets BY <1>6, <4>1, <4>2
        <4> QED BY <2>3, <3>3, <4>3 DEF Pending, more
      <3> QED BY <1>1, <2>4, <3>1, <3>2, <3>3 DEF Pending
    <2> QED BY <1>1, <1>3, <2>1, <2>3, <2>4, CleanupKeepsEntries
  <1>7. \A v : EntryRef(Target(d), v) = EntryRef(r, v) BY <1>3
  <1> QED BY <1>3, <1>4, <1>5, <1>6, <1>7 DEF LookupEntry, Entries

LEMMA DeleteEntryKeepsEntries ==
    ASSUME DeletionInv, EntriesInv, NEW d \in Deleters, DeleteEntry(d)
    PROVE  EntriesInv'
  <1>1. /\ deletion[d].pc = "entries"
        /\ UNCHANGED <<ledger, attempt, wire, present, lease>>
    BY DEF DeleteEntry, DeletionAt, ledgerVars
  <1>2. /\ deletion[d] \in Deletion /\ deletion \in [Deleters -> Deletion]
        /\ Target(d) \in Removals
        /\ Typed
    BY DeletionFacts
       DEF DeletionInv, DeletionTypes, LocksInv, JournalInv, Journal
  <1>3. PICK r \in Removals : r = Target(d) BY <1>2
  <1>4. CASE /\ AbandonCleanup(d)
             /\ UNCHANGED registry \/ \E refs, ids : DeleteRecords(refs, ids)
    BY <1>1, <1>4, AbandonedKeepsEntries
  <1>5. CASE /\ deletion[d].targets = {} /\ DeletionGoto(d, "rest")
             /\ UNCHANGED registry
    <2> DEFINE q == [deletion[d] EXCEPT !.pc = "rest"]
    <2>1. deletion' = [deletion EXCEPT ![d] = q]
      BY <1>2, <1>5 DEF DeletionGoto
    <2>2. /\ q.rem = deletion[d].rem /\ q.stamp = deletion[d].stamp
          /\ q.held = deletion[d].held
      BY <1>2 DEF Deletion
    <2> HIDE DEF q
    <2>3. \A v, id : ~Pending(deletion[d], v, id)
      BY <1>1, <1>5 DEF Pending
    <2> QED BY <1>1, <1>3, <1>5, <2>1, <2>2, <2>3, CleanupKeepsEntries
  <1>6. ASSUME NEW t \in deletion[d].targets,
               DeleteRecords({EntryRef(r, t.ver)}, {t.id}),
               deletion' = [deletion EXCEPT ![d] =
                   [deletion[d] EXCEPT !.targets = @ \ {t}]]
        PROVE  EntriesInv'
    <2> DEFINE rest == deletion[d].targets \ {t}
               q == [deletion[d] EXCEPT !.targets = rest]
    <2>1. deletion' = [deletion EXCEPT ![d] = q] BY <1>2, <1>6
    <2> HIDE DEF rest
    <2>2. /\ q.pc = "entries" /\ q.targets = rest
          /\ q.rem = deletion[d].rem /\ q.stamp = deletion[d].stamp
          /\ q.held = deletion[d].held
      BY <1>1, <1>2 DEF Deletion
    <2> HIDE DEF q
    <2>3. ASSUME NEW v \in 1 .. MaxVersion,
                 NEW id \in Entries(r, v) \cap Entries(r, v)',
                 Pending(deletion[d], v, id)
          PROVE  Pending(q, v, id)
      <3>1. [ver |-> v, id |-> id] \in deletion[d].targets
        BY <1>1, <2>3 DEF Pending
      <3>2. [ver |-> v, id |-> id] # t
        <4>1. SUFFICES ASSUME [ver |-> v, id |-> id] = t PROVE FALSE OBVIOUS
        <4>2. t.ver = v /\ t.id = id BY <4>1
        <4>3. EntryRef(r, v) \in References BY EntryReferences
        <4>4. id \in DOMAIN registry[EntryRef(r, v)]
          BY <2>3 DEF Entries, Matches
        <4>5. ~registry'[EntryRef(r, v)][id]
          BY <1>2, <1>6, <4>2, <4>3, <4>4, DeletingRecords
        <4> QED BY <2>3, <4>5 DEF Entries, Matches, EntryRef
      <3> QED BY <2>2, <3>1, <3>2 DEF Pending, rest
    <2> QED BY <1>1, <1>3, <1>6, <2>1, <2>2, <2>3, CleanupKeepsEntries
  <1> QED BY <1>3, <1>4, <1>5, <1>6 DEF DeleteEntry, RegistryDelete

LEMMA DeleteRestKeepsEntries ==
    ASSUME DeletionInv, EntriesInv, NEW d \in Deleters, DeleteRest(d)
    PROVE  EntriesInv'
  <1>1. /\ deletion[d].pc = "rest"
        /\ UNCHANGED <<ledger, attempt, wire, present, lease>>
    BY DEF DeleteRest, DeletionAt, ledgerVars
  <1>2. /\ deletion[d] \in Deletion /\ deletion \in [Deleters -> Deletion]
        /\ Target(d) \in Removals
    BY DeletionFacts DEF DeletionInv, DeletionTypes
  <1>3. CASE /\ AbandonCleanup(d)
             /\ UNCHANGED registry \/ \E refs, ids : DeleteRecords(refs, ids)
    BY <1>1, <1>3, AbandonedKeepsEntries
  <1>4. ASSUME NEW refs, NEW ids, DeleteRecords(refs, ids),
               deletion' = [deletion EXCEPT ![d] =
                   [deletion[d] EXCEPT !.pc = "finalize"]]
        PROVE  EntriesInv'
    <2> DEFINE q == [deletion[d] EXCEPT !.pc = "finalize"]
    <2>1. /\ q.rem = deletion[d].rem /\ q.stamp = deletion[d].stamp
          /\ q.held = deletion[d].held
      BY <1>2 DEF Deletion
    <2>2. deletion' = [deletion EXCEPT ![d] = q] BY <1>4
    <2> HIDE DEF q
    <2>3. \A v, id : ~Pending(deletion[d], v, id) BY <1>1 DEF Pending
    <2> QED BY <1>1, <1>2, <1>4, <2>1, <2>2, <2>3, CleanupKeepsEntries
  <1> QED BY <1>3, <1>4 DEF DeleteRest, RegistryDelete

\* Behind the fence of a cleanup that is done, no entry is left to delete.
LEMMA FinalizeKeepsEntries ==
    ASSUME DeletionInv, EntriesInv, NEW d \in Deleters, FinalizeDeletion(d)
    PROVE  EntriesInv'
  <1>1. Typed /\ DeletionTypes /\ deletion[d].pc = "finalize"
    BY DEF DeletionInv, LocksInv, JournalInv, Journal, FinalizeDeletion,
           DeletionAt
  <1>2. CASE AbandonCleanup(d) /\ UNCHANGED <<ledger, present, lease>>
    BY <1>2, AbandonedKeepsEntries DEF FinalizeDeletion
  <1>3. CASE Removed(d, Target(d))
    <2>1. PICK r \in Removals : r = Target(d) BY <1>1, DeletionFacts
    <2>2. Removed(d, r) BY <1>3, <2>1
    <2>3. Cleans
      <3>1. \A s \in Removals : \A v \in Versions(s) :
                ledger'[s][v].ext = ledger[s][v].ext
        <4> SUFFICES ASSUME NEW s \in Removals, NEW v \in Versions(s)
                     PROVE  ledger'[s][v].ext = ledger[s][v].ext
          OBVIOUS
        <4>1. /\ \A u \in Versions(r) : ledger'[r][u].ext = ledger[r][u].ext
              /\ \A q \in Removals \ {r} : ledger'[q] = ledger[q]
          BY <2>2 DEF Removed
        <4> QED BY <4>1
      <3> QED BY <2>2, <3>1 DEF Cleans, Removed
    <2>4. /\ present'[r] = FALSE /\ deletion'[d].pc = "idle"
          /\ \A s \in Removals \ {r} :
               /\ ledger'[s] = ledger[s] /\ lease'[s] = lease[s]
               /\ present'[s] = present[s]
      BY <1>1, <2>2 DEF Removed, DeletionTypes, NoDeletion
    <2>5. \A e \in Deleters \ {d} : Clears(e)'
      BY <2>2, <2>3, <2>4, OthersClear DEF Removed
    <2>6. DeletersClear' BY <2>4, <2>5 DEF DeletersClear, Clears
    <2>7. \A v \in 1 .. MaxVersion : Entries(r, v) = {}
      BY <1>1, <2>1, <2>2
         DEF EntriesInv, DeletersClear, Clears, Pending, Removed
    <2>8. DeletedEmpty'
      <3>1. EntriesShrink BY <1>1, <2>3, CleaningShrinks
      <3> QED BY <2>4, <2>7, <3>1 DEF EntriesShrink, EntriesInv, DeletedEmpty
    <2> QED BY <1>1, <2>3, <2>6, <2>8, CleaningKnows DEF EntriesInv
  <1>4. CASE present' = [present EXCEPT ![Target(d)] = FALSE] /\ Fence(d)
    <2>1. present' # present
      <3>1. present[Target(d)] /\ Target(d) \in Removals
        BY <1>1, <1>4, DeletionFacts DEF Fence
      <3>2. present'[Target(d)] = FALSE BY <1>1, <1>4, <3>1 DEF DeletionTypes
      <3> QED BY <3>1, <3>2
    <2> QED BY <1>1, <1>3, <2>1, FinalizeDeletionMove
  <1> QED BY <1>2, <1>4 DEF FinalizeDeletion

LEMMA ReleaseKeepsEntries ==
    ASSUME DeletionInv, EntriesInv, NEW d \in Deleters, ReleaseDeletion(d)
    PROVE  EntriesInv'
  <1>1. /\ deletion' = [deletion EXCEPT ![d] = NoDeletion]
        /\ UNCHANGED <<attempt, registry, wire, present>>
    BY DEF ReleaseDeletion
  <1>2. CASE UNCHANGED <<lease, ledger>> BY <1>1, <1>2, AbandonedKeepsEntries
  <1>3. CASE ~UNCHANGED <<lease, ledger>>
    <2>1. PICK r \in Removals : r = Target(d)
      BY DeletionFacts DEF DeletionInv
    <2>2. /\ Relocked(r) /\ lease' = [lease EXCEPT ![r] = NoLock]
      BY <1>3, <2>1, ReleaseRows DEF ReleaseDeletion
    <2>3. Cleans
      <3>1. \A s \in Removals : \A v \in Versions(s) :
                ledger'[s][v].ext = ledger[s][v].ext
        BY <2>2 DEF Relocked, SameButLock
      <3> QED BY <1>1, <2>2, <3>1 DEF Cleans, Relocked
    <2>4. /\ lease'[r] = NoLock /\ deletion'[d].pc = "idle"
          /\ \A s \in Removals \ {r} :
               /\ ledger'[s] = ledger[s] /\ lease'[s] = lease[s]
               /\ present'[s] = present[s]
      BY <1>1, <2>2 DEF Relocked, DeletionInv, DeletionTypes, NoDeletion
    <2>5. \A e \in Deleters \ {d} : Clears(e)'
      BY <1>1, <2>3, <2>4, OthersClear
    <2>6. DeletersClear' BY <2>4, <2>5 DEF DeletersClear, Clears
    <2>7. DeletedEmpty'
      BY <1>1 DEF EntriesInv, DeletedEmpty, Entries, Matches
    <2>8. Typed BY DEF DeletionInv, LocksInv, JournalInv, Journal
    <2> QED BY <2>3, <2>6, <2>7, <2>8, CleaningKnows DEF EntriesInv
  <1> QED BY <1>2, <1>3

LEMMA DeleteStepKeepsEntries ==
    ASSUME DeletionInv, EntriesInv, NEW d \in Deleters,
           DeleteStep(d) \/ CrashDeletion(d)
    PROVE  EntriesInv'
  <1>1. CASE CrashDeletion(d)
    <2>1. /\ UNCHANGED <<ledger, attempt, wire, present, lease, registry>>
          /\ deletion' = [deletion EXCEPT ![d] = NoDeletion]
      BY <1>1 DEF CrashDeletion, vars
    <2> QED BY <2>1, AbandonedKeepsEntries
  <1>2. CASE DeleteStep(d)
    BY <1>2, ClaimKeepsEntries, LookupKeepsEntries, DeleteEntryKeepsEntries,
       DeleteRestKeepsEntries, FinalizeKeepsEntries, ReleaseKeepsEntries
       DEF DeleteStep
  <1> QED BY <1>1, <1>2

-----------------------------------------------------------------------------
(* A deleted Removal leaves no GHG Entry.                                  *)

\* A step that only ends attempts, or lets time pass, knows as much as before.
LEMMA QuietKeepsEntries ==
    ASSUME DeletionInv, EntriesInv,
           UNCHANGED <<ledger, registry, wire, present, lease, deletion>>,
           \A a \in Attempts :
               \/ attempt'[a] = attempt[a]
               \/ attempt'[a].pc \notin Owning
               \/ /\ attempt'[a] = [attempt[a] EXCEPT !.pc = "fail"]
                  /\ attempt[a].pc \in Owning
    PROVE  EntriesInv'
  <1>1. \A a \in Attempts : attempt[a] \in Attempt
    BY TypedFacts DEF DeletionInv, LocksInv, JournalInv, Journal
  <1>2. \A r, v : Entries(r, v)' = Entries(r, v) BY DEF Entries, Matches, EntryRef
  <1>3. /\ wire' = {} /\ RecordsVersioned' /\ EntryOnce' /\ RowsKnow'
    BY <1>2 DEF EntriesInv, RecordsVersioned, EntryOnce, RowsKnow, Versions
  <1>4. DeletersClear' /\ DeletedEmpty'
    BY <1>2 DEF EntriesInv, DeletersClear, Clears, Fence, Target, Versions,
                DeletedEmpty, Pending, Entries, Matches, EntryRef
  <1>5. \A a \in Attempts : [attempt[a] EXCEPT !.pc = "fail"].pc = "fail"
            /\ [attempt[a] EXCEPT !.pc = "fail"].rem = attempt[a].rem
            /\ [attempt[a] EXCEPT !.pc = "fail"].ver = attempt[a].ver
            /\ [attempt[a] EXCEPT !.pc = "fail"].ext = attempt[a].ext
    BY <1>1 DEF Attempt
  <1>6. /\ "fail" \notin Gating /\ "fail" \notin Sending
        /\ Gating \subseteq Owning /\ Sending \subseteq Owning
        /\ "post" \in Owning
    BY DEF Owning, Gating, Sending
  <1>7. \A a \in Attempts :
            \/ attempt'[a] = attempt[a]
            \/ attempt'[a].pc \notin Owning
            \/ /\ attempt'[a].pc = "fail" /\ attempt[a].pc \in Owning
               /\ attempt'[a].rem = attempt[a].rem
               /\ attempt'[a].ver = attempt[a].ver
               /\ attempt'[a].ext = attempt[a].ext
    BY <1>5
  <1>8. AttemptsUnsent'
    <2>1. ASSUME NEW a \in Attempts PROVE Unsent(attempt'[a], registry)
      <3>1. Unsent(attempt[a], registry) BY DEF EntriesInv, AttemptsUnsent
      <3>2. CASE attempt'[a] = attempt[a] BY <3>1, <3>2
      <3>3. CASE attempt'[a].pc \notin Owning \/ attempt'[a].pc = "fail"
        BY <1>6, <3>3 DEF Unsent
      <3> QED BY <1>7, <3>2, <3>3
    <2> QED BY <2>1 DEF AttemptsUnsent
  <1>9. AttemptsKnow'
    <2>1. ASSUME NEW a \in Attempts,
                 attempt'[a].pc \in Owning, attempt'[a].ext # 0
          PROVE  Entries(attempt[a].rem, attempt[a].ver)'
                     \subseteq {attempt'[a].ext}
      <3>1. Knows(attempt[a]) BY DEF EntriesInv, AttemptsKnow
      <3>2. /\ attempt[a].pc \in Owning /\ attempt'[a].ext = attempt[a].ext
            /\ attempt'[a].rem = attempt[a].rem
            /\ attempt'[a].ver = attempt[a].ver
        BY <1>7, <2>1
      <3>3. Entries(attempt[a].rem, attempt[a].ver) \subseteq {attempt[a].ext}
        BY <2>1, <3>1, <3>2 DEF Knows
      <3> QED BY <3>2, <3>3 DEF Entries, EntryRef, Matches
    <2> QED BY <2>1 DEF AttemptsKnow, Knows
  <1> QED BY <1>3, <1>4, <1>8, <1>9 DEF EntriesInv

LEMMA RefusedKeepsEntries ==
    ASSUME DeletionInv, EntriesInv, NEW a \in Attempts,
           RefusedClaim(a) \/ RefusedGate(a)
    PROVE  EntriesInv'
  <1>1. /\ UNCHANGED <<ledger, registry, wire, present, lease, deletion>>
        /\ attempt \in [Attempts -> Attempt]
    BY StateFacts DEF RefusedClaim, RefusedGate, ledgerVars, DeletionInv,
       LocksInv, JournalInv, Journal
  <1>2. Idle.pc \notin Owning
    BY DEF Idle, Owning, Gating, Sending, Finishing
  <1>3. CASE RefusedClaim(a)
    <2>1. attempt' = [attempt EXCEPT ![a] = Idle] BY <1>3 DEF RefusedClaim, Stop
    <2>2. \A b \in Attempts : attempt'[b] = IF b = a THEN Idle ELSE attempt[b]
      BY <1>1, <2>1
    <2>3. \A b \in Attempts :
              \/ attempt'[b] = attempt[b]
              \/ attempt'[b].pc \notin Owning
              \/ /\ attempt'[b] = [attempt[b] EXCEPT !.pc = "fail"]
                 /\ attempt[b].pc \in Owning
      BY <1>2, <2>2
    <2> QED BY <1>1, <2>3, QuietKeepsEntries
  <1>4. CASE RefusedGate(a)
    <2>1. attempt' = [attempt EXCEPT ![a] = [attempt[a] EXCEPT !.pc = "fail"]]
      BY <1>1, <1>4 DEF RefusedGate, Throw, Goto
    <2>2. attempt[a].pc \in Owning
      BY <1>4, PlaceNames DEF RefusedGate, RefusesGate
    <2>3. \A b \in Attempts :
              \/ attempt'[b] = attempt[b]
              \/ attempt'[b].pc \notin Owning
              \/ /\ attempt'[b] = [attempt[b] EXCEPT !.pc = "fail"]
                 /\ attempt[b].pc \in Owning
      BY <1>1, <2>1, <2>2
    <2> QED BY <1>1, <2>3, QuietKeepsEntries
  <1> QED BY <1>3, <1>4

LEMMA OthersKeepEntries ==
    ASSUME DeletionInv, EntriesInv, Environment \/ UNCHANGED deletionVars
    PROVE  EntriesInv'
  <1>1. attempt \in [Attempts -> Attempt]
    BY StateFacts DEF DeletionInv, LocksInv, JournalInv, Journal
  <1>2. wire = {} BY DEF EntriesInv
  <1>3. UNCHANGED <<ledger, registry, wire, present, lease, deletion>>
    BY <1>2 DEF Environment, Crash, Deliver, Change, Tick, ledgerVars,
                deletionVars, vars
  <1>4. UNCHANGED attempt \/ \E a \in Attempts : Stop(a)
    BY <1>2 DEF Environment, Crash, Deliver, Change, Tick, deletionVars, vars
  <1>5. Idle.pc \notin Owning
    BY DEF Idle, Owning, Gating, Sending, Finishing
  <1>6. \A a \in Attempts :
            attempt'[a] = attempt[a] \/ attempt'[a].pc \notin Owning
    BY <1>1, <1>4, <1>5 DEF Stop
  <1>7. \A b \in Attempts :
              \/ attempt'[b] = attempt[b]
              \/ attempt'[b].pc \notin Owning
              \/ /\ attempt'[b] = [attempt[b] EXCEPT !.pc = "fail"]
                 /\ attempt[b].pc \in Owning
    BY <1>6
  <1> QED BY <1>3, <1>7, QuietKeepsEntries

LEMMA InitEstablishesEntries == DeletionInit => EntriesInv
  <1> SUFFICES ASSUME DeletionInit PROVE EntriesInv OBVIOUS
  <1>1. Init /\ wire = {} BY DEF DeletionInit, Init
  <1>2. \A ref \in References : registry[ref] = << >> /\ Matches(ref) = {}
    BY <1>1, EmptySeq DEF Init, Matches
  <1>3. \A r \in Removals : \A v \in 1 .. MaxVersion : Entries(r, v) = {}
    BY <1>2, EntryReferences DEF Entries
  <1>4. \A r \in Removals : Versions(r) = {}
    BY <1>1, EmptySeq DEF Init, LedgerInit, Versions
  <1>5. \A a \in Attempts : attempt[a].pc \notin Owning
    BY <1>1 DEF Init, Idle, Owning, Gating, Sending, Finishing
  <1>6. AttemptsUnsent
    <2>1. Gating \subseteq Owning /\ Sending \subseteq Owning /\ "post" \in Owning
      BY DEF Owning, Sending
    <2> QED BY <1>5, <2>1 DEF AttemptsUnsent, Unsent
  <1>7. DeletersClear BY DEF DeletionInit, NoDeletion, DeletersClear, Clears
  <1> QED BY <1>1, <1>2, <1>3, <1>4, <1>5, <1>6, <1>7
       DEF EntriesInv, RecordsVersioned, EntryOnce, RowsKnow, AttemptsKnow,
           Knows, DeletedEmpty

LEMMA NextKeepsEntries ==
    ASSUME Timely, ~LateRequests
    PROVE  DeletionInv /\ DeletionInv' /\ EntriesInv
               /\ [DeletionNext]_deletionVars => EntriesInv'
  <1> SUFFICES ASSUME DeletionInv, DeletionInv', EntriesInv,
                      [DeletionNext]_deletionVars
               PROVE  EntriesInv'
    OBVIOUS
  <1>1. ASSUME NEW a \in Attempts, SubmitStep(a) PROVE EntriesInv'
    BY <1>1, SubmitStepCases, StepKeepsEntries, RefusedKeepsEntries
  <1>2. ASSUME NEW d \in Deleters, DeleteStep(d) \/ CrashDeletion(d)
        PROVE  EntriesInv'
    BY <1>2, DeleteStepKeepsEntries
  <1> QED BY <1>1, <1>2, OthersKeepEntries DEF DeletionNext

(* A deleted Removal leaves no GHG Entry at the registry, when attempts    *)
(* end before their row lock does and an unanswered request does not land  *)
(* later: cleanup looks up each version without a journaled id by its      *)
(* supplier reference, the fence is read again before every delete, and a  *)
(* retried deletion claims whatever an earlier one had not reached.        *)
THEOREM DeletedClean ==
    ASSUME Timely, ~LateRequests
    PROVE  DeletionSpec => []DeletedLeavesNoEntry
  <1>1. EntriesInv => DeletedLeavesNoEntry
    BY DeletedEmptyMeans DEF EntriesInv
  <1> QED BY <1>1, InitEstablishesEntries, NextKeepsEntries,
             DeletionInvariance, PTL DEF DeletionSpec
=============================================================================
