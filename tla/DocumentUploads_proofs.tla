----------------------- MODULE DocumentUploads_proofs -----------------------
(***************************************************************************)
(* Proofs about document uploads, for any number of confirmations and      *)
(* contents and any choice of lease, grace, lifetime, deadline and reserve:*)
(* no object is orphaned, a completed deletion is final, and the whole     *)
(* implements the evidence vault.                                          *)
(***************************************************************************)
EXTENDS DocumentUploads, TLAPS

Settled == {"uploaded", "failed", "deleted"}

Undrained(s) == \E e \in queue : e.slot = s /\ e.state = "pending"

\* The key of the row is the upload key until it is the promoted one.
RowFits ==
    /\ doc.status # "uploaded" => doc.key = Staging
    /\ doc.status = "uploaded" => doc.key \in Acceptable \cap doc.candidates
    /\ doc.status = "none" => lease = 0 /\ staged = NoContent

\* Nothing that could delete it knows the key that is served.
EvidenceFits ==
    doc.status = "uploaded" => doc.key \in finals /\ ~Queued(doc.key)

LateFits == \A s \in late : Queued(s)

Promoting(p) ==
    \/ confirm[p].pc = "putting"
    \/ confirm[p].pc = "prepared" /\ confirm[p].refusal = "none"

\* What a confirmation may promote is acceptable and, as long as the row is
\* pending, one of its candidates; what is settled has been handed over.
ConfirmFits(p) ==
    /\ doc.status = "none" => confirm[p].pc = "idle"
    /\ confirm[p].pc = "inspected" => confirm[p].content \in Acceptable
    /\ Promoting(p) =>
          /\ confirm[p].content \in Acceptable
          /\ doc.status = "pending" => confirm[p].content \in doc.candidates
    /\ confirm[p].pc = "putting" =>
          \/ doc.status = "pending"
          \/ Serves(confirm[p].content)
          \/ Queued(confirm[p].content)
    /\ confirm[p].pc = "prepared" /\ confirm[p].refusal = "none" =>
          confirm[p].content \in finals \/ Queued(confirm[p].content)

ConfirmsFit == \A p \in Confirmers : ConfirmFits(p)

\* An entry waits for every PUT that could still bring its object back.
Outwaits(e) ==
    /\ \A p \in Confirmers :
          confirm[p].pc = "putting" /\ confirm[p].content = e.slot =>
              confirm[p].left <= e.wait
    /\ e.slot = Staging => lease <= e.wait

EntriesOutwait == \A e \in queue : Outwaits(e)

\* What has been drained was due and is gone.
Gone(e) ==
    /\ e.wait = 0
    /\ e.slot = Staging => staged = NoContent
    /\ e.slot \notin finals

EntriesFit == \A e \in queue : e.state # "pending" => Gone(e)

StagingQueued == doc.status \in Settled <=> Queued(Staging)

FinalsOwned ==
    \A c \in finals :
        \/ doc.status = "pending" /\ c \in doc.candidates
        \/ Serves(c)
        \/ Undrained(c)

StagedOwned == staged # NoContent => doc.status = "pending" \/ Undrained(Staging)

Rest ==
    /\ RowFits /\ EvidenceFits /\ LateFits /\ ConfirmsFit
    /\ EntriesOutwait /\ EntriesFit /\ StagingQueued
    /\ FinalsOwned /\ StagedOwned

IInv == TypeOK /\ Rest

-----------------------------------------------------------------------------
(* The queue.                                                               *)

\* Entries makes one pending entry per key, with the wait it is given.
LEMMA EntriesAre ==
    ASSUME NEW S, NEW w
    PROVE  /\ \A e \in Entries(S, w) :
                  e.slot \in S /\ e.wait = w /\ e.state = "pending"
           /\ \A s \in S : \E e \in Entries(S, w) : e.slot = s /\ e.state = "pending"
<1>1. \A e \in Entries(S, w) : e.slot \in S /\ e.wait = w /\ e.state = "pending"
    BY DEF Entries
<1>2. ASSUME NEW s \in S PROVE \E e \in Entries(S, w) : e.slot = s /\ e.state = "pending"
    <2> DEFINE e == [slot |-> s, wait |-> w, state |-> "pending"]
    <2>1. e \in Entries(S, w)
        BY DEF Entries
    <2>2. e.slot = s /\ e.state = "pending"
        OBVIOUS
    <2> QED BY <2>1, <2>2
<1> QED BY <1>1, <1>2

LEMMA EntriesTyped ==
    ASSUME NEW S \in SUBSET Slots, NEW w \in Nat
    PROVE  Entries(S, w) \subseteq Entry
<1> SUFFICES ASSUME NEW e \in Entries(S, w) PROVE e \in Entry
    OBVIOUS
<1>1. PICK s \in S : e = [slot |-> s, wait |-> w, state |-> "pending"]
    BY DEF Entries
<1> QED BY <1>1 DEF Entry

\* Entries that a transaction adds stay with those that were there.
LEMMA Enqueued ==
    ASSUME NEW N, queue' = queue \cup N
    PROVE  /\ \A s : Queued(s) => Queued(s)'
           /\ \A s : Undrained(s) => Undrained(s)'
           /\ \A s : Queued(s)' => Queued(s) \/ \E e \in N : e.slot = s
BY DEF Queued, Undrained

LEMMA EnqueuedKeys ==
    ASSUME NEW S, NEW w, Entries(S, w) \subseteq queue'
    PROVE  \A s \in S : Queued(s)' /\ Undrained(s)'
<1> SUFFICES ASSUME NEW s \in S PROVE Queued(s)' /\ Undrained(s)'
    OBVIOUS
<1>1. PICK e \in Entries(S, w) : e.slot = s /\ e.state = "pending"
    BY EntriesAre
<1> QED BY <1>1 DEF Queued, Undrained

\* A step of the drain renames no entry, and takes none but its own.
LEMMA DrainKeepsSlots ==
    ASSUME NEW e \in queue, NEW st, Becomes(e, st), queue \subseteq Entry
    PROVE  /\ \A s : Queued(s)' <=> Queued(s)
           /\ \A s : s # e.slot => (Undrained(s) => Undrained(s)')
           /\ e.state # "pending" => \A s : Undrained(s) => Undrained(s)'
           /\ \A f \in queue' : f \in queue \/ f = [e EXCEPT !.state = st]
<1> DEFINE d == [e EXCEPT !.state = st]
<1>1. queue' = (queue \ {e}) \cup {d}
    BY DEF Becomes
<1>2. d.slot = e.slot
    BY DEF Entry
<1> HIDE DEF d
<1>3. \A s : Queued(s)' <=> Queued(s)
    BY <1>1, <1>2 DEF Queued
<1>4. \A s : s # e.slot => (Undrained(s) => Undrained(s)')
    BY <1>1 DEF Undrained
<1>5. e.state # "pending" => \A s : Undrained(s) => Undrained(s)'
    BY <1>1 DEF Undrained
<1> QED BY <1>1, <1>3, <1>4, <1>5 DEF d

LEMMA TickKeepsSlots ==
    ASSUME Tick, queue \subseteq Entry
    PROVE  /\ \A s : Queued(s)' <=> Queued(s)
           /\ \A s : Undrained(s) => Undrained(s)'
<1> DEFINE d(e) == [e EXCEPT !.wait = Less(e.wait)]
<1>1. queue' = {d(e) : e \in queue}
    BY DEF Tick
<1>2. \A e \in queue : d(e).slot = e.slot /\ d(e).state = e.state
    BY DEF Entry
<1> HIDE DEF d
<1> QED BY <1>1, <1>2 DEF Queued, Undrained

-----------------------------------------------------------------------------
(* Confirmations.                                                           *)

LEMMA StepOf ==
    ASSUME TypeOK, NEW p \in Confirmers, NEW r, Step(p, r)
    PROVE  /\ confirm'[p] = r
           /\ \A q \in Confirmers : q # p => confirm'[q] = confirm[q]
BY DEF TypeOK, Step

LEMMA StepTyped ==
    ASSUME TypeOK, NEW p \in Confirmers, NEW r \in Confirmation, Step(p, r)
    PROVE  confirm' \in [Confirmers -> Confirmation]
BY DEF TypeOK, Step

LEMMA IdleTyped == Idle \in Confirmation
BY UploadAssumption DEF Idle, Confirmation

\* A confirmation that does not move still fits, unless the step takes what
\* it relies on: its candidate, the object it promoted, or their entries.
LEMMA StillFits ==
    ASSUME NEW q \in Confirmers, ConfirmFits(q), confirm'[q] = confirm[q],
           doc'.status = "none" => doc.status = "none",
           doc'.status = "pending" =>
               doc.status = "pending" /\ doc.candidates \subseteq doc'.candidates,
           doc.status = "pending" /\ doc'.status # "pending" =>
               \A c \in doc.candidates : Serves(c)' \/ Queued(c)',
           \A c \in Contents : Serves(c) => Serves(c)' \/ Queued(c)',
           \A s : Queued(s) => Queued(s)',
           \A c \in finals : c \in finals' \/ Queued(c)'
    PROVE  ConfirmFits(q)'
<1> DEFINE c == confirm[q].content
<1>1. Promoting(q)' <=> Promoting(q)
    BY DEF Promoting
<1>2. c \in Acceptable => c \in Contents
    BY UploadAssumption
<1>3. confirm[q].pc = "putting" =>
          doc'.status = "pending" \/ Serves(c)' \/ Queued(c)'
    BY <1>2 DEF ConfirmFits, Promoting
<1> QED BY <1>1, <1>3 DEF ConfirmFits

LEMMA IdleFits ==
    ASSUME NEW p \in Confirmers, confirm'[p] = Idle
    PROVE  ConfirmFits(p)'
BY DEF ConfirmFits, Promoting, Idle

\* A step that starts no PUT, adds no entry and renews no lease.
LEMMA StillOutwaits ==
    ASSUME EntriesOutwait, queue' = queue, lease' = lease,
           \A q \in Confirmers : confirm'[q].pc = "putting" => confirm'[q] = confirm[q]
    PROVE  EntriesOutwait'
BY DEF EntriesOutwait, Outwaits

\* What a step leaves alone keeps its part of the invariant.
LEMMA Untouched ==
    ASSUME Rest
    PROVE  /\ UNCHANGED <<doc, lease, staged>> => RowFits'
           /\ UNCHANGED <<doc, finals, queue>> => EvidenceFits'
           /\ UNCHANGED <<late, queue>> => LateFits'
           /\ UNCHANGED <<doc, finals, queue, confirm>> => ConfirmsFit'
           /\ UNCHANGED <<queue, lease, confirm>> => EntriesOutwait'
           /\ UNCHANGED <<queue, staged, finals>> => EntriesFit'
           /\ UNCHANGED <<doc, queue>> => StagingQueued'
           /\ UNCHANGED <<doc, finals, queue>> => FinalsOwned'
           /\ UNCHANGED <<doc, staged, queue>> => StagedOwned'
<1>1. UNCHANGED queue => \A s : (Queued(s)' <=> Queued(s)) /\ (Undrained(s)' <=> Undrained(s))
    BY DEF Queued, Undrained
<1>2. UNCHANGED doc => \A c : Serves(c)' <=> Serves(c)
    BY DEF Serves
<1>3. UNCHANGED <<doc, lease, staged>> => RowFits'
    BY DEF Rest, RowFits
<1>4. UNCHANGED <<doc, finals, queue>> => EvidenceFits'
    BY <1>1 DEF Rest, EvidenceFits
<1>5. UNCHANGED <<late, queue>> => LateFits'
    BY <1>1 DEF Rest, LateFits
<1>6. UNCHANGED <<doc, finals, queue, confirm>> => ConfirmsFit'
    BY <1>1, <1>2 DEF Rest, ConfirmsFit, ConfirmFits, Promoting
<1>7. UNCHANGED <<queue, lease, confirm>> => EntriesOutwait'
    BY DEF Rest, EntriesOutwait, Outwaits
<1>8. UNCHANGED <<queue, staged, finals>> => EntriesFit'
    BY DEF Rest, EntriesFit, Gone
<1>9. UNCHANGED <<doc, queue>> => StagingQueued'
    BY <1>1 DEF Rest, StagingQueued
<1>10. UNCHANGED <<doc, finals, queue>> => FinalsOwned'
    BY <1>1, <1>2 DEF Rest, FinalsOwned
<1>11. UNCHANGED <<doc, staged, queue>> => StagedOwned'
    BY <1>1 DEF Rest, StagedOwned
<1> QED BY <1>3, <1>4, <1>5, <1>6, <1>7, <1>8, <1>9, <1>10, <1>11

-----------------------------------------------------------------------------
(* Types.                                                                   *)

LEMMA RowEntriesTyped ==
    ASSUME TypeOK
    PROVE  /\ StagingEntry \subseteq Entry
           /\ DocumentEntries \subseteq Entry
           /\ \A S \in SUBSET Contents : CandidateEntries(S) \subseteq Entry
<1>1. Deadline \in Nat /\ lease \in Nat
    BY UploadAssumption DEF TypeOK
<1>2. doc.candidates \subseteq Contents /\ doc.key \in Slots
    BY DEF TypeOK, Document
<1>3. StagingEntry \subseteq Entry
    <2>1. {Staging} \in SUBSET Slots
        BY DEF Slots
    <2> QED BY <1>1, <2>1, EntriesTyped DEF StagingEntry
<1>4. \A S \in SUBSET Contents : CandidateEntries(S) \subseteq Entry
    <2> SUFFICES ASSUME NEW S \in SUBSET Contents PROVE CandidateEntries(S) \subseteq Entry
        OBVIOUS
    <2>1. S \in SUBSET Slots
        BY DEF Slots
    <2> QED BY <1>1, <2>1, EntriesTyped DEF CandidateEntries
<1>5. Entries({doc.key} \ (doc.candidates \cup {Staging}), 0) \subseteq Entry
    <2>1. {doc.key} \ (doc.candidates \cup {Staging}) \in SUBSET Slots
        BY <1>2
    <2> QED BY <2>1, EntriesTyped
<1> QED BY <1>2, <1>3, <1>4, <1>5 DEF DocumentEntries

LEMMA CleanupTyped ==
    ASSUME TypeOK, NEW p \in Confirmers, confirm[p].pc = "prepared",
           confirm[p].refusal = "none" => confirm[p].content \in Contents
    PROVE  Cleanup(p) \subseteq Entry
<1>1. (doc.candidates \cup Promoted(p)) \ {doc.key} \in SUBSET Contents
    BY DEF TypeOK, Document, Promoted
<1> QED BY <1>1, RowEntriesTyped DEF Cleanup

LEMMA StartConfirmTypes ==
    ASSUME TypeOK, NEW p \in Confirmers, StartConfirm(p)
    PROVE  TypeOK'
<1>1. [Idle EXCEPT !.pc = "reading", !.left = Deadline] \in Confirmation
    <2>1. Deadline \in 0 .. Deadline
        BY UploadAssumption
    <2> QED BY <2>1, IdleTyped DEF Confirmation
<1>2. confirm' \in [Confirmers -> Confirmation]
    BY <1>1, StepTyped DEF StartConfirm
<1> QED BY <1>2 DEF TypeOK, StartConfirm, storeVars

LEMMA InspectTypes ==
    ASSUME TypeOK, NEW p \in Confirmers, Inspect(p)
    PROVE  TypeOK'
<1> DEFINE q == confirm[p]
<1>0. q \in Confirmation
    BY DEF TypeOK
<1>1. /\ [q EXCEPT !.pc = "prepared", !.refusal = "locked"] \in Confirmation
      /\ [q EXCEPT !.pc = "prepared", !.refusal = "bytes"] \in Confirmation
    BY <1>0 DEF Confirmation
<1>2. staged \in Contents => [q EXCEPT !.pc = "inspected", !.content = staged] \in Confirmation
    BY <1>0 DEF Confirmation
<1> HIDE DEF q
<1>3. confirm' \in [Confirmers -> Confirmation]
    BY <1>1, <1>2, StepTyped, UploadAssumption DEF Inspect, q
<1> QED BY <1>3 DEF TypeOK, Inspect, storeVars

LEMMA RecordCandidateTypes ==
    ASSUME TypeOK, NEW p \in Confirmers, RecordCandidate(p), confirm[p].content \in Contents
    PROVE  TypeOK'
<1>0. confirm[p] \in Confirmation
    BY DEF TypeOK
<1>1. [confirm[p] EXCEPT !.pc = "putting"] \in Confirmation
    BY <1>0 DEF Confirmation
<1>2. confirm' \in [Confirmers -> Confirmation]
    BY <1>1, StepTyped DEF RecordCandidate
<1>3. doc' \in Document
    BY DEF TypeOK, Document, RecordCandidate
<1> QED BY <1>2, <1>3 DEF TypeOK, RecordCandidate, storeVars

LEMMA PutFinalTypes ==
    ASSUME TypeOK, NEW p \in Confirmers, PutFinal(p), confirm[p].content \in Contents
    PROVE  TypeOK'
<1>0. confirm[p] \in Confirmation
    BY DEF TypeOK
<1>1. [confirm[p] EXCEPT !.pc = "prepared"] \in Confirmation
    BY <1>0 DEF Confirmation
<1>2. confirm' \in [Confirmers -> Confirmation]
    BY <1>1, StepTyped, IdleTyped DEF PutFinal
<1> QED BY <1>2 DEF TypeOK, PutFinal

LEMMA ConfirmTypes ==
    ASSUME TypeOK, NEW p \in Confirmers, Confirm(p),
           confirm[p].refusal = "none" => confirm[p].content \in Contents
    PROVE  TypeOK'
<1>1. confirm' \in [Confirmers -> Confirmation]
    BY StepTyped, IdleTyped DEF Confirm
<1>2. Cleanup(p) \subseteq Entry /\ StagingEntry \subseteq Entry
    BY CleanupTyped, RowEntriesTyped DEF Confirm
<1>3. doc' \in Document /\ queue' \in SUBSET Entry
    <2>1. CASE ConfirmTooLate(p)
        BY <2>1, <1>2 DEF TypeOK, ConfirmTooLate
    <2>2. CASE ConfirmRefused(p)
        BY <2>2, <1>2 DEF TypeOK, Document, Statuses, ConfirmRefused
    <2>3. CASE ConfirmUploaded(p)
        <3>1. doc.candidates \ {confirm[p].content} \in SUBSET Contents
            BY DEF TypeOK, Document
        <3>2. CandidateEntries(doc.candidates \ {confirm[p].content}) \subseteq Entry
            BY <3>1, RowEntriesTyped
        <3>3. queue' \in SUBSET Entry
            BY <2>3, <3>2, <1>2 DEF TypeOK, ConfirmUploaded
        <3>4. doc' \in Document
            BY <2>3 DEF TypeOK, Document, Statuses, Slots, ConfirmUploaded
        <3> QED BY <3>3, <3>4
    <2> QED BY <2>1, <2>2, <2>3 DEF Confirm
<1> QED BY <1>1, <1>3 DEF TypeOK, Confirm, storeVars

LEMMA SettleTypes ==
    ASSUME TypeOK, DeleteDocument \/ ExpireUpload \/ RetireFailed
    PROVE  TypeOK'
<1>1. CandidateEntries(doc.candidates) \subseteq Entry /\ DocumentEntries \subseteq Entry
    BY RowEntriesTyped DEF TypeOK, Document
<1>2. queue' \in SUBSET Entry
    BY <1>1 DEF TypeOK, DeleteDocument, ExpireUpload, RetireFailed
<1>3. doc' \in Document
    BY DEF TypeOK, Document, Statuses, Slots, DeleteDocument, ExpireUpload, RetireFailed
<1> QED BY <1>2, <1>3 DEF TypeOK, DeleteDocument, ExpireUpload, RetireFailed, storeVars

LEMMA DrainTypes ==
    ASSUME TypeOK, NEW e \in queue, Drain(e)
    PROVE  TypeOK'
<1>1. e \in Entry
    BY DEF TypeOK
<1>2. \A st \in {"pending", "deleted", "done"} : [e EXCEPT !.state = st] \in Entry
    BY <1>1 DEF Entry
<1>3. \A st \in {"pending", "deleted", "done"} : Becomes(e, st) => queue' \in SUBSET Entry
    BY <1>2 DEF TypeOK, Becomes
<1>4. CASE DeleteObject(e)
    BY <1>3, <1>4 DEF TypeOK, DeleteObject, Remove
<1>5. CASE CompleteDeletion(e)
    BY <1>3, <1>5 DEF TypeOK, CompleteDeletion, storeVars
<1>6. CASE AbandonDeletion(e)
    BY <1>3, <1>6 DEF TypeOK, AbandonDeletion, storeVars
<1>7. CASE DeferDeletion(e)
    BY <1>1, <1>7 DEF TypeOK, Entry, DeferDeletion, storeVars
<1> QED BY <1>4, <1>5, <1>6, <1>7 DEF Drain

LEMMA TickTypes ==
    ASSUME TypeOK, Tick
    PROVE  TypeOK'
<1>1. \A n \in Nat : Less(n) \in Nat /\ Less(n) <= n
    BY DEF Less
<1>2. \A e \in Entry : [e EXCEPT !.wait = Less(e.wait)] \in Entry
    <2> SUFFICES ASSUME NEW e \in Entry PROVE [e EXCEPT !.wait = Less(e.wait)] \in Entry
        OBVIOUS
    <2>1. Less(e.wait) \in Nat
        BY <1>1 DEF Entry
    <2> QED BY <2>1 DEF Entry
<1>3. \A q \in Confirmation : [q EXCEPT !.left = Less(q.left)] \in Confirmation
    <2> SUFFICES ASSUME NEW q \in Confirmation
                 PROVE  [q EXCEPT !.left = Less(q.left)] \in Confirmation
        OBVIOUS
    <2>1. q.left \in 0 .. Deadline
        BY DEF Confirmation
    <2>2. Less(q.left) \in 0 .. Deadline
        BY <2>1, <1>1, UploadAssumption
    <2> QED BY <2>2 DEF Confirmation
<1>4. queue' \in SUBSET Entry
    BY <1>2 DEF TypeOK, Tick
<1>5. confirm' \in [Confirmers -> Confirmation]
    BY <1>3 DEF TypeOK, Tick
<1>6. lease' \in Nat /\ life' \in Nat
    BY <1>1 DEF TypeOK, Tick
<1> QED BY <1>4, <1>5, <1>6 DEF TypeOK, Tick, storeVars

\* What a confirmation is about to promote is a content.
LEMMA PromotesContent ==
    ASSUME Rest, NEW p \in Confirmers,
           confirm[p].pc = "inspected" \/ Promoting(p)
    PROVE  confirm[p].content \in Contents
BY UploadAssumption DEF Rest, ConfirmsFit, ConfirmFits

LEMMA TypesKept ==
    ASSUME IInv, [Next]_vars
    PROVE  TypeOK'
<1> USE DEF IInv
<1>1. CASE UNCHANGED vars
    BY <1>1 DEF TypeOK, vars, storeVars
<1>2. CASE RequestUpload \/ RenewUpload
    BY <1>2, UploadAssumption DEF TypeOK, Document, Statuses, RequestUpload,
        RenewUpload, Smaller, storeVars
<1>3. ASSUME NEW c \in Contents, ClientPut(c) PROVE TypeOK'
    BY <1>3 DEF TypeOK, ClientPut
<1>4. ASSUME NEW o \in Owners, ChangeOwner(o) PROVE TypeOK'
    BY <1>4 DEF TypeOK, ChangeOwner, storeVars
<1>5. ASSUME NEW p \in Confirmers,
             \/ StartConfirm(p) \/ Inspect(p) \/ RecordCandidate(p)
             \/ PutFinal(p) \/ GiveUp(p) \/ Confirm(p)
      PROVE  TypeOK'
    <2>1. CASE StartConfirm(p)
        BY <2>1, StartConfirmTypes
    <2>2. CASE Inspect(p)
        BY <2>2, InspectTypes
    <2>3. CASE RecordCandidate(p)
        BY <2>3, RecordCandidateTypes, PromotesContent DEF RecordCandidate
    <2>4. CASE PutFinal(p)
        BY <2>4, PutFinalTypes, PromotesContent DEF PutFinal, Promoting
    <2>5. CASE GiveUp(p)
        <3>1. confirm' \in [Confirmers -> Confirmation]
            BY <2>5, StepTyped, IdleTyped DEF GiveUp
        <3> QED BY <2>5, <3>1 DEF TypeOK, GiveUp, storeVars
    <2>6. CASE Confirm(p)
        BY <2>6, ConfirmTypes, PromotesContent DEF Confirm, Promoting
    <2> QED BY <1>5, <2>1, <2>2, <2>3, <2>4, <2>5, <2>6
<1>6. CASE DeleteDocument \/ ExpireUpload \/ RetireFailed
    BY <1>6, SettleTypes
<1>7. ASSUME NEW e \in queue, Drain(e) PROVE TypeOK'
    BY <1>7, DrainTypes
<1>8. ASSUME NEW s \in late, LateDelete(s) PROVE TypeOK'
    BY <1>8 DEF TypeOK, LateDelete, Remove
<1>9. CASE Tick
    BY <1>9, TickTypes
<1> QED BY <1>1, <1>2, <1>3, <1>4, <1>5, <1>6, <1>7, <1>8, <1>9 DEF Next

-----------------------------------------------------------------------------
(* Request, renewal, the client and the owner.                              *)

LEMMA RequestUploadKeeps ==
    ASSUME IInv, RequestUpload
    PROVE  Rest'
<1>0. TypeOK' /\ doc'.status = "pending" /\ doc'.key = doc.key
    BY TypesKept DEF RequestUpload, Next, TypeOK, Document
<1>1. RowFits'
    BY <1>0 DEF IInv, Rest, RowFits, RequestUpload
<1>2. EvidenceFits'
    BY <1>0 DEF EvidenceFits
<1>3. ConfirmsFit'
    BY <1>0 DEF IInv, Rest, ConfirmsFit, ConfirmFits, Promoting, RequestUpload
<1>4. ~Queued(Staging)
    BY DEF IInv, Rest, StagingQueued, Settled, RequestUpload
<1>5. EntriesOutwait'
    BY <1>4 DEF IInv, Rest, EntriesOutwait, Outwaits, Queued, RequestUpload
<1>6. StagingQueued'
    BY <1>0, <1>4 DEF StagingQueued, Settled, Queued, RequestUpload
<1>7. FinalsOwned'
    BY <1>0 DEF IInv, Rest, FinalsOwned, Undrained, Serves, RequestUpload, storeVars
<1>8. StagedOwned'
    BY <1>0 DEF StagedOwned
<1> QED BY <1>1, <1>2, <1>3, <1>5, <1>6, <1>7, <1>8, Untouched
        DEF IInv, Rest, RequestUpload, storeVars

LEMMA RenewUploadKeeps ==
    ASSUME IInv, RenewUpload
    PROVE  Rest'
<1>1. RowFits'
    BY DEF IInv, Rest, RowFits, RenewUpload
<1>2. ~Queued(Staging)
    BY DEF IInv, Rest, StagingQueued, Settled, RenewUpload
<1>3. EntriesOutwait'
    BY <1>2 DEF IInv, Rest, EntriesOutwait, Outwaits, Queued, RenewUpload
<1> QED BY <1>1, <1>3, Untouched DEF IInv, Rest, RenewUpload, storeVars

LEMMA ClientPutKeeps ==
    ASSUME IInv, NEW c \in Contents, ClientPut(c)
    PROVE  Rest'
<1>1. lease > 0 /\ doc.status # "none"
    BY DEF IInv, TypeOK, Rest, RowFits, ClientPut
<1>2. RowFits'
    BY <1>1 DEF IInv, Rest, RowFits, ClientPut
<1>3. ASSUME NEW e \in queue, e.slot = Staging PROVE e.state = "pending"
    <2>1. lease <= e.wait /\ e.wait \in Nat /\ lease \in Nat
        BY <1>3 DEF IInv, TypeOK, Entry, Rest, EntriesOutwait, Outwaits
    <2>2. e.wait # 0
        BY <1>1, <2>1
    <2> QED BY <2>2 DEF IInv, Rest, EntriesFit, Gone
<1>4. EntriesFit'
    BY <1>3 DEF IInv, Rest, EntriesFit, Gone, ClientPut
<1>5. StagedOwned'
    <2>1. doc.status = "pending" \/ Queued(Staging)
        BY <1>1 DEF IInv, TypeOK, Document, Statuses, Rest, StagingQueued, Settled
    <2>2. doc.status = "pending" \/ Undrained(Staging)
        BY <2>1, <1>3 DEF Queued, Undrained
    <2> QED BY <2>2 DEF StagedOwned, Undrained, ClientPut
<1> QED BY <1>2, <1>4, <1>5, Untouched DEF IInv, Rest, ClientPut

LEMMA ChangeOwnerKeeps ==
    ASSUME IInv, NEW o \in Owners, ChangeOwner(o)
    PROVE  Rest'
BY Untouched DEF IInv, Rest, ChangeOwner, storeVars

-----------------------------------------------------------------------------
(* Confirmations before their transaction.                                  *)

\* A confirmation that neither starts a PUT nor ends one leaves the rest of
\* the invariant as it was.
LEMMA ConfirmerMoves ==
    ASSUME IInv, NEW p \in Confirmers, NEW r, Step(p, r), r.pc # "putting",
           ConfirmFits(p)', UNCHANGED <<doc, lease, staged, finals, queue, late>>
    PROVE  Rest'
<1>1. /\ confirm'[p] = r
      /\ \A q \in Confirmers : q # p => confirm'[q] = confirm[q]
    BY StepOf DEF IInv
<1>2. \A q \in Confirmers : confirm'[q].pc = "putting" => confirm'[q] = confirm[q]
    BY <1>1
<1>3. EntriesOutwait'
    BY <1>2, StillOutwaits DEF IInv, Rest
<1>4. ConfirmsFit'
    <2> SUFFICES ASSUME NEW q \in Confirmers, q # p PROVE ConfirmFits(q)'
        BY DEF ConfirmsFit
    <2>1. /\ \A s : Queued(s)' <=> Queued(s)
          /\ \A c : Serves(c)' <=> Serves(c)
        BY DEF Queued, Serves
    <2> QED BY <1>1, <2>1 DEF IInv, Rest, ConfirmsFit, ConfirmFits, Promoting
<1> QED BY <1>3, <1>4, Untouched DEF IInv, Rest

LEMMA StartConfirmKeeps ==
    ASSUME IInv, NEW p \in Confirmers, StartConfirm(p)
    PROVE  Rest'
<1> DEFINE r == [Idle EXCEPT !.pc = "reading", !.left = Deadline]
<1>1. r.pc = "reading"
    BY DEF Idle
<1> HIDE DEF r
<1>2. Step(p, r)
    BY DEF StartConfirm, r
<1>3. confirm'[p] = r
    BY <1>2, StepOf DEF IInv
<1>4. ConfirmFits(p)'
    BY <1>1, <1>3 DEF ConfirmFits, Promoting, StartConfirm
<1> QED BY <1>1, <1>2, <1>4, ConfirmerMoves DEF StartConfirm, storeVars

LEMMA InspectKeeps ==
    ASSUME IInv, NEW p \in Confirmers, Inspect(p)
    PROVE  Rest'
<1>0. /\ confirm[p] \in Confirmation
      /\ confirm[p].pc = "reading" /\ doc.status # "none"
      /\ UNCHANGED <<doc, lease, staged, finals, queue, late>>
    BY DEF IInv, TypeOK, Rest, ConfirmsFit, ConfirmFits, Inspect, storeVars
<1>1. PICK r : /\ Step(p, r)
               /\ \/ r.pc = "prepared" /\ r.refusal # "none"
                  \/ r.pc = "inspected" /\ r.content \in Acceptable
    <2>1. CASE Step(p, [confirm[p] EXCEPT !.pc = "prepared", !.refusal = "locked"])
        <3>1. /\ [confirm[p] EXCEPT !.pc = "prepared", !.refusal = "locked"].pc = "prepared"
              /\ [confirm[p] EXCEPT !.pc = "prepared", !.refusal = "locked"].refusal = "locked"
            BY <1>0 DEF Confirmation
        <3> QED BY <2>1, <3>1
    <2>2. CASE Step(p, [confirm[p] EXCEPT !.pc = "prepared", !.refusal = "bytes"])
        <3>1. /\ [confirm[p] EXCEPT !.pc = "prepared", !.refusal = "bytes"].pc = "prepared"
              /\ [confirm[p] EXCEPT !.pc = "prepared", !.refusal = "bytes"].refusal = "bytes"
            BY <1>0 DEF Confirmation
        <3> QED BY <2>2, <3>1
    <2>3. CASE staged \in Acceptable
               /\ Step(p, [confirm[p] EXCEPT !.pc = "inspected", !.content = staged])
        <3>1. /\ [confirm[p] EXCEPT !.pc = "inspected", !.content = staged].pc = "inspected"
              /\ [confirm[p] EXCEPT !.pc = "inspected", !.content = staged].content = staged
            BY <1>0 DEF Confirmation
        <3> QED BY <2>3, <3>1
    <2> QED BY <2>1, <2>2, <2>3 DEF Inspect
<1>2. confirm'[p] = r
    BY <1>1, StepOf DEF IInv
<1>3. ConfirmFits(p)'
    BY <1>0, <1>1, <1>2 DEF ConfirmFits, Promoting
<1> QED BY <1>0, <1>1, <1>3, ConfirmerMoves

LEMMA GiveUpKeeps ==
    ASSUME IInv, NEW p \in Confirmers, GiveUp(p)
    PROVE  Rest'
<1>1. Step(p, Idle) /\ Idle.pc # "putting"
    BY DEF GiveUp, Idle
<1>2. ConfirmFits(p)'
    BY <1>1, StepOf, IdleFits DEF IInv
<1> QED BY <1>1, <1>2, ConfirmerMoves DEF GiveUp, storeVars

LEMMA RecordCandidateKeeps ==
    ASSUME IInv, NEW p \in Confirmers, RecordCandidate(p)
    PROVE  Rest'
<1> DEFINE c == confirm[p].content
           r == [confirm[p] EXCEPT !.pc = "putting"]
<1>1. /\ doc.status = "pending" /\ ~Queued(c) /\ c \in Acceptable
      /\ confirm[p] \in Confirmation /\ Step(p, r)
      /\ UNCHANGED <<lease, staged, finals, queue, late>>
    BY DEF IInv, TypeOK, Rest, ConfirmsFit, ConfirmFits, RecordCandidate, storeVars
<1>2. /\ doc'.status = "pending" /\ doc'.key = doc.key
      /\ doc'.candidates = doc.candidates \cup {c}
    BY <1>1 DEF IInv, TypeOK, Document, RecordCandidate
<1>3. r.pc = "putting" /\ r.content = c
    BY <1>1 DEF Confirmation
<1> HIDE DEF c, r
<1>4. /\ confirm'[p] = r
      /\ \A q \in Confirmers : q # p => confirm'[q] = confirm[q]
    BY <1>1, StepOf DEF IInv
<1>5. \A s : (Queued(s)' <=> Queued(s)) /\ (Undrained(s)' <=> Undrained(s))
    BY <1>1 DEF Queued, Undrained
<1>6. \A s : ~Serves(s) /\ ~Serves(s)'
    BY <1>1, <1>2 DEF Serves
<1>7. RowFits'
    BY <1>1, <1>2 DEF IInv, Rest, RowFits
<1>8. EvidenceFits'
    BY <1>2 DEF EvidenceFits
<1>9. ConfirmsFit'
    <2>1. ConfirmFits(p)'
        BY <1>1, <1>2, <1>3, <1>4 DEF ConfirmFits, Promoting
    <2>2. ASSUME NEW q \in Confirmers, q # p PROVE ConfirmFits(q)'
        BY <1>1, <1>2, <1>4, <1>5, <1>6, <2>2
           DEF IInv, Rest, ConfirmsFit, ConfirmFits, Promoting
    <2> QED BY <2>1, <2>2 DEF ConfirmsFit
<1>10. EntriesOutwait'
    <2> SUFFICES ASSUME NEW e \in queue PROVE Outwaits(e)'
        BY <1>1 DEF EntriesOutwait
    <2>1. e.slot # c /\ Outwaits(e)
        BY <1>1 DEF Queued, IInv, Rest, EntriesOutwait
    <2> QED BY <1>1, <1>3, <1>4, <2>1 DEF Outwaits
<1>11. StagingQueued'
    BY <1>1, <1>2, <1>5 DEF IInv, Rest, StagingQueued
<1>12. FinalsOwned'
    BY <1>1, <1>2, <1>5, <1>6 DEF IInv, Rest, FinalsOwned
<1>13. StagedOwned'
    BY <1>2 DEF StagedOwned
<1> QED BY <1>1, <1>7, <1>8, <1>9, <1>10, <1>11, <1>12, <1>13, Untouched DEF IInv, Rest

LEMMA PutFinalKeeps ==
    ASSUME IInv, NEW p \in Confirmers, PutFinal(p)
    PROVE  Rest'
<1> DEFINE c == confirm[p].content
<1>1. /\ confirm[p] \in Confirmation /\ confirm[p].pc = "putting" /\ confirm[p].left > 0
      /\ finals' = finals \cup {c}
      /\ UNCHANGED <<doc, lease, staged, queue, late>>
    BY DEF IInv, TypeOK, PutFinal
<1>2. /\ c \in Acceptable /\ doc.status # "none"
      /\ doc.status = "pending" => c \in doc.candidates
      /\ doc.status = "pending" \/ Serves(c) \/ Queued(c)
    BY <1>1 DEF IInv, Rest, ConfirmsFit, ConfirmFits, Promoting
<1>3. PICK r : /\ Step(p, r)
               /\ r = Idle \/ (r.pc = "prepared" /\ r.content = c)
    <2>1. /\ [confirm[p] EXCEPT !.pc = "prepared"].pc = "prepared"
          /\ [confirm[p] EXCEPT !.pc = "prepared"].content = c
        BY <1>1 DEF Confirmation
    <2> QED BY <2>1 DEF PutFinal
<1> HIDE DEF c
<1>4. /\ confirm'[p] = r
      /\ \A q \in Confirmers : q # p => confirm'[q] = confirm[q]
    BY <1>3, StepOf DEF IInv
<1>5. \A s : (Queued(s)' <=> Queued(s)) /\ (Undrained(s)' <=> Undrained(s))
    BY <1>1 DEF Queued, Undrained
<1>6. \A s : Serves(s)' <=> Serves(s)
    BY <1>1 DEF Serves
<1>7. ASSUME NEW e \in queue, e.slot = c PROVE e.state = "pending"
    <2>1. confirm[p].left <= e.wait /\ e.wait \in Nat /\ confirm[p].left \in 0 .. Deadline
        BY <1>1, <1>7 DEF c, IInv, TypeOK, Entry, Confirmation, Rest, EntriesOutwait, Outwaits
    <2>2. e.wait # 0
        BY <1>1, <2>1, UploadAssumption
    <2> QED BY <2>2 DEF IInv, Rest, EntriesFit, Gone
<1>8. ConfirmsFit'
    <2>1. ConfirmFits(p)'
        <3>1. CASE r = Idle
            BY <3>1, <1>4, IdleFits
        <3>2. CASE r.pc = "prepared" /\ r.content = c
            BY <3>2, <1>1, <1>2, <1>4, <1>5 DEF ConfirmFits, Promoting
        <3> QED BY <1>3, <3>1, <3>2
    <2>2. ASSUME NEW q \in Confirmers, q # p PROVE ConfirmFits(q)'
        BY <1>1, <1>4, <1>5, <1>6, <2>2 DEF IInv, Rest, ConfirmsFit, ConfirmFits, Promoting
    <2> QED BY <2>1, <2>2 DEF ConfirmsFit
<1>9. EntriesOutwait'
    <2>1. \A q \in Confirmers : confirm'[q].pc = "putting" => confirm'[q] = confirm[q]
        BY <1>3, <1>4 DEF Idle
    <2> QED BY <1>1, <2>1, StillOutwaits DEF IInv, Rest
<1>10. EntriesFit'
    BY <1>1, <1>7 DEF IInv, Rest, EntriesFit, Gone
<1>11. FinalsOwned'
    <2>1. Queued(c) => Undrained(c)
        BY <1>7 DEF Queued, Undrained
    <2> QED BY <1>1, <1>2, <1>5, <1>6, <2>1 DEF IInv, Rest, FinalsOwned
<1>12. EvidenceFits'
    BY <1>1, <1>5 DEF IInv, Rest, EvidenceFits
<1> QED BY <1>1, <1>8, <1>9, <1>10, <1>11, <1>12, Untouched DEF IInv, Rest

-----------------------------------------------------------------------------
(* The transactions that settle the row or clean up after it.               *)

\* Entries that outwait every confirmation and every URL keep the queue right.
LEMMA QueueGrows ==
    ASSUME IInv, NEW N, queue' = queue \cup N,
           UNCHANGED <<lease, staged, finals, late>>,
           \A e \in N : /\ e.state = "pending"
                        /\ e.slot \in Contents => e.wait = Deadline
                        /\ e.slot = Staging => e.wait = lease,
           \A q \in Confirmers : confirm'[q] = confirm[q] \/ confirm'[q] = Idle
    PROVE  LateFits' /\ EntriesOutwait' /\ EntriesFit'
<1>1. LateFits'
    BY Enqueued DEF IInv, Rest, LateFits
<1>2. \A q \in Confirmers : confirm'[q].pc = "putting" => confirm'[q] = confirm[q]
    BY DEF Idle
<1>3. EntriesOutwait'
    <2>1. ASSUME NEW e \in queue PROVE Outwaits(e)'
        BY <1>2 DEF IInv, Rest, EntriesOutwait, Outwaits
    <2>2. ASSUME NEW e \in N PROVE Outwaits(e)'
        <3>1. ASSUME NEW q \in Confirmers, confirm'[q].pc = "putting",
                     confirm'[q].content = e.slot
              PROVE  confirm'[q].left <= e.wait
            <4>1. confirm'[q] = confirm[q] /\ confirm[q] \in Confirmation
                BY <3>1, <1>2 DEF IInv, TypeOK
            <4>2. confirm[q].content \in Contents
                BY <3>1, <4>1, PromotesContent DEF IInv, Promoting
            <4>3. e.wait = Deadline /\ confirm[q].left \in 0 .. Deadline
                BY <3>1, <4>1, <4>2 DEF Confirmation
            <4> QED BY <4>1, <4>3, UploadAssumption
        <3>2. e.slot = Staging => lease <= e.wait
            BY DEF IInv, TypeOK
        <3> QED BY <3>1, <3>2 DEF Outwaits
    <2> QED BY <2>1, <2>2 DEF EntriesOutwait
<1>4. EntriesFit'
    BY DEF IInv, Rest, EntriesFit, Gone
<1> QED BY <1>1, <1>3, <1>4

LEMMA ConfirmersStill ==
    ASSUME IInv, \A q \in Confirmers : confirm'[q] = confirm[q] \/ confirm'[q] = Idle,
           doc'.status # "none",
           doc'.status = "pending" =>
               doc.status = "pending" /\ doc.candidates \subseteq doc'.candidates,
           doc.status = "pending" /\ doc'.status # "pending" =>
               \A c \in doc.candidates : Serves(c)' \/ Queued(c)',
           \A c \in Contents : Serves(c) => Serves(c)' \/ Queued(c)',
           \A s : Queued(s) => Queued(s)',
           UNCHANGED finals
    PROVE  ConfirmsFit'
<1> SUFFICES ASSUME NEW q \in Confirmers PROVE ConfirmFits(q)'
    BY DEF ConfirmsFit
<1>1. CASE confirm'[q] = Idle
    BY <1>1, IdleFits
<1>2. CASE confirm'[q] = confirm[q]
    <2>1. ConfirmFits(q)
        BY DEF IInv, Rest, ConfirmsFit
    <2> QED BY <1>2, <2>1, StillFits
<1> QED BY <1>1, <1>2

\* A row that is settled, or withdrawn, hands over all it owned.
LEMMA RowSettles ==
    ASSUME IInv, NEW N, queue' = queue \cup N,
           UNCHANGED <<lease, staged, finals, late>>,
           \A e \in N : /\ e.state = "pending"
                        /\ e.slot \in Contents => e.wait = Deadline
                        /\ e.slot = Staging => e.wait = lease,
           \A q \in Confirmers : confirm'[q] = confirm[q] \/ confirm'[q] = Idle,
           doc.status # "none", doc'.status \in Settled,
           doc.status = "pending" => Undrained(Staging)' /\ Queued(Staging)',
           doc.status = "pending" =>
               \A c \in doc.candidates : Serves(c)' \/ (Queued(c)' /\ Undrained(c)'),
           \A c \in Contents : Serves(c) => Serves(c)' \/ (Queued(c)' /\ Undrained(c)'),
           RowFits', EvidenceFits'
    PROVE  Rest'
<1>1. /\ \A s : Queued(s) => Queued(s)'
      /\ \A s : Undrained(s) => Undrained(s)'
    BY Enqueued
<1>2. LateFits' /\ EntriesOutwait' /\ EntriesFit'
    BY QueueGrows
<1>3. ConfirmsFit'
    BY <1>1, ConfirmersStill DEF Settled
<1>4. StagingQueued'
    BY <1>1 DEF IInv, TypeOK, Document, Statuses, Rest, StagingQueued, Settled
<1>5. FinalsOwned'
    BY <1>1 DEF IInv, TypeOK, Rest, FinalsOwned
<1>6. StagedOwned'
    BY <1>1 DEF IInv, Rest, StagedOwned
<1> QED BY <1>2, <1>3, <1>4, <1>5, <1>6 DEF Rest

LEMMA StagingEntryIs ==
    /\ \A e \in StagingEntry : e.slot = Staging /\ e.wait = lease /\ e.state = "pending"
    /\ StagingEntry \subseteq queue' => Queued(Staging)' /\ Undrained(Staging)'
BY EntriesAre, EnqueuedKeys DEF StagingEntry

LEMMA CandidateEntriesAre ==
    ASSUME NEW S
    PROVE  /\ \A e \in CandidateEntries(S) :
                  e.slot \in S /\ e.wait = Deadline /\ e.state = "pending"
           /\ CandidateEntries(S) \subseteq queue' =>
                  \A s \in S : Queued(s)' /\ Undrained(s)'
BY EntriesAre, EnqueuedKeys DEF CandidateEntries

\* The row, with its key served or not, has entries for all it names.
LEMMA DocumentEntriesAre ==
    ASSUME IInv, doc.status # "none"
    PROVE  /\ \A e \in DocumentEntries :
                  /\ e.state = "pending"
                  /\ e.slot \in Contents => e.wait = Deadline
                  /\ e.slot = Staging => e.wait = lease
           /\ DocumentEntries \subseteq queue' =>
                  /\ Queued(Staging)' /\ Undrained(Staging)'
                  /\ \A c \in doc.candidates : Queued(c)' /\ Undrained(c)'
                  /\ \A c : Serves(c) => Queued(c)' /\ Undrained(c)'
<1>1. doc.key \in doc.candidates \cup {Staging}
    BY DEF IInv, Rest, RowFits
<1>2. Entries({doc.key} \ (doc.candidates \cup {Staging}), 0) = {}
    BY <1>1 DEF Entries
<1>3. DocumentEntries = CandidateEntries(doc.candidates) \cup StagingEntry
    BY <1>2 DEF DocumentEntries
<1>4. Staging \notin Contents /\ doc.candidates \subseteq Contents
    BY UploadAssumption DEF IInv, TypeOK, Document
<1>5. \A c : Serves(c) => c \in doc.candidates
    BY DEF Serves, IInv, Rest, RowFits
<1>6. \A e \in DocumentEntries :
          /\ e.state = "pending"
          /\ e.slot \in Contents => e.wait = Deadline
          /\ e.slot = Staging => e.wait = lease
    BY <1>3, <1>4, CandidateEntriesAre, StagingEntryIs
<1>7. ASSUME DocumentEntries \subseteq queue'
      PROVE  /\ Queued(Staging)' /\ Undrained(Staging)'
             /\ \A c \in doc.candidates : Queued(c)' /\ Undrained(c)'
    <2>1. CandidateEntries(doc.candidates) \subseteq queue' /\ StagingEntry \subseteq queue'
        BY <1>3, <1>7
    <2> QED BY <2>1, CandidateEntriesAre, StagingEntryIs
<1> QED BY <1>5, <1>6, <1>7

LEMMA ConfirmTooLateKeeps ==
    ASSUME IInv, NEW p \in Confirmers, Confirm(p), ConfirmTooLate(p)
    PROVE  Rest'
<1>1. /\ queue' = queue \cup Cleanup(p) /\ doc.status # "none"
      /\ UNCHANGED <<doc, lease, staged, finals, late>>
    BY DEF Confirm, ConfirmTooLate, storeVars
<1>2. /\ \A q \in Confirmers : confirm'[q] = confirm[q] \/ confirm'[q] = Idle
    BY StepOf DEF IInv, Confirm
<1>3. doc.candidates \cup Promoted(p) \subseteq Contents
    BY PromotesContent DEF IInv, TypeOK, Document, Promoted, Promoting, Confirm
<1>4. \A e \in Cleanup(p) : /\ e.state = "pending" /\ e.wait = Deadline
                            /\ e.slot \in Contents /\ e.slot # doc.key
    BY <1>3, CandidateEntriesAre DEF Cleanup
<1>5. /\ \A s : Queued(s) => Queued(s)'
      /\ \A s : Undrained(s) => Undrained(s)'
      /\ \A s : Queued(s)' => Queued(s) \/ \E e \in Cleanup(p) : e.slot = s
    BY <1>1, Enqueued
<1>6. \A s : Serves(s)' <=> Serves(s)
    BY <1>1 DEF Serves
<1>7. LateFits' /\ EntriesOutwait' /\ EntriesFit'
    BY <1>1, <1>2, <1>4, QueueGrows, UploadAssumption
<1>8. EvidenceFits'
    BY <1>1, <1>4, <1>5 DEF IInv, Rest, EvidenceFits
<1>9. ConfirmsFit'
    BY <1>1, <1>2, <1>5, <1>6, ConfirmersStill
<1>10. StagingQueued'
    BY <1>1, <1>4, <1>5, UploadAssumption DEF IInv, Rest, StagingQueued
<1>11. FinalsOwned'
    BY <1>1, <1>5, <1>6 DEF IInv, Rest, FinalsOwned
<1>12. StagedOwned'
    BY <1>1, <1>5 DEF IInv, Rest, StagedOwned
<1>13. RowFits'
    BY <1>1, Untouched DEF IInv
<1> QED BY <1>7, <1>8, <1>9, <1>10, <1>11, <1>12, <1>13 DEF Rest

LEMMA ConfirmRefusedKeeps ==
    ASSUME IInv, NEW p \in Confirmers, Confirm(p), ConfirmRefused(p)
    PROVE  Rest'
<1> DEFINE N == StagingEntry \cup Cleanup(p)
<1>1. /\ queue' = queue \cup N /\ doc.status = "pending"
      /\ UNCHANGED <<lease, staged, finals, late>>
    BY DEF Confirm, ConfirmRefused, storeVars
<1>2. doc'.status = "failed" /\ doc'.key = Staging
    BY DEF ConfirmRefused, IInv, TypeOK, Document, Rest, RowFits
<1>3. /\ \A q \in Confirmers : confirm'[q] = confirm[q] \/ confirm'[q] = Idle
    BY StepOf DEF IInv, Confirm
<1>4. doc.candidates \cup Promoted(p) \subseteq Contents /\ doc.key = Staging
    BY <1>1, PromotesContent
       DEF IInv, TypeOK, Document, Rest, RowFits, Promoted, Promoting, Confirm
<1>5. \A e \in N : /\ e.state = "pending"
                   /\ e.slot \in Contents => e.wait = Deadline
                   /\ e.slot = Staging => e.wait = lease
    BY <1>4, CandidateEntriesAre, StagingEntryIs, UploadAssumption DEF Cleanup
<1>6. Queued(Staging)' /\ Undrained(Staging)'
    BY <1>1, StagingEntryIs
<1>7. \A c \in doc.candidates : Queued(c)' /\ Undrained(c)'
    <2>1. CandidateEntries((doc.candidates \cup Promoted(p)) \ {doc.key}) \subseteq queue'
        BY <1>1 DEF Cleanup
    <2> QED BY <2>1, <1>4, CandidateEntriesAre, UploadAssumption
<1>8. \A c \in Contents : ~Serves(c)
    BY <1>1 DEF Serves
<1>9. RowFits' /\ EvidenceFits'
    BY <1>2 DEF RowFits, EvidenceFits
<1> HIDE DEF N
<1> QED BY <1>1, <1>2, <1>3, <1>5, <1>6, <1>7, <1>8, <1>9, RowSettles DEF Settled

LEMMA ConfirmUploadedKeeps ==
    ASSUME IInv, NEW p \in Confirmers, Confirm(p), ConfirmUploaded(p)
    PROVE  Rest'
<1>0. PICK k : k = confirm[p].content
    OBVIOUS
<1> DEFINE N == StagingEntry \cup CandidateEntries(doc.candidates \ {k})
<1>1. /\ queue' = queue \cup N /\ doc.status = "pending"
      /\ ~Queued(k)
      /\ UNCHANGED <<lease, staged, finals, late>>
    BY <1>0 DEF Confirm, ConfirmUploaded, storeVars
<1>2. k \in Acceptable /\ k \in finals /\ k \in doc.candidates /\ k # Staging
    <2>1. ConfirmFits(p)
        BY DEF IInv, Rest, ConfirmsFit
    <2>2. k \in Acceptable /\ k \in finals /\ k \in doc.candidates
        BY <2>1, <1>0, <1>1 DEF ConfirmFits, Promoting, Confirm, ConfirmUploaded
    <2> QED BY <2>2, UploadAssumption
<1>3. doc'.status = "uploaded" /\ doc'.key = k /\ doc'.candidates = doc.candidates
    BY <1>0 DEF ConfirmUploaded, IInv, TypeOK, Document
<1>4. /\ \A q \in Confirmers : confirm'[q] = confirm[q] \/ confirm'[q] = Idle
    BY StepOf DEF IInv, Confirm
<1>5. doc.candidates \subseteq Contents
    BY DEF IInv, TypeOK, Document
<1>6. \A e \in N : /\ e.state = "pending"
                   /\ e.slot \in Contents => e.wait = Deadline
                   /\ e.slot = Staging => e.wait = lease
                   /\ e.slot # k
    BY <1>2, <1>5, CandidateEntriesAre, StagingEntryIs, UploadAssumption
<1>7. Queued(Staging)' /\ Undrained(Staging)'
    BY <1>1, StagingEntryIs
<1>8. Serves(k)'
    BY <1>3 DEF Serves
<1>9. \A c \in doc.candidates : Serves(c)' \/ (Queued(c)' /\ Undrained(c)')
    <2>1. CandidateEntries(doc.candidates \ {k}) \subseteq queue'
        BY <1>1
    <2> QED BY <2>1, <1>8, CandidateEntriesAre
<1>10. \A c \in Contents : ~Serves(c)
    BY <1>1 DEF Serves
<1>11. EvidenceFits'
    <2>1. ~Queued(k)'
        BY <1>1, <1>6, Enqueued
    <2> QED BY <2>1, <1>1, <1>2, <1>3 DEF EvidenceFits, Queued
<1>12. RowFits'
    BY <1>2, <1>3 DEF RowFits
<1> HIDE DEF N
<1> QED BY <1>1, <1>3, <1>4, <1>6, <1>7, <1>9, <1>10, <1>11, <1>12, RowSettles DEF Settled

LEMMA SettleKeeps ==
    ASSUME IInv, DeleteDocument \/ ExpireUpload
    PROVE  Rest'
<1>1. /\ queue' = queue \cup DocumentEntries /\ doc.status # "none"
      /\ UNCHANGED <<lease, staged, finals, late, confirm>>
      /\ doc'.status \in {"failed", "deleted"} /\ doc'.key = Staging
    BY DEF DeleteDocument, ExpireUpload, storeVars, IInv, TypeOK, Document, Rest, RowFits
<1>2. DocumentEntries \subseteq queue'
    BY <1>1
<1>3. RowFits' /\ EvidenceFits'
    BY <1>1 DEF RowFits, EvidenceFits
<1> QED BY <1>1, <1>2, <1>3, DocumentEntriesAre, RowSettles DEF Settled

LEMMA RetireFailedKeeps ==
    ASSUME IInv, RetireFailed
    PROVE  Rest'
<1> DEFINE N == CandidateEntries(doc.candidates)
<1>1. /\ queue' = queue \cup N /\ doc.status = "failed"
      /\ UNCHANGED <<lease, staged, finals, late, confirm>>
      /\ doc'.status = "deleted" /\ doc'.key = Staging
    BY DEF RetireFailed, storeVars, IInv, TypeOK, Document, Rest, RowFits
<1>2. doc.candidates \subseteq Contents
    BY DEF IInv, TypeOK, Document
<1>3. \A e \in N : /\ e.state = "pending" /\ e.wait = Deadline /\ e.slot \in Contents
    BY <1>2, CandidateEntriesAre
<1>4. RowFits' /\ EvidenceFits'
    BY <1>1 DEF RowFits, EvidenceFits
<1>5. \A c \in Contents : ~Serves(c)
    BY <1>1 DEF Serves
<1> HIDE DEF N
<1> QED BY <1>1, <1>3, <1>4, <1>5, RowSettles, UploadAssumption DEF Settled

-----------------------------------------------------------------------------
(* The drain and time.                                                      *)

LEMMA RemoveTakes ==
    ASSUME NEW s, Remove(s), TypeOK
    PROVE  /\ finals' \subseteq finals /\ s \notin finals'
           /\ \A c \in finals : c # s => c \in finals'
           /\ staged' = staged \/ staged' = NoContent
           /\ s = Staging => staged' = NoContent
BY UploadAssumption DEF Remove, TypeOK

\* An entry moves on, and only a due one takes its object along.
LEMMA EntryMovesOn ==
    ASSUME IInv, NEW e \in queue, NEW st, Becomes(e, st),
           UNCHANGED <<doc, lease, late, confirm>>,
           finals' \subseteq finals,
           staged' = staged \/ staged' = NoContent,
           \A c \in finals : c # e.slot => c \in finals',
           e.state = "pending" =>
               /\ e.wait = 0
               /\ e.slot \notin finals'
               /\ e.slot = Staging => staged' = NoContent
    PROVE  Rest'
<1> DEFINE d == [e EXCEPT !.state = st]
<1>1. /\ \A s : Queued(s)' <=> Queued(s)
      /\ \A s : s # e.slot => (Undrained(s) => Undrained(s)')
      /\ e.state # "pending" => \A s : Undrained(s) => Undrained(s)'
      /\ \A f \in queue' : f \in queue \/ f = d
    BY DrainKeepsSlots DEF IInv, TypeOK
<1>2. d.slot = e.slot /\ d.wait = e.wait
    BY DEF IInv, TypeOK, Entry
<1>3. Queued(e.slot)
    BY DEF Queued
<1> HIDE DEF d
<1>4. \A s : Serves(s)' <=> Serves(s)
    BY DEF Serves
<1>5. RowFits'
    BY DEF IInv, Rest, RowFits
<1>6. EvidenceFits'
    BY <1>1, <1>3 DEF IInv, Rest, EvidenceFits
<1>7. LateFits'
    BY <1>1 DEF IInv, Rest, LateFits
<1>8. ConfirmsFit'
    <2> SUFFICES ASSUME NEW q \in Confirmers PROVE ConfirmFits(q)'
        BY DEF ConfirmsFit
    <2>1. ConfirmFits(q) /\ confirm'[q] = confirm[q]
        BY DEF IInv, Rest, ConfirmsFit
    <2>2. \A c \in finals : c \in finals' \/ Queued(c)'
        BY <1>1, <1>3
    <2> QED BY <1>1, <1>4, <2>1, <2>2, StillFits
<1>9. EntriesOutwait'
    <2>1. Outwaits(e)
        BY DEF IInv, Rest, EntriesOutwait
    <2>2. \A f \in queue' : Outwaits(f)'
        BY <1>1, <1>2, <2>1 DEF IInv, Rest, EntriesOutwait, Outwaits
    <2> QED BY <2>2 DEF EntriesOutwait
<1>10. EntriesFit'
    <2>1. ASSUME NEW f \in queue, f.state # "pending" PROVE Gone(f)'
        BY <2>1 DEF IInv, Rest, EntriesFit, Gone
    <2>2. Gone(d)'
        <3>1. CASE e.state = "pending"
            BY <3>1, <1>2 DEF Gone
        <3>2. CASE e.state # "pending"
            BY <3>2, <2>1, <1>2 DEF Gone
        <3> QED BY <3>1, <3>2
    <2> QED BY <1>1, <2>1, <2>2 DEF EntriesFit
<1>11. StagingQueued'
    BY <1>1 DEF IInv, Rest, StagingQueued
<1>12. FinalsOwned'
    BY <1>1, <1>4 DEF IInv, Rest, FinalsOwned
<1>13. StagedOwned'
    BY <1>1 DEF IInv, Rest, StagedOwned
<1> QED BY <1>5, <1>6, <1>7, <1>8, <1>9, <1>10, <1>11, <1>12, <1>13 DEF Rest

LEMMA DrainKeeps ==
    ASSUME IInv, NEW e \in queue, Drain(e)
    PROVE  Rest'
<1>1. CASE DeleteObject(e)
    <2>1. Remove(e.slot) /\ TypeOK
        BY <1>1 DEF DeleteObject, IInv
    <2>2. /\ finals' \subseteq finals /\ e.slot \notin finals'
          /\ \A c \in finals : c # e.slot => c \in finals'
          /\ staged' = staged \/ staged' = NoContent
          /\ e.slot = Staging => staged' = NoContent
        BY <2>1, RemoveTakes
    <2> QED BY <1>1, <2>2, EntryMovesOn DEF DeleteObject
<1>2. CASE CompleteDeletion(e)
    BY <1>2, EntryMovesOn DEF CompleteDeletion, storeVars
<1>3. CASE AbandonDeletion(e)
    BY <1>3, EntryMovesOn DEF AbandonDeletion, storeVars
<1>4. CASE DeferDeletion(e)
    <2>1. Queued(e.slot) /\ late' = late \cup {e.slot} /\ UNCHANGED queue
        BY <1>4 DEF Queued, DeferDeletion
    <2>2. LateFits'
        BY <2>1 DEF IInv, Rest, LateFits, Queued
    <2> QED BY <1>4, <2>2, Untouched DEF IInv, Rest, DeferDeletion, storeVars
<1> QED BY <1>1, <1>2, <1>3, <1>4 DEF Drain

LEMMA LateDeleteKeeps ==
    ASSUME IInv, NEW s \in late, LateDelete(s)
    PROVE  Rest'
<1>1. /\ finals' \subseteq finals
      /\ \A c \in finals : c # s => c \in finals'
      /\ staged' = staged \/ staged' = NoContent
    BY RemoveTakes DEF IInv, LateDelete
<1>2. UNCHANGED <<doc, lease, queue, confirm>> /\ late' = late \ {s}
    BY DEF LateDelete
<1>3. Queued(s)
    BY DEF IInv, Rest, LateFits
<1>4. /\ \A k : (Queued(k)' <=> Queued(k)) /\ (Undrained(k)' <=> Undrained(k))
      /\ \A c : Serves(c)' <=> Serves(c)
    BY <1>2 DEF Queued, Undrained, Serves
<1>5. RowFits'
    BY <1>1, <1>2 DEF IInv, Rest, RowFits
<1>6. EvidenceFits'
    BY <1>1, <1>2, <1>3, <1>4 DEF IInv, Rest, EvidenceFits
<1>7. LateFits'
    BY <1>2, <1>4 DEF IInv, Rest, LateFits
<1>8. ConfirmsFit'
    <2> SUFFICES ASSUME NEW q \in Confirmers PROVE ConfirmFits(q)'
        BY DEF ConfirmsFit
    <2>1. ConfirmFits(q) /\ confirm'[q] = confirm[q]
        BY <1>2 DEF IInv, Rest, ConfirmsFit
    <2>2. \A c \in finals : c \in finals' \/ Queued(c)'
        BY <1>1, <1>3, <1>4
    <2> QED BY <1>2, <1>4, <2>1, <2>2, StillFits
<1>9. EntriesFit'
    BY <1>1, <1>2 DEF IInv, Rest, EntriesFit, Gone
<1>10. FinalsOwned'
    BY <1>1, <1>2, <1>4 DEF IInv, Rest, FinalsOwned
<1>11. StagedOwned'
    BY <1>1, <1>2, <1>4 DEF IInv, Rest, StagedOwned
<1> QED BY <1>2, <1>5, <1>6, <1>7, <1>8, <1>9, <1>10, <1>11, Untouched DEF IInv, Rest

LEMMA TickKeeps ==
    ASSUME IInv, Tick
    PROVE  Rest'
<1>1. /\ \A s : Queued(s)' <=> Queued(s)
      /\ \A s : Undrained(s) => Undrained(s)'
    BY TickKeepsSlots DEF IInv, TypeOK
<1>2. UNCHANGED <<doc, staged, finals, late>> /\ lease' = Less(lease)
    BY DEF Tick, storeVars
<1>3. /\ Less(0) = 0
      /\ \A m, n \in Nat : m <= n => Less(m) <= Less(n)
    BY DEF Less
<1>4. \A s : Serves(s)' <=> Serves(s)
    BY <1>2 DEF Serves
<1>5. \A q \in Confirmers : /\ confirm'[q].pc = confirm[q].pc
                            /\ confirm'[q].content = confirm[q].content
                            /\ confirm'[q].refusal = confirm[q].refusal
                            /\ confirm'[q].left = Less(confirm[q].left)
    <2> SUFFICES ASSUME NEW q \in Confirmers
                 PROVE  /\ confirm'[q].pc = confirm[q].pc
                        /\ confirm'[q].content = confirm[q].content
                        /\ confirm'[q].refusal = confirm[q].refusal
                        /\ confirm'[q].left = Less(confirm[q].left)
        OBVIOUS
    <2>1. confirm[q] \in Confirmation
        BY DEF IInv, TypeOK
    <2>2. confirm'[q] = [confirm[q] EXCEPT !.left = Less(confirm[q].left)]
        BY DEF Tick
    <2> QED BY <2>1, <2>2 DEF Confirmation
<1>6. ASSUME NEW f \in queue'
      PROVE  \E e \in queue : /\ f.slot = e.slot /\ f.state = e.state
                              /\ f.wait = Less(e.wait)
    <2>1. PICK e \in queue : f = [e EXCEPT !.wait = Less(e.wait)]
        BY <1>6 DEF Tick
    <2>2. e \in Entry
        BY DEF IInv, TypeOK
    <2>3. f.slot = e.slot /\ f.state = e.state /\ f.wait = Less(e.wait)
        BY <2>1, <2>2 DEF Entry
    <2> QED BY <2>3
<1>7. RowFits'
    BY <1>2, <1>3 DEF IInv, Rest, RowFits
<1>8. EvidenceFits' /\ LateFits' /\ StagingQueued'
    BY <1>1, <1>2 DEF IInv, Rest, EvidenceFits, LateFits, StagingQueued
<1>9. ConfirmsFit'
    <2> SUFFICES ASSUME NEW q \in Confirmers PROVE ConfirmFits(q)'
        BY DEF ConfirmsFit
    <2>1. ConfirmFits(q)
        BY DEF IInv, Rest, ConfirmsFit
    <2>2. Promoting(q)' <=> Promoting(q)
        BY <1>5 DEF Promoting
    <2> QED BY <1>1, <1>2, <1>4, <1>5, <2>1, <2>2 DEF ConfirmFits
<1>10. EntriesOutwait'
    <2> SUFFICES ASSUME NEW f \in queue' PROVE Outwaits(f)'
        BY DEF EntriesOutwait
    <2>1. PICK e \in queue : f.slot = e.slot /\ f.wait = Less(e.wait)
        BY <1>6
    <2>2. e.wait \in Nat /\ lease \in Nat /\ Outwaits(e)
        BY DEF IInv, TypeOK, Entry, Rest, EntriesOutwait
    <2>3. ASSUME NEW q \in Confirmers, confirm'[q].pc = "putting",
                 confirm'[q].content = f.slot
          PROVE  confirm'[q].left <= f.wait
        <3>1. confirm[q].left <= e.wait
            BY <1>5, <2>1, <2>2, <2>3 DEF Outwaits
        <3>2. confirm[q].left \in Nat
            BY UploadAssumption DEF IInv, TypeOK, Confirmation
        <3> QED BY <1>3, <1>5, <2>1, <2>2, <3>1, <3>2
    <2>4. f.slot = Staging => lease' <= f.wait
        BY <1>2, <1>3, <2>1, <2>2 DEF Outwaits
    <2> QED BY <2>3, <2>4 DEF Outwaits
<1>11. EntriesFit'
    <2> SUFFICES ASSUME NEW f \in queue', f.state # "pending" PROVE Gone(f)'
        BY DEF EntriesFit
    <2>1. PICK e \in queue : /\ f.slot = e.slot /\ f.state = e.state
                             /\ f.wait = Less(e.wait)
        BY <1>6
    <2> QED BY <1>2, <1>3, <2>1 DEF IInv, Rest, EntriesFit, Gone
<1>12. FinalsOwned' /\ StagedOwned'
    BY <1>1, <1>2, <1>4 DEF IInv, Rest, FinalsOwned, StagedOwned
<1> QED BY <1>7, <1>8, <1>9, <1>10, <1>11, <1>12 DEF Rest

-----------------------------------------------------------------------------
(* The invariant.                                                           *)

LEMMA InitEstablishes ==
    ASSUME Init
    PROVE  IInv
<1>1. TypeOK
    BY IdleTyped, UploadAssumption DEF Init, TypeOK, Document, Statuses, Slots
<1>2. \A s : ~Queued(s) /\ ~Undrained(s)
    BY DEF Init, Queued, Undrained
<1>3. \A p \in Confirmers : ConfirmFits(p)
    BY DEF Init, Idle, ConfirmFits, Promoting
<1>4. RowFits /\ EvidenceFits /\ LateFits /\ EntriesOutwait /\ EntriesFit
    BY DEF Init, RowFits, EvidenceFits, LateFits, EntriesOutwait, EntriesFit
<1>5. StagingQueued /\ FinalsOwned /\ StagedOwned
    BY <1>2 DEF Init, Settled, StagingQueued, FinalsOwned, StagedOwned
<1> QED BY <1>1, <1>3, <1>4, <1>5 DEF IInv, Rest, ConfirmsFit

LEMMA NextKeeps ==
    ASSUME IInv, [Next]_vars
    PROVE  IInv'
<1>1. TypeOK'
    BY TypesKept
<1>2. CASE UNCHANGED vars
    BY <1>1, <1>2, Untouched DEF IInv, Rest, vars, storeVars
<1>3. CASE RequestUpload \/ RenewUpload
    BY <1>1, <1>3, RequestUploadKeeps, RenewUploadKeeps DEF IInv
<1>4. ASSUME NEW c \in Contents, ClientPut(c) PROVE IInv'
    BY <1>1, <1>4, ClientPutKeeps DEF IInv
<1>5. ASSUME NEW o \in Owners, ChangeOwner(o) PROVE IInv'
    BY <1>1, <1>5, ChangeOwnerKeeps DEF IInv
<1>6. ASSUME NEW p \in Confirmers,
             \/ StartConfirm(p) \/ Inspect(p) \/ RecordCandidate(p)
             \/ PutFinal(p) \/ GiveUp(p) \/ Confirm(p)
      PROVE  Rest'
    <2>1. CASE Confirm(p)
        BY <2>1, ConfirmTooLateKeeps, ConfirmRefusedKeeps, ConfirmUploadedKeeps DEF Confirm
    <2> QED BY <1>6, <2>1, StartConfirmKeeps, InspectKeeps, RecordCandidateKeeps,
            PutFinalKeeps, GiveUpKeeps
<1>7. CASE DeleteDocument \/ ExpireUpload \/ RetireFailed
    BY <1>1, <1>7, SettleKeeps, RetireFailedKeeps DEF IInv
<1>8. ASSUME NEW e \in queue, Drain(e) PROVE IInv'
    BY <1>1, <1>8, DrainKeeps DEF IInv
<1>9. ASSUME NEW s \in late, LateDelete(s) PROVE IInv'
    BY <1>1, <1>9, LateDeleteKeeps DEF IInv
<1>10. CASE Tick
    BY <1>1, <1>10, TickKeeps DEF IInv
<1>11. \/ RequestUpload \/ RenewUpload
       \/ \E c \in Contents : ClientPut(c)
       \/ \E o \in Owners : ChangeOwner(o)
       \/ \E p \in Confirmers :
             \/ StartConfirm(p) \/ Inspect(p) \/ RecordCandidate(p)
             \/ PutFinal(p) \/ GiveUp(p) \/ Confirm(p)
       \/ DeleteDocument \/ ExpireUpload \/ RetireFailed
       \/ \E e \in queue : Drain(e)
       \/ \E s \in late : LateDelete(s)
       \/ Tick
       \/ UNCHANGED vars
    BY DEF Next
<1> QED BY <1>1, <1>2, <1>3, <1>4, <1>5, <1>6, <1>7, <1>8, <1>9, <1>10, <1>11 DEF IInv

LEMMA IInvHolds == Spec => []IInv
<1>1. Init => IInv
    BY InitEstablishes
<1>2. IInv /\ [Next]_vars => IInv'
    BY NextKeeps
<1> QED BY <1>1, <1>2, PTL DEF Spec

-----------------------------------------------------------------------------
(* The vault.                                                               *)

LEMMA EvidenceIs ==
    ASSUME IInv
    PROVE  /\ doc.status = "uploaded" => Evidence = doc.key
           /\ doc.status = "deleted" => Evidence = "withdrawn"
           /\ doc.status \in {"none", "pending", "failed"} => Evidence = "empty"
<1>1. doc.status = "uploaded" => doc.key \in finals
    BY DEF IInv, Rest, EvidenceFits
<1> QED BY <1>1 DEF Evidence

LEMMA EvidenceIsNext ==
    ASSUME IInv'
    PROVE  /\ doc'.status = "uploaded" => Evidence' = doc'.key
           /\ doc'.status = "deleted" => Evidence' = "withdrawn"
           /\ doc'.status \in {"none", "pending", "failed"} => Evidence' = "empty"
<1>1. doc'.status = "uploaded" => doc'.key \in finals'
    BY DEF IInv, Rest, EvidenceFits
<1> QED BY <1>1 DEF Evidence

LEMMA VaultSteps ==
    ASSUME IInv, IInv', [Next]_vars
    PROVE  [Vault!VaultNext]_(Vault!vaultVars)
<1> USE DEF Vault!VaultNext, Vault!vaultVars
<1>1. doc.status \in Statuses /\ doc \in Document
    BY DEF IInv, TypeOK, Document
<1>2. ASSUME UNCHANGED doc PROVE Evidence' = Evidence
    BY <1>1, <1>2, EvidenceIs, EvidenceIsNext DEF Statuses
<1>3. CASE UNCHANGED <<doc, owner>>
    BY <1>2, <1>3
<1>4. ASSUME NEW o \in Owners, ChangeOwner(o) PROVE Vault!VaultNext
    BY <1>2, <1>4 DEF ChangeOwner, Vault!Seal
<1>5. CASE /\ doc.status \in {"none", "pending", "failed"}
           /\ doc'.status \in {"none", "pending", "failed"} /\ UNCHANGED owner
    BY <1>5, EvidenceIs, EvidenceIsNext
<1>6. ASSUME NEW p \in Confirmers, Confirm(p), ConfirmUploaded(p) PROVE Vault!VaultNext
    <2>1. doc.status = "pending" /\ owner = "open" /\ UNCHANGED owner
        BY <1>6 DEF Confirm, ConfirmUploaded
    <2>2. doc'.status = "uploaded" /\ doc'.key = confirm[p].content
        BY <1>1, <1>6 DEF Document, ConfirmUploaded
    <2>3. confirm[p].content \in Acceptable
        BY <1>6 DEF IInv, Rest, ConfirmsFit, ConfirmFits, Promoting, Confirm, ConfirmUploaded
    <2>4. Evidence = "empty" /\ Evidence' = confirm[p].content
        BY <2>1, <2>2, EvidenceIs, EvidenceIsNext
    <2>5. Vault!Attach(confirm[p].content)
        BY <2>1, <2>4 DEF Vault!Attach
    <2> QED BY <2>3, <2>5
<1>7. CASE DeleteDocument
    <2>1. owner # "locked" /\ UNCHANGED owner /\ doc'.status = "deleted"
        BY <1>1, <1>7 DEF Document, DeleteDocument
    <2> QED BY <2>1, EvidenceIsNext DEF Vault!Withdraw
<1>8. CASE RetireFailed
    <2>1. UNCHANGED owner /\ doc.status = "failed" /\ doc'.status = "deleted"
        BY <1>1, <1>8 DEF Document, RetireFailed
    <2> QED BY <2>1, EvidenceIs, EvidenceIsNext DEF Vault!Discard
<1>9. CASE RequestUpload \/ ExpireUpload
    BY <1>1, <1>5, <1>9 DEF Document, RequestUpload, ExpireUpload
<1>10. CASE \E p \in Confirmers : RecordCandidate(p)
    BY <1>1, <1>5, <1>10 DEF Document, RecordCandidate
<1>11. CASE \E p \in Confirmers : Confirm(p)
    <2> SUFFICES ASSUME NEW p \in Confirmers, Confirm(p)
                 PROVE  [Vault!VaultNext]_(Vault!vaultVars)
        BY <1>11
    <2>1. CASE ConfirmTooLate(p)
        BY <1>3, <2>1 DEF Confirm, ConfirmTooLate
    <2>2. CASE ConfirmRefused(p)
        BY <1>1, <1>5, <2>2 DEF Document, Confirm, ConfirmRefused
    <2> QED BY <1>6, <2>1, <2>2 DEF Confirm
<1>12. \/ UNCHANGED <<doc, owner>>
       \/ \E o \in Owners : ChangeOwner(o)
       \/ RequestUpload \/ DeleteDocument \/ ExpireUpload \/ RetireFailed
       \/ \E p \in Confirmers : RecordCandidate(p) \/ Confirm(p)
    BY DEF Next, vars, RenewUpload, ClientPut, StartConfirm, Inspect, PutFinal, GiveUp,
        Drain, DeleteObject, CompleteDeletion, AbandonDeletion, DeferDeletion,
        LateDelete, Tick
<1> QED BY <1>3, <1>4, <1>7, <1>8, <1>9, <1>10, <1>11, <1>12

-----------------------------------------------------------------------------
(* Theorems.                                                                *)

\* Every variable stays within its type: no confirmation promotes anything
\* but a content, and every outbox entry names a key of the document.
THEOREM UploadTypes == Spec => []TypeOK
<1>1. IInv => TypeOK
    BY DEF IInv
<1> QED BY <1>1, IInvHolds, PTL

\* No crash, deadline or race leaves an object behind: whatever the store
\* holds is listed by a pending row, served by an uploaded one, or named by
\* an outbox entry that is still to be drained.
THEOREM ObjectsOwned == Spec => []ObjectsAreOwned
<1>1. IInv => ObjectsAreOwned
    <2> SUFFICES ASSUME IInv PROVE ObjectsAreOwned
        OBVIOUS
    <2>1. \A s : Undrained(s) => Pending(s)
        BY DEF Undrained, Pending
    <2>2. FinalsOwned /\ StagedOwned
        BY DEF IInv, Rest
    <2> QED BY <2>1, <2>2 DEF FinalsOwned, StagedOwned, ObjectsAreOwned
<1> QED BY <1>1, IInvHolds, PTL

\* A completed deletion is final: an entry waits for the last URL, its
\* transfer, and every confirmation that may still be writing the key.
THEOREM DeletionsAreFinal == Spec => []DeletedStaysDeleted
<1>1. IInv => DeletedStaysDeleted
    <2> SUFFICES ASSUME IInv, NEW e \in queue, e.state = "done"
                 PROVE  IF e.slot = Staging THEN staged = NoContent ELSE e.slot \notin finals
        BY DEF DeletedStaysDeleted
    <2>1. Gone(e)
        BY DEF IInv, Rest, EntriesFit
    <2> QED BY <2>1 DEF Gone
<1> QED BY <1>1, IInvHolds, PTL

\* Document uploads implement the evidence vault: the bytes a reader is
\* served are admitted by the declaration, attached once and never under a
\* sealed owner, and stay there, unchanged, until the document is withdrawn.
THEOREM EvidenceKept == Spec => EvidenceIsKept
<1>1. Init => Vault!VaultInit
    <2> SUFFICES ASSUME Init PROVE Vault!VaultInit
        OBVIOUS
    <2>1. doc.status = "none" /\ owner = "open"
        BY DEF Init
    <2>2. Evidence = "empty"
        BY <2>1 DEF Evidence
    <2> QED BY <2>1, <2>2 DEF Vault!VaultInit
<1>2. IInv /\ IInv' /\ [Next]_vars => [Vault!VaultNext]_(Vault!vaultVars)
    BY VaultSteps
<1> QED BY <1>1, <1>2, IInvHolds, PTL DEF Spec, EvidenceIsKept, Vault!VaultSpec
=============================================================================
