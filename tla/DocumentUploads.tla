-------------------------- MODULE DocumentUploads --------------------------
(***************************************************************************)
(* Uploading a document: a client writes an upload key under a leased URL, *)
(* confirmations inspect the bytes and promote them to a content-addressed *)
(* key, a sweep expires what was abandoned, and a deletion outbox removes  *)
(* objects from the store after the rows that named them are settled.      *)
(*                                                                         *)
(* One document: every key carries the id of its document, so documents    *)
(* share only the drain, which works on one outbox entry at a time.  Time  *)
(* is relative: every deadline is the time left until it, and Tick counts  *)
(* all of them down together, so no clock bounds the behaviours.           *)
(***************************************************************************)
EXTENDS Naturals, FiniteSets

CONSTANTS
    Confirmers,     \* processes that confirm the upload
    Contents,       \* what the client may write; a final key is its hash
    Acceptable,     \* the contents that match the declaration
    Staging,        \* the upload key, the only one a client may write
    NoContent,
    Owners,         \* the states its owner is put in: open, archived, locked
    Lease,          \* DOCUMENT_UPLOAD_LEASE_MS
    Grace,          \* DOCUMENT_UPLOAD_GRACE_MS
    MaxLifetime,    \* DOCUMENT_UPLOAD_MAX_LIFETIME_MS
    Deadline,       \* DOCUMENT_CONFIRM_DEADLINE_MS
    Reserve,        \* DOCUMENT_CONFIRM_DB_RESERVE_MS
    CandidateLimit  \* DOCUMENT_PROMOTION_CANDIDATE_LIMIT

ASSUME UploadAssumption ==
    /\ Acceptable \subseteq Contents
    /\ IsFiniteSet(Contents)
    /\ Staging \notin Contents /\ NoContent \notin Contents \cup {Staging}
    /\ "open" \in Owners /\ Owners \subseteq {"open", "archived", "locked"}
    /\ Lease \in Nat /\ Grace \in Nat /\ MaxLifetime \in Nat
    /\ Deadline \in Nat /\ Reserve \in 0 .. Deadline
    /\ CandidateLimit \in Nat

VARIABLES
    doc,        \* the documents row: status, storage key, candidates
    lease,      \* time left until upload_expires_at plus the grace
    life,       \* time left until the last lease can end, plus the grace
    owner,      \* the record the document belongs to
    staged,     \* the bytes under the upload key
    finals,     \* the final keys present in the store, named by content
    queue,      \* storage_object_deletions
    late,       \* keys whose timed-out delete request is still in flight
    confirm     \* the confirmations under way

storeVars == <<staged, finals>>
vars == <<doc, lease, life, owner, staged, finals, queue, late, confirm>>

Slots == Contents \cup {Staging}
Statuses == {"none", "pending", "uploaded", "failed", "deleted"}

Document == [status : Statuses, key : Slots, candidates : SUBSET Contents]
Entry == [slot : Slots, wait : Nat, state : {"pending", "deleted", "done"}]
Confirmation ==
    [pc : {"idle", "reading", "inspected", "putting", "prepared"},
     left : 0 .. Deadline,
     content : Contents \cup {NoContent},
     refusal : {"none", "bytes", "locked"}]

Idle == [pc |-> "idle", left |-> 0, content |-> NoContent, refusal |-> "none"]

Smaller(m, n) == IF m <= n THEN m ELSE n
Less(n) == IF n = 0 THEN 0 ELSE n - 1

Init ==
    /\ doc = [status |-> "none", key |-> Staging, candidates |-> {}]
    /\ lease = 0 /\ life = 0
    /\ owner = "open"
    /\ staged = NoContent /\ finals = {}
    /\ queue = {} /\ late = {}
    /\ confirm = [p \in Confirmers |-> Idle]

-----------------------------------------------------------------------------
(* The outbox, as the writers see it.  Entries of one key with the same     *)
(* deadline are one element: they are drained alike.                        *)

Entries(slots, wait) ==
    {[slot |-> s, wait |-> wait, state |-> "pending"] : s \in slots}

\* Any entry, drained or not, keeps a key from becoming evidence.
Queued(s) == \E e \in queue : e.slot = s

\* Mutant: the clean-up does not wait for confirmations under way.
CandidateEntriesNow(slots) == Entries(slots, 0)

\* enqueuePromotionCandidates: past any confirmation that may still be
\* writing one of them.
CandidateEntries(slots) == Entries(slots, Deadline)

\* The upload key waits for its last URL and the grace of a transfer.
StagingEntry == Entries({Staging}, lease)

\* enqueueDocumentKeys on the row as it stands.
DocumentEntries ==
    CandidateEntries(doc.candidates) \cup StagingEntry
        \cup Entries({doc.key} \ (doc.candidates \cup {Staging}), 0)

-----------------------------------------------------------------------------
(* The upload.                                                              *)

RequestUpload ==
    /\ doc.status = "none" /\ owner = "open"
    /\ doc' = [doc EXCEPT !.status = "pending"]
    /\ lease' = Lease + Grace
    /\ life' = MaxLifetime + Grace
    /\ UNCHANGED <<owner, storeVars, queue, late, confirm>>

\* Mutant: a lease is renewed without regard to the lifetime.
RenewUploadForever ==
    /\ doc.status = "pending" /\ owner = "open"
    /\ lease' = Lease + Grace
    /\ UNCHANGED <<doc, life, owner, storeVars, queue, late, confirm>>

\* A replayed request renews the lease, up to the lifetime of the upload.
RenewUpload ==
    /\ doc.status = "pending" /\ owner = "open"
    /\ life > Grace
    /\ lease' = Smaller(Lease + Grace, life)
    /\ UNCHANGED <<doc, life, owner, storeVars, queue, late, confirm>>

\* A PUT under an issued URL: admitted until the lease ends, finished at
\* the latest by the end of the grace, whatever became of the row.
ClientPut(c) ==
    /\ lease > 0
    /\ staged' = c
    /\ UNCHANGED <<doc, lease, life, owner, finals, queue, late, confirm>>

\* The owner is archived, restored, submitted or reopened by others.
ChangeOwner(o) ==
    /\ o # owner
    /\ owner' = o
    /\ UNCHANGED <<doc, lease, life, storeVars, queue, late, confirm>>

-----------------------------------------------------------------------------
(* A confirmation.  Its first steps hold no lock; every error, deadline or  *)
(* crash on the way is GiveUp.                                              *)

Step(p, fields) == confirm' = [confirm EXCEPT ![p] = fields]

StartConfirm(p) ==
    /\ confirm[p].pc = "idle" /\ doc.status = "pending"
    /\ Step(p, [Idle EXCEPT !.pc = "reading", !.left = Deadline])
    /\ UNCHANGED <<doc, lease, life, owner, storeVars, queue, late>>

\* Mutant: an object that is not there passes the inspection.
InspectNothing(p) ==
    /\ confirm[p].pc = "reading"
    /\ owner = "open" /\ confirm[p].left > Reserve
    /\ staged \in Acceptable \cup {NoContent}
    /\ Step(p, [confirm[p] EXCEPT !.pc = "inspected", !.content = staged])
    /\ UNCHANGED <<doc, lease, life, owner, storeVars, queue, late>>

\* inspectUploadOwner, the bounded read and inspectUploadBytes.
Inspect(p) ==
    /\ confirm[p].pc = "reading"
    /\ \/ /\ owner = "locked"
          /\ Step(p, [confirm[p] EXCEPT !.pc = "prepared", !.refusal = "locked"])
       \/ /\ owner = "open" /\ confirm[p].left > Reserve
          /\ staged \in Acceptable
          /\ Step(p, [confirm[p] EXCEPT !.pc = "inspected", !.content = staged])
       \/ /\ owner = "open" /\ confirm[p].left > Reserve
          /\ staged \in Contents \ Acceptable
          /\ Step(p, [confirm[p] EXCEPT !.pc = "prepared", !.refusal = "bytes"])
    /\ UNCHANGED <<doc, lease, life, owner, storeVars, queue, late>>

\* recordDocumentPromotionCandidate: the row owns the key before the PUT.
RecordCandidate(p) ==
    LET c == confirm[p].content
        candidates == doc.candidates \cup {c}
    IN  /\ confirm[p].pc = "inspected"
        /\ doc.status = "pending"
        /\ ~Queued(c)
        /\ Cardinality(candidates) <= CandidateLimit
        /\ doc' = [doc EXCEPT !.candidates = candidates]
        /\ Step(p, [confirm[p] EXCEPT !.pc = "putting"])
        /\ UNCHANGED <<lease, life, owner, storeVars, queue, late>>

\* The PUT lands.  Past the storage budget its caller has already given up
\* and the request lands alone; the store applies it by the deadline.
PutFinal(p) ==
    /\ confirm[p].pc = "putting" /\ confirm[p].left > 0
    /\ finals' = finals \cup {confirm[p].content}
    /\ \/ /\ confirm[p].left > Reserve
          /\ Step(p, [confirm[p] EXCEPT !.pc = "prepared"])
       \/ Step(p, Idle)
    /\ UNCHANGED <<doc, lease, life, owner, staged, queue, late>>

GiveUp(p) ==
    /\ confirm[p].pc # "idle"
    /\ Step(p, Idle)
    /\ UNCHANGED <<doc, lease, life, owner, storeVars, queue, late>>

-----------------------------------------------------------------------------
(* confirmDocumentUploadInTransaction, under the locks of owner and row.    *)

Promoted(p) ==
    IF confirm[p].refusal = "none" THEN {confirm[p].content} ELSE {}

\* cleanupFinal: everything the row or this confirmation may have written,
\* except the key the row serves.
Cleanup(p) ==
    CandidateEntries((doc.candidates \cup Promoted(p)) \ {doc.key})

\* The row is gone, settled, or its owner is archived: only clean up.
ConfirmTooLate(p) ==
    /\ \/ doc.status \in {"deleted", "uploaded", "failed"}
       \/ doc.status = "pending" /\ owner = "archived"
    /\ queue' = queue \cup Cleanup(p)
    /\ UNCHANGED doc

\* The lock of the owner is decided here, whatever the inspection saw; a
\* refusal for a lock that is gone rolls back (GiveUp).
ConfirmRefused(p) ==
    /\ doc.status = "pending"
    /\ owner = "locked" \/ (owner = "open" /\ confirm[p].refusal = "bytes")
    /\ doc' = [doc EXCEPT !.status = "failed"]
    /\ queue' = queue \cup StagingEntry \cup Cleanup(p)

\* Mutant: a key handed to the outbox may become evidence.
ConfirmQueued(p) ==
    LET c == confirm[p].content
    IN  /\ doc.status = "pending" /\ owner = "open"
        /\ confirm[p].refusal = "none"
        /\ doc' = [doc EXCEPT !.status = "uploaded", !.key = c]
        /\ queue' = queue \cup StagingEntry
                        \cup CandidateEntries(doc.candidates \ {c})

\* Mutant: the other candidates are left to themselves.
ConfirmAlone(p) ==
    LET c == confirm[p].content
    IN  /\ doc.status = "pending" /\ owner = "open"
        /\ confirm[p].refusal = "none"
        /\ ~Queued(c)
        /\ doc' = [doc EXCEPT !.status = "uploaded", !.key = c]
        /\ queue' = queue \cup StagingEntry

\* Mutant: the lock of the owner is not looked at again.
ConfirmLocked(p) ==
    LET c == confirm[p].content
    IN  /\ doc.status = "pending" /\ owner # "archived"
        /\ confirm[p].refusal = "none"
        /\ ~Queued(c)
        /\ doc' = [doc EXCEPT !.status = "uploaded", !.key = c]
        /\ queue' = queue \cup StagingEntry
                        \cup CandidateEntries(doc.candidates \ {c})

\* A key once handed to the outbox is a conflict (GiveUp).
ConfirmUploaded(p) ==
    LET c == confirm[p].content
    IN  /\ doc.status = "pending" /\ owner = "open"
        /\ confirm[p].refusal = "none"
        /\ ~Queued(c)
        /\ doc' = [doc EXCEPT !.status = "uploaded", !.key = c]
        /\ queue' = queue \cup StagingEntry
                        \cup CandidateEntries(doc.candidates \ {c})

Confirm(p) ==
    /\ confirm[p].pc = "prepared"
    /\ ConfirmTooLate(p) \/ ConfirmRefused(p) \/ ConfirmUploaded(p)
    /\ Step(p, Idle)
    /\ UNCHANGED <<lease, life, owner, storeVars, late>>

-----------------------------------------------------------------------------
(* Deletion and the sweep.                                                  *)

\* By a user, or with the record that owns it; archived owners permit it.
DeleteDocument ==
    /\ doc.status \in {"pending", "uploaded", "failed"}
    /\ owner # "locked"
    /\ doc' = [doc EXCEPT !.status = "deleted", !.candidates = {}, !.key = Staging]
    /\ queue' = queue \cup DocumentEntries
    /\ UNCHANGED <<lease, life, owner, storeVars, late, confirm>>

ExpireUpload ==
    /\ doc.status = "pending" /\ lease = 0
    /\ doc' = [doc EXCEPT !.status = "failed"]
    /\ queue' = queue \cup DocumentEntries
    /\ UNCHANGED <<lease, life, owner, storeVars, late, confirm>>

\* Thirty days later, once every key has an outbox entry.
RetireFailed ==
    /\ doc.status = "failed"
    /\ Queued(doc.key)
    /\ doc' = [doc EXCEPT !.status = "deleted", !.candidates = {}]
    /\ queue' = queue \cup CandidateEntries(doc.candidates)
    /\ UNCHANGED <<lease, life, owner, storeVars, late, confirm>>

-----------------------------------------------------------------------------
(* The drain: one transaction per entry, locked FOR UPDATE SKIP LOCKED,     *)
(* around a provider call that no rollback undoes.                          *)

Remove(s) ==
    IF s = Staging
    THEN staged' = NoContent /\ UNCHANGED finals
    ELSE finals' = finals \ {s} /\ UNCHANGED staged

Becomes(e, state) ==
    queue' = (queue \ {e}) \cup {[e EXCEPT !.state = state]}

DeleteObject(e) ==
    /\ e.state = "pending" /\ e.wait = 0
    /\ Remove(e.slot)
    /\ Becomes(e, "deleted")
    /\ UNCHANGED <<doc, lease, life, owner, late, confirm>>

CompleteDeletion(e) ==
    /\ e.state = "deleted"
    /\ Becomes(e, "done")
    /\ UNCHANGED <<doc, lease, life, owner, storeVars, late, confirm>>

\* The transaction dies between the provider's answer and its commit.
AbandonDeletion(e) ==
    /\ e.state = "deleted"
    /\ Becomes(e, "pending")
    /\ UNCHANGED <<doc, lease, life, owner, storeVars, late, confirm>>

\* The drain's budget ends first: the entry stays, the request goes on.
DeferDeletion(e) ==
    /\ e.state = "pending" /\ e.wait = 0
    /\ late' = late \cup {e.slot}
    /\ UNCHANGED <<doc, lease, life, owner, storeVars, queue, confirm>>

LateDelete(s) ==
    /\ Remove(s)
    /\ late' = late \ {s}
    /\ UNCHANGED <<doc, lease, life, owner, queue, confirm>>

Tick ==
    /\ \/ lease > 0 \/ life > 0
       \/ \E p \in Confirmers : confirm[p].left > 0
       \/ \E e \in queue : e.wait > 0
    /\ lease' = Less(lease)
    /\ life' = Less(life)
    /\ confirm' = [p \in Confirmers |->
                       [confirm[p] EXCEPT !.left = Less(confirm[p].left)]]
    /\ queue' = {[e EXCEPT !.wait = Less(e.wait)] : e \in queue}
    /\ UNCHANGED <<doc, owner, storeVars, late>>

Drain(e) ==
    \/ DeleteObject(e) \/ CompleteDeletion(e)
    \/ AbandonDeletion(e) \/ DeferDeletion(e)

Next ==
    \/ RequestUpload \/ RenewUpload
    \/ \E c \in Contents : ClientPut(c)
    \/ \E o \in Owners : ChangeOwner(o)
    \/ \E p \in Confirmers :
          \/ StartConfirm(p) \/ Inspect(p) \/ RecordCandidate(p)
          \/ PutFinal(p) \/ GiveUp(p) \/ Confirm(p)
    \/ DeleteDocument \/ ExpireUpload \/ RetireFailed
    \/ \E e \in queue : Drain(e)
    \/ \E s \in late : LateDelete(s)
    \/ Tick

Spec == Init /\ [][Next]_vars

\* The sweep and the drain run daily, and a deletion that keeps failing is
\* tried again until the store and the database both answer.
Fairness ==
    /\ WF_vars(Tick)
    /\ WF_vars(ExpireUpload)
    /\ \A s \in Slots :
          /\ WF_vars(\E e \in queue : e.slot = s /\ DeleteObject(e))
          /\ SF_vars(\E e \in queue : e.slot = s /\ CompleteDeletion(e))

FairSpec == Spec /\ Fairness

-----------------------------------------------------------------------------
(* Properties.                                                              *)

TypeOK ==
    /\ doc \in Document
    /\ lease \in Nat /\ life \in Nat
    /\ owner \in Owners
    /\ staged \in Contents \cup {NoContent}
    /\ finals \in SUBSET Contents
    /\ queue \in SUBSET Entry
    /\ late \in SUBSET Slots
    /\ confirm \in [Confirmers -> Confirmation]

Serves(c) == doc.status = "uploaded" /\ doc.key = c
Pending(s) == \E e \in queue : e.slot = s /\ e.state # "done"

\* No object is orphaned: each has a pending row that lists it, an uploaded
\* row that serves it, or an outbox entry still to be drained.
ObjectsAreOwned ==
    /\ \A c \in finals :
          \/ doc.status = "pending" /\ c \in doc.candidates
          \/ Serves(c)
          \/ Pending(c)
    /\ staged # NoContent => doc.status = "pending" \/ Pending(Staging)

\* A completed deletion is final: no transfer, promotion or late request
\* brings back an object whose entry was completed.
DeletedStaysDeleted ==
    \A e \in queue : e.state = "done" =>
        IF e.slot = Staging THEN staged = NoContent ELSE e.slot \notin finals

\* Uploads implement the vault: what a reader of an uploaded document is
\* served is attached once and kept until the document is withdrawn.
Evidence ==
    CASE doc.status = "uploaded" ->
            IF doc.key \in finals THEN doc.key ELSE NoContent
      [] doc.status = "deleted" -> "withdrawn"
      [] OTHER -> "empty"

Vault == INSTANCE EvidenceVault WITH
    Admitted <- Acceptable, Empty <- "empty", Withdrawn <- "withdrawn",
    evidence <- Evidence, sealed <- owner = "locked"

EvidenceIsKept == Vault!VaultSpec

\* Whatever is abandoned is collected: in the end only the bytes an
\* uploaded document serves are left in the store.
EverythingIsCollected ==
    <>[](staged = NoContent /\ \A c \in finals : Serves(c))
=============================================================================
