--------------------------- MODULE OperationRunner ---------------------------
(***************************************************************************)
(* Calls of runOperation with an idempotency key: each claims its key and  *)
(* runs its operation in one transaction, on one of several server         *)
(* instances.  PostgreSQL is modelled at Read Committed, as far as the one *)
(* table of keys needs it: record[k] is the committed row, call[c].wrote   *)
(* says what the open transaction of c did to it, and a statement that     *)
(* meets another transaction's uncommitted write waits for it.             *)
(***************************************************************************)
EXTENDS Integers, Sequences

CONSTANTS
    Calls,          \* requests being served
    Keys,           \* idempotency keys, with their organization and credential
    Fingerprints,   \* requests that differ in operation, input or target
    Instances,      \* server processes, each with its own inFlightKeys
    MaxAttempts,    \* OPERATION_MAX_ATTEMPTS
    Retention,      \* IDEMPOTENCY_RETENTION_DAYS
    CallBudget,     \* a call and its transaction end within this time
    MaxTime         \* bound of the clock

ASSUME ConstantsAssumption ==
    /\ MaxAttempts \in Nat \ {0}
    /\ Retention \in Nat /\ CallBudget \in Nat /\ MaxTime \in Nat
    /\ Keys # {} /\ Fingerprints # {} /\ Instances # {}

VARIABLES
    clock,
    runs,       \* runs[k]: the committed runs under k, in order
    record,     \* record[k]: the run whose row is in the table, or 0
    call,       \* call[c]: local state and transaction of call c
    inFlight    \* the keys each instance is serving

vars == <<clock, runs, record, call, inFlight>>

\* A run's row holds its fingerprint, outcome and expiry.
Runs == [fp : Fingerprints, at : Nat, expires : Nat]

Claiming == {"claim", "reclaim"}
Running == Claiming \cup {"begin", "find", "remove", "execute", "commit"}
Lingering == {"dropped", "lost"}    \* no server process waits for the commit
Answers == {"none", "refused", "unknown", "replayed", "saved"}

Call ==
    [pc      : Running \cup Lingering \cup {"idle"},
     key     : Keys,
     fp      : Fingerprints,
     inst    : Instances,
     attempt : 1..MaxAttempts,
     start   : Nat,                           \* deadlineAt less the budget
     now     : Nat,                           \* time of the claim
     found   : Nat,                           \* the expired row to delete
     wrote   : {"nothing", "deleted", "inserted"},
     answer  : Answers,
     outcome : Nat]                           \* the run a replay returned

TypeOK ==
    /\ clock \in Nat
    /\ runs \in [Keys -> Seq(Runs)]
    /\ record \in [Keys -> Nat]
    /\ \A k \in Keys : record[k] <= Len(runs[k])
    /\ call \in [Calls -> Call]
    /\ inFlight \subseteq Instances \X Keys

NoCall ==
    [pc |-> "idle", key |-> CHOOSE k \in Keys : TRUE,
     fp |-> CHOOSE f \in Fingerprints : TRUE,
     inst |-> CHOOSE i \in Instances : TRUE,
     attempt |-> 1, start |-> 0, now |-> 0, found |-> 0,
     wrote |-> "nothing", answer |-> "none", outcome |-> 0]

Init ==
    /\ clock = 0
    /\ runs = [k \in Keys |-> << >>]
    /\ record = [k \in Keys |-> 0]
    /\ call = [c \in Calls |-> NoCall]
    /\ inFlight = {}

-----------------------------------------------------------------------------
(* Helpers.                                                                *)

At(c, pc) == call[c].pc = pc
KeyOf(c) == call[c].key
Flight(c) == <<call[c].inst, call[c].key>>
Row(c) == record[KeyOf(c)]
RowRun(c) == runs[KeyOf(c)][Row(c)]

\* Mutant: a transaction whose client lost the connection is taken for aborted.
BlockedByRunning(c) ==
    \E o \in Calls \ {c} :
        KeyOf(o) = KeyOf(c) /\ call[o].wrote # "nothing" /\ call[o].pc \in Running

\* Another transaction holds an uncommitted write of the key's row.
Blocked(c) ==
    \E o \in Calls \ {c} : KeyOf(o) = KeyOf(c) /\ call[o].wrote # "nothing"

\* The call returns; `finally` takes its key out of inFlightKeys.
Answer(c, answer) ==
    /\ call' = [call EXCEPT ![c] = [NoCall EXCEPT !.answer = answer]]
    /\ inFlight' = inFlight \ {Flight(c)}

Replay(c) ==
    /\ call' = [call EXCEPT ![c] = [NoCall EXCEPT
           !.key = KeyOf(c), !.fp = call[c].fp,
           !.answer = "replayed", !.outcome = Row(c)]]
    /\ inFlight' = inFlight \ {Flight(c)}

\* What remains of a call whose transaction has lost its client.
Orphan(c, pc, answer) ==
    [call[c] EXCEPT !.pc = pc, !.answer = answer,
        !.inst = NoCall.inst, !.attempt = 1, !.found = 0,
        !.now = IF pc = "lost" THEN @ ELSE 0]

\* The transaction's writes become visible: the run and its row.
Save(c) ==
    LET k == KeyOf(c)
    IN  /\ runs' = [runs EXCEPT ![k] = Append(@,
               [fp |-> call[c].fp, at |-> clock,
                expires |-> call[c].now + Retention])]
        /\ record' = [record EXCEPT ![k] = Len(runs[k]) + 1]

-----------------------------------------------------------------------------
(* A call.                                                                 *)

\* Mutant: a refused duplicate takes the key of the running call out as well.
BusyAndForget(c, asked, i) ==
    /\ call' = [call EXCEPT ![c] = [NoCall EXCEPT !.answer = "refused"]]
    /\ inFlight' = inFlight \ {<<i, asked.key>>}

Busy(c, asked, i) ==
    /\ call' = [call EXCEPT ![c] = [NoCall EXCEPT !.answer = "refused"]]
    /\ UNCHANGED inFlight

\* A duplicate on the same instance is refused before it takes a connection.
Start(c, k, f, i) ==
    LET asked == [NoCall EXCEPT !.key = k, !.fp = f]
    IN  /\ At(c, "idle")
        /\ \/ /\ <<i, k>> \in inFlight
              /\ Busy(c, asked, i)
           \/ /\ <<i, k>> \notin inFlight
              /\ call' = [call EXCEPT ![c] = [asked EXCEPT
                     !.pc = "begin", !.inst = i, !.start = clock]]
              /\ inFlight' = inFlight \cup {<<i, k>>}
        /\ UNCHANGED <<clock, runs, record>>

\* runOwnedTransaction, up to its callback.
Begin(c) ==
    /\ At(c, "begin")
    /\ call' = [call EXCEPT ![c].pc = "claim", ![c].now = clock]
    /\ UNCHANGED <<clock, runs, record, inFlight>>

\* INSERT ... ON CONFLICT DO NOTHING.
InsertClaim(c) ==
    /\ call[c].pc \in Claiming
    /\ ~Blocked(c)
    /\ \/ /\ Row(c) = 0 \/ call[c].wrote = "deleted"
          /\ call' = [call EXCEPT ![c].pc = "execute", ![c].wrote = "inserted"]
          /\ UNCHANGED inFlight
       \/ /\ Row(c) # 0 /\ call[c].wrote # "deleted"
          /\ \/ /\ At(c, "claim")
                /\ call' = [call EXCEPT ![c].pc = "find"]
                /\ UNCHANGED inFlight
             \/ At(c, "reclaim") /\ Answer(c, "refused")
    /\ UNCHANGED <<clock, runs, record>>

\* Mutant: the fingerprint is not compared.
FindAnyRequest(c) ==
    /\ At(c, "find")
    /\ \/ /\ Row(c) = 0
          /\ call' = [call EXCEPT ![c].pc = "reclaim"]
          /\ UNCHANGED inFlight
       \/ /\ Row(c) # 0
          /\ \/ /\ RowRun(c).expires <= call[c].now
                /\ call' = [call EXCEPT ![c].pc = "remove", ![c].found = Row(c)]
                /\ UNCHANGED inFlight
             \/ /\ RowRun(c).expires > call[c].now
                /\ Replay(c)
    /\ UNCHANGED <<clock, runs, record>>

\* The committed row, read after the insert met a conflict: it may be gone,
\* expired, of another request, or the outcome to replay.
Find(c) ==
    /\ At(c, "find")
    /\ \/ /\ Row(c) = 0
          /\ call' = [call EXCEPT ![c].pc = "reclaim"]
          /\ UNCHANGED inFlight
       \/ /\ Row(c) # 0
          /\ \/ /\ RowRun(c).expires <= call[c].now
                /\ call' = [call EXCEPT ![c].pc = "remove", ![c].found = Row(c)]
                /\ UNCHANGED inFlight
             \/ /\ RowRun(c).expires > call[c].now
                /\ RowRun(c).fp # call[c].fp
                /\ Answer(c, "refused")
             \/ /\ RowRun(c).expires > call[c].now
                /\ RowRun(c).fp = call[c].fp
                /\ Replay(c)
    /\ UNCHANGED <<clock, runs, record>>

\* DELETE of the expired row, by its id: only that row's lock is waited for.
WaitsToRemove(c) == Row(c) = call[c].found /\ Blocked(c)

RemoveExpired(c) ==
    /\ At(c, "remove")
    /\ ~WaitsToRemove(c)
    /\ call' = [call EXCEPT ![c].pc = "reclaim", ![c].found = 0,
           ![c].wrote = IF Row(c) = call[c].found THEN "deleted" ELSE "nothing"]
    /\ UNCHANGED <<clock, runs, record, inFlight>>

\* lock_timeout of a claim statement: the transaction is aborted.
ClaimTimesOut(c) ==
    /\ \/ call[c].pc \in Claiming /\ Blocked(c)
       \/ At(c, "remove") /\ WaitsToRemove(c)
    /\ Answer(c, "refused")
    /\ UNCHANGED <<clock, runs, record>>

\* The operation and recordIdempotencyOutcome succeed; COMMIT is sent.
Execute(c) ==
    /\ At(c, "execute")
    /\ call' = [call EXCEPT ![c].pc = "commit"]
    /\ UNCHANGED <<clock, runs, record, inFlight>>

\* The operation fails, the deadline passes, or the database refuses COMMIT.
Fail(c) ==
    /\ call[c].pc \in Running
    /\ Answer(c, "refused")
    /\ UNCHANGED <<clock, runs, record>>

\* The connection fails before COMMIT is sent; its transaction still holds the
\* key until the database notices.
Disconnect(c) ==
    /\ call[c].pc \in Running \ {"begin", "commit"}
    /\ call' = [call EXCEPT ![c] = Orphan(c, "dropped", "refused")]
    /\ inFlight' = inFlight \ {Flight(c)}
    /\ UNCHANGED <<clock, runs, record>>

\* Mutant: attempts are not counted.
RetryForever(c) ==
    /\ call[c].pc \in Running \ {"begin", "commit"}
    /\ call' = [call EXCEPT ![c].pc = "begin", ![c].wrote = "nothing", ![c].found = 0]
    /\ UNCHANGED <<clock, runs, record, inFlight>>

\* Mutant: one attempt too many.
RetryOnceMore(c) ==
    /\ call[c].pc \in Running \ {"begin", "commit"}
    /\ call[c].attempt <= MaxAttempts
    /\ call' = [call EXCEPT ![c].pc = "begin", ![c].wrote = "nothing", ![c].found = 0,
           ![c].now = 0, ![c].attempt = @ + 1]
    /\ UNCHANGED <<clock, runs, record, inFlight>>

\* A deadlock, serialization failure or lock timeout before COMMIT.
Retry(c) ==
    /\ call[c].pc \in Running \ {"begin", "commit"}
    /\ call[c].attempt < MaxAttempts
    /\ call' = [call EXCEPT ![c].pc = "begin", ![c].wrote = "nothing", ![c].found = 0,
           ![c].now = 0, ![c].attempt = @ + 1]
    /\ UNCHANGED <<clock, runs, record, inFlight>>

CommitAnswered(c) ==
    /\ At(c, "commit")
    /\ Save(c)
    /\ Answer(c, "saved")
    /\ UNCHANGED clock

\* The connection fails after COMMIT was sent; the transaction goes on.
CommitLost(c) ==
    /\ At(c, "commit")
    /\ call' = [call EXCEPT ![c] = Orphan(c, "lost", "unknown")]
    /\ inFlight' = inFlight \ {Flight(c)}
    /\ UNCHANGED <<clock, runs, record>>

\* The database ends a transaction whose client is gone: it may commit only
\* if COMMIT was sent.
Settle(c) ==
    /\ call[c].pc \in Lingering
    /\ call' = [call EXCEPT ![c] = [NoCall EXCEPT
           !.key = KeyOf(c), !.fp = call[c].fp, !.answer = call[c].answer]]
    /\ \/ At(c, "lost") /\ Save(c)
       \/ UNCHANGED <<runs, record>>
    /\ UNCHANGED <<clock, inFlight>>

-----------------------------------------------------------------------------
(* The environment.                                                        *)

\* A server process dies: its memory is gone, its transactions linger.
Die(i) ==
    LET dead == {c \in Calls : call[c].pc \in Running /\ call[c].inst = i}
    IN  /\ dead # {}
        /\ call' = [c \in Calls |->
               IF c \notin dead THEN call[c]
               ELSE Orphan(c, IF At(c, "commit") THEN "lost" ELSE "dropped",
                           "unknown")]
        /\ inFlight' = {fl \in inFlight : fl[1] # i}
        /\ UNCHANGED <<clock, runs, record>>

\* The purge skips a row another transaction has locked.
Purge(k) ==
    /\ record[k] # 0 /\ runs[k][record[k]].expires <= clock
    /\ \A c \in Calls : KeyOf(c) = k => call[c].wrote = "nothing"
    /\ record' = [record EXCEPT ![k] = 0]
    /\ UNCHANGED <<clock, runs, call, inFlight>>

Tick ==
    /\ clock < MaxTime
    /\ \A c \in Calls : ~At(c, "idle") => clock + 1 - call[c].start <= CallBudget
    /\ clock' = clock + 1
    /\ UNCHANGED <<runs, record, call, inFlight>>

Step(c) ==
    \/ Begin(c) \/ InsertClaim(c) \/ Find(c) \/ RemoveExpired(c)
    \/ ClaimTimesOut(c) \/ Execute(c) \/ Fail(c) \/ Disconnect(c)
    \/ Retry(c) \/ CommitAnswered(c) \/ CommitLost(c) \/ Settle(c)

Next ==
    \/ \E c \in Calls : Step(c)
    \/ \E c \in Calls, k \in Keys, f \in Fingerprints, i \in Instances :
        Start(c, k, f, i)
    \/ \E i \in Instances : Die(i)
    \/ \E k \in Keys : Purge(k)
    \/ Tick

Spec == Init /\ [][Next]_vars

\* Statements end, by their answer or a timeout, and the database ends the
\* transactions of lost connections.
FairSpec == Spec /\ \A c \in Calls : WF_vars(Step(c))

-----------------------------------------------------------------------------
(* Properties.                                                             *)

(* A key runs its operation again only after its retention: neither a      *)
(* retry after a lost answer, nor a duplicate on another instance, nor two *)
(* calls that reclaim one expired row, nor the purge between them.  The    *)
(* retention counts from the claim, hence the budget of a call.            *)
OncePerRetention ==
    \A k \in Keys : \A i, j \in DOMAIN runs[k] :
        i < j => runs[k][j].at >= runs[k][i].at + Retention - CallBudget

(* inFlightKeys names exactly the keys of the calls an instance is         *)
(* serving, one each: a key left in it would be refused until a restart.   *)
InFlightIsExact ==
    /\ inFlight = {Flight(c) : c \in {d \in Calls : call[d].pc \in Running}}
    /\ \A c, d \in Calls :
        call[c].pc \in Running /\ call[d].pc \in Running /\ Flight(c) = Flight(d)
            => c = d

(* Every call ends and every transaction it opened is over.                *)
EveryCallEnds ==
    \A c \in Calls : ~At(c, "idle") ~> At(c, "idle")

(* What a client may rely on: see OnceOnly.                                *)
Told == [c \in Calls |-> [key |-> call[c].key, fp |-> call[c].fp,
                          answer |-> call[c].answer, outcome |-> call[c].outcome]]
Saved == [k \in Keys |-> [i \in DOMAIN runs[k] |->
            [fp |-> runs[k][i].fp, at |-> runs[k][i].at]]]

Client == INSTANCE OnceOnly WITH
    Spacing <- Retention - CallBudget, runs <- Saved, told <- Told

AnswersAreTrue == Client!Promise
=============================================================================
