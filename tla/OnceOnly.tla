------------------------------ MODULE OnceOnly ------------------------------
(***************************************************************************)
(* What an idempotency key promises its client: under one key the          *)
(* operation runs at most once within Spacing, an answer says what         *)
(* happened, and only the answer "unknown" leaves open whether anything    *)
(* was saved.  Nothing is said of transactions, locks or records.          *)
(***************************************************************************)
EXTENDS Integers, Sequences

CONSTANTS
    Calls,       \* requests
    Keys,        \* idempotency keys
    Spacing      \* least time between two runs under one key

VARIABLES
    clock,
    runs,        \* runs[k]: what was saved under key k, in order
    told         \* told[c]: what the client of call c asked and was told

promiseVars == <<clock, runs, told>>

PromiseInit ==
    /\ clock = 0
    /\ runs = [k \in Keys |-> << >>]
    /\ \A c \in Calls : told[c].answer = "none"

Answer(c, answer) ==
    told' = [told EXCEPT ![c] = told'[c]] /\ told'[c].answer = answer

\* A new request takes the place of an answered one; it may be refused at once.
Ask(c) ==
    /\ Answer(c, "none") \/ Answer(c, "refused")
    /\ UNCHANGED <<clock, runs>>

\* The operation runs and what it saved stays.
Run(c, answer) ==
    LET key == told[c].key
        run == [fp |-> told[c].fp, at |-> clock]
    IN  /\ told[c].answer \in {"none", "unknown"}
        /\ \A i \in DOMAIN runs[key] : clock >= runs[key][i].at + Spacing
        /\ runs' = [runs EXCEPT ![key] = Append(@, run)]
        /\ Answer(c, answer)
        /\ UNCHANGED clock

\* The client was told that the outcome is not known.
RunUnheard(c) == told[c].answer = "unknown" /\ Run(c, "unknown")

\* A replay returns the last run under the key, of the same request.
Replay(c) ==
    LET key == told[c].key
        last == Len(runs[key])
    IN  /\ told[c].answer = "none"
        /\ last > 0 /\ runs[key][last].fp = told[c].fp
        /\ told' = [told EXCEPT ![c].answer = "replayed", ![c].outcome = last]
        /\ UNCHANGED <<clock, runs>>

Refuse(c) ==
    /\ told[c].answer = "none"
    /\ Answer(c, "refused")
    /\ UNCHANGED <<clock, runs>>

\* Connections or a server are lost: some clients learn nothing.
Lose(calls) ==
    /\ \A c \in calls : told[c].answer = "none"
    /\ told' = [c \in Calls |->
           IF c \in calls THEN [told[c] EXCEPT !.answer = "unknown"] ELSE told[c]]
    /\ UNCHANGED <<clock, runs>>

Pass == clock' > clock /\ UNCHANGED <<runs, told>>

PromiseNext ==
    \/ \E c \in Calls :
        \/ Ask(c)
        \/ Replay(c)
        \/ Refuse(c)
        \/ Run(c, "saved")
        \/ RunUnheard(c)
    \/ \E calls \in SUBSET Calls : Lose(calls)
    \/ Pass

Promise == PromiseInit /\ [][PromiseNext]_promiseVars
=============================================================================
