----------------------- MODULE OperationRunner_proofs -----------------------
(***************************************************************************)
(* That one key runs its operation at most once within its retention, that *)
(* a server refuses the keys it is serving and no others, and that clients *)
(* can rely on what they are told (OnceOnly), for any number of calls,     *)
(* server instances, keys and attempts.                                    *)
(***************************************************************************)
EXTENDS OperationRunner, SequenceTheorems, TLAPS

Holds(c) == call[c].wrote # "nothing"
AllExpired(k) == \A i \in DOMAIN runs[k] : runs[k][i].expires <= clock

\* What the position of a call says of its transaction.
WellPlaced(n) ==
    /\ n.pc \in {"idle", "begin", "claim", "find", "remove"} => n.wrote = "nothing"
    /\ n.pc \in {"execute", "commit", "lost"} => n.wrote = "inserted"

\* A transaction is within the budget of its call.
InBudget(n) ==
    /\ n.pc # "idle" => n.start <= clock /\ clock <= n.start + CallBudget
    /\ n.pc \notin {"idle", "begin", "dropped"} => n.start <= n.now /\ n.now <= clock

\* The row about to be deleted has expired.
RemovesExpired(n) ==
    n.pc = "remove" =>
        n.found \in DOMAIN runs[n.key] /\ runs[n.key][n.found].expires <= clock

Placed == \A c \in Calls :
    WellPlaced(call[c]) /\ InBudget(call[c]) /\ RemovesExpired(call[c])

\* One transaction at a time has written the row of a key.
OneHolder == \A c, d \in Calls :
    Holds(c) /\ Holds(d) /\ KeyOf(c) = KeyOf(d) => c = d

\* Only over a key whose runs have all expired.
HeldHasExpired == \A c \in Calls : Holds(c) => AllExpired(KeyOf(c))

\* A run whose row is gone has expired.
RowOrExpired == \A k \in Keys : \A i \in DOMAIN runs[k] :
    i # record[k] => runs[k][i].expires <= clock

RunsExpireInTime == \A k \in Keys : \A i \in DOMAIN runs[k] :
    runs[k][i].at + Retention <= runs[k][i].expires + CallBudget

IInv ==
    /\ TypeOK /\ Placed
    /\ OneHolder /\ HeldHasExpired /\ RowOrExpired
    /\ RunsExpireInTime /\ OncePerRetention

-----------------------------------------------------------------------------
(* Types.                                                                  *)

LEMMA AppendByIndex ==
    ASSUME NEW S, NEW s \in Seq(S), NEW n \in Nat, n = Len(s), NEW e \in S
    PROVE  Append(s, e) = [i \in 1..(n + 1) |-> IF i = n + 1 THEN e ELSE s[i]]
<1>1. /\ Append(s, e) \in Seq(S) /\ Len(Append(s, e)) = n + 1
      /\ \A i \in 1..n : Append(s, e)[i] = s[i]
      /\ Append(s, e)[n + 1] = e
  BY AppendProperties
<1>2. PICK t \in Seq(S) : t = Append(s, e)
  BY <1>1
<1>3. t \in [1..(n + 1) -> S]
  BY <1>1, <1>2, LenProperties
<1>4. \A i \in 1..n : t[i] = s[i]
  BY <1>1, <1>2
<1>5. t[n + 1] = e
  BY <1>1, <1>2
<1>6. t = [i \in 1..(n + 1) |-> IF i = n + 1 THEN e ELSE s[i]]
  BY <1>3, <1>4, <1>5
<1> QED BY <1>2, <1>6

LEMMA NoCallType == NoCall \in Call
<1>1. NoCall.key \in Keys /\ NoCall.fp \in Fingerprints /\ NoCall.inst \in Instances
  <2>1. (CHOOSE k \in Keys : TRUE) \in Keys
    BY ConstantsAssumption, Zenon
  <2>2. (CHOOSE f \in Fingerprints : TRUE) \in Fingerprints
    BY ConstantsAssumption, Zenon
  <2>3. (CHOOSE i \in Instances : TRUE) \in Instances
    BY ConstantsAssumption, Zenon
  <2> QED BY <2>1, <2>2, <2>3 DEF NoCall
<1> QED BY <1>1, ConstantsAssumption DEF NoCall, Call, Running, Claiming, Lingering, Answers

LEMMA OrphanType ==
    ASSUME NEW c \in Calls, call[c] \in Call,
           NEW pc \in Lingering, NEW answer \in Answers
    PROVE  Orphan(c, pc, answer) \in Call
<1> DEFINE now == IF pc = "lost" THEN call[c].now ELSE 0
           inst == NoCall.inst
           orphan == [call[c] EXCEPT !.pc = pc, !.answer = answer,
                         !.inst = inst, !.attempt = 1, !.found = 0, !.now = now]
<1>1. now \in Nat /\ inst \in Instances
  BY NoCallType DEF Call
<1>2. 1 \in 1..MaxAttempts
  BY ConstantsAssumption
<1> HIDE DEF now, inst
<1>3. orphan \in Call
  BY <1>1, <1>2 DEF Call
<1>4. Orphan(c, pc, answer) = orphan
  BY Zenon DEF Orphan, now, inst
<1> QED BY <1>3, <1>4

LEMMA Initially == Init => IInv
<1> SUFFICES ASSUME Init PROVE IInv
  OBVIOUS
<1>1. TypeOK
  BY NoCallType DEF Init, TypeOK
<1>2. \A c \in Calls : call[c].wrote = "nothing" /\ call[c].pc = "idle"
  BY DEF Init, NoCall
<1>3. \A k \in Keys : DOMAIN runs[k] = {}
  BY DEF Init
<1> QED
  BY <1>1, <1>2, <1>3 DEF IInv, Placed, WellPlaced, InBudget, RemovesExpired,
     OneHolder, Holds, HeldHasExpired, RowOrExpired, RunsExpireInTime, OncePerRetention

-----------------------------------------------------------------------------
(* Steps of one call.                                                      *)

\* A step that changes one call, and takes the row of its key only over
\* expired runs and from nobody.
LEMMA OneCallMoves ==
    ASSUME IInv, NEW c \in Calls, NEW n \in Call,
           call' = [call EXCEPT ![c] = n],
           UNCHANGED <<clock, runs, record>>,
           inFlight' \subseteq Instances \X Keys,
           WellPlaced(n), InBudget(n), RemovesExpired(n),
           n.wrote # "nothing" =>
               /\ n.key = KeyOf(c)
               /\ Holds(c) \/ (~Blocked(c) /\ AllExpired(KeyOf(c)))
    PROVE  IInv'
<1> USE DEF IInv
<1>1. TypeOK'
  BY DEF TypeOK
<1>2. call'[c] = n /\ \A d \in Calls \ {c} : call'[d] = call[d]
  BY DEF TypeOK
<1>3. Placed'
  BY <1>2 DEF Placed, WellPlaced, InBudget, RemovesExpired
<1>4. OneHolder'
  BY <1>2 DEF OneHolder, Holds, KeyOf, Blocked
<1>5. HeldHasExpired'
  BY <1>2 DEF HeldHasExpired, Holds, KeyOf, AllExpired
<1> QED
  BY <1>1, <1>3, <1>4, <1>5 DEF RowOrExpired, RunsExpireInTime, OncePerRetention

\* A commit: every earlier run under the key has expired.
LEMMA OneCallSaves ==
    ASSUME IInv, NEW c \in Calls, NEW n \in Call,
           call[c].pc \in {"commit", "lost"},
           call' = [call EXCEPT ![c] = n],
           n.pc = "idle", n.wrote = "nothing",
           Save(c), UNCHANGED clock,
           inFlight' \subseteq Instances \X Keys
    PROVE  IInv'
<1> DEFINE k == KeyOf(c)
           run == [fp |-> call[c].fp, at |-> clock, expires |-> call[c].now + Retention]
           len == Len(runs[k])
<1> USE DEF IInv
<1>1. k \in Keys /\ runs[k] \in Seq(Runs) /\ len \in Nat /\ DOMAIN runs[k] = 1..len
  <2>1. k \in Keys BY DEF TypeOK, Call, KeyOf
  <2>2. runs[k] \in Seq(Runs) BY <2>1 DEF TypeOK
  <2> QED BY <2>1, <2>2
<1>2. call[c] \in Call /\ clock \in Nat /\ run \in Runs
  <2>1. call[c] \in Call /\ clock \in Nat
    BY DEF TypeOK
  <2>2. call[c].fp \in Fingerprints /\ call[c].now \in Nat
    BY <2>1 DEF Call
  <2> QED BY <2>1, <2>2, ConstantsAssumption DEF Runs
<1>3. /\ runs' = [runs EXCEPT ![k] = Append(runs[k], run)]
      /\ record' = [record EXCEPT ![k] = len + 1]
  BY <1>1 DEF Save, TypeOK
<1>4. Holds(c) /\ AllExpired(k) /\ clock <= call[c].now + CallBudget
  <2>1. call[c].wrote = "inserted" /\ call[c].start <= call[c].now
        /\ clock <= call[c].start + CallBudget
    BY DEF Placed, WellPlaced, InBudget
  <2> QED
    BY <2>1, <1>2, ConstantsAssumption DEF Holds, HeldHasExpired, Call
<1> DEFINE longer == Append(runs[k], run)
<1>5. /\ longer \in Seq(Runs) /\ Len(longer) = len + 1 /\ DOMAIN longer = 1..(len + 1)
      /\ \A i \in 1..len : longer[i] = runs[k][i]
      /\ longer[len + 1] = run
  BY <1>1, <1>2
<1>6. /\ runs'[k] = longer /\ record'[k] = len + 1
      /\ \A j \in Keys \ {k} : runs'[j] = runs[j] /\ record'[j] = record[j]
  BY <1>1, <1>3 DEF TypeOK
<1>7. call'[c] = n /\ \A d \in Calls \ {c} : call'[d] = call[d]
  BY DEF TypeOK
<1>8. \A d \in Calls \ {c} : Holds(d) => KeyOf(d) # k
  BY <1>4 DEF OneHolder
<1> HIDE DEF longer, len, run
<1>9. TypeOK'
  <2>1. runs' \in [Keys -> Seq(Runs)] /\ record' \in [Keys -> Nat]
    BY <1>1, <1>3, <1>5 DEF TypeOK, longer
  <2>2. \A j \in Keys \ {k} : record'[j] <= Len(runs'[j])
    BY <1>6 DEF TypeOK
  <2>3. record'[k] <= Len(runs'[k])
    BY <1>1, <1>5, <1>6
  <2> QED BY <2>1, <2>2, <2>3 DEF TypeOK
<1>10. Placed'
  <2>1. WellPlaced(call[c])' /\ InBudget(call[c])' /\ RemovesExpired(call[c])'
    BY <1>7 DEF WellPlaced, InBudget, RemovesExpired
  <2>2. \A d \in Calls \ {c} : WellPlaced(call[d])' /\ InBudget(call[d])'
    BY <1>7 DEF Placed, WellPlaced, InBudget
  <2>3. \A d \in Calls \ {c} : RemovesExpired(call[d])'
    <3> SUFFICES ASSUME NEW d \in Calls \ {c}, call[d].pc = "remove"
                 PROVE  /\ call[d].found \in DOMAIN runs'[call[d].key]
                        /\ runs'[call[d].key][call[d].found].expires <= clock
      BY <1>7 DEF RemovesExpired
    <3>1. /\ call[d].found \in DOMAIN runs[call[d].key]
          /\ runs[call[d].key][call[d].found].expires <= clock
          /\ call[d].key \in Keys
      BY DEF Placed, RemovesExpired, TypeOK, Call
    <3>2. CASE call[d].key # k
      BY <3>1, <3>2, <1>6
    <3>3. CASE call[d].key = k
      BY <3>1, <3>3, <1>1, <1>5, <1>6
    <3> QED BY <3>2, <3>3
  <2> QED BY <2>1, <2>2, <2>3 DEF Placed
<1>11. OneHolder'
  BY <1>7 DEF OneHolder, Holds, KeyOf
<1>12. HeldHasExpired'
  <2> SUFFICES ASSUME NEW d \in Calls, Holds(d)' PROVE AllExpired(KeyOf(d))'
    BY DEF HeldHasExpired
  <2>1. d # c /\ call'[d] = call[d] /\ Holds(d)
    BY <1>7 DEF Holds
  <2>2. KeyOf(d) \in Keys \ {k} /\ AllExpired(KeyOf(d))
    BY <2>1, <1>8 DEF HeldHasExpired, TypeOK, Call, KeyOf
  <2> QED BY <2>1, <2>2, <1>6 DEF AllExpired, KeyOf
<1>13. RowOrExpired'
  <2> SUFFICES ASSUME NEW j \in Keys, NEW i \in DOMAIN runs'[j], i # record'[j]
               PROVE  runs'[j][i].expires <= clock
    BY DEF RowOrExpired
  <2>1. CASE j # k
    BY <2>1, <1>6 DEF RowOrExpired
  <2>2. CASE j = k
    <3>1. i \in 1..len
      BY <2>2, <1>1, <1>5, <1>6
    <3> QED BY <3>1, <2>2, <1>1, <1>4, <1>5, <1>6 DEF AllExpired
  <2> QED BY <2>1, <2>2
<1>14. RunsExpireInTime'
  <2> SUFFICES ASSUME NEW j \in Keys, NEW i \in DOMAIN runs'[j]
               PROVE  runs'[j][i].at + Retention <= runs'[j][i].expires + CallBudget
    BY DEF RunsExpireInTime
  <2>1. CASE j # k
    BY <2>1, <1>6 DEF RunsExpireInTime
  <2>2. CASE j = k /\ i \in 1..len
    BY <2>2, <1>1, <1>5, <1>6 DEF RunsExpireInTime
  <2>3. CASE j = k /\ i = len + 1
    <3>1. run.at = clock /\ run.expires = call[c].now + Retention
      BY DEF run
    <3>2. call[c].now \in Nat
      BY <1>2 DEF Call
    <3> QED BY <3>1, <3>2, <2>3, <1>2, <1>4, <1>5, <1>6, ConstantsAssumption
  <2> QED BY <2>1, <2>2, <2>3, <1>1, <1>5, <1>6
<1>15. OncePerRetention'
  <2> SUFFICES ASSUME NEW j \in Keys, NEW h \in DOMAIN runs'[j],
                      NEW i \in DOMAIN runs'[j], h < i
               PROVE  runs'[j][i].at >= runs'[j][h].at + Retention - CallBudget
    BY DEF OncePerRetention
  <2>1. CASE j # k
    BY <2>1, <1>6 DEF OncePerRetention
  <2>2. CASE j = k /\ i \in 1..len
    <3>1. h \in 1..len
      BY <2>2, <1>1, <1>5, <1>6
    <3> QED BY <3>1, <2>2, <1>1, <1>5, <1>6 DEF OncePerRetention
  <2>3. CASE j = k /\ i = len + 1
    <3>1. h \in 1..len
      BY <2>3, <1>1, <1>5, <1>6
    <3>2. runs[k][h].at + Retention <= runs[k][h].expires + CallBudget
          /\ runs[k][h].expires <= clock
      BY <3>1, <1>1, <1>4 DEF RunsExpireInTime, AllExpired
    <3>3. runs[k][h].at \in Nat /\ runs[k][h].expires \in Nat
      <4>1. runs[k][h] \in Runs
        BY <3>1, <1>1
      <4> QED BY <4>1 DEF Runs
    <3>4. run.at = clock
      BY DEF run
    <3>5. runs'[j][i] = run /\ runs'[j][h] = runs[k][h]
      BY <3>1, <2>3, <1>5, <1>6
    <3>6. clock >= runs[k][h].at + Retention - CallBudget
      BY <3>2, <3>3, <1>2, ConstantsAssumption
    <3> QED BY <3>4, <3>5, <3>6
  <2> QED BY <2>1, <2>2, <2>3, <1>1, <1>5, <1>6
<1> QED
  BY <1>9, <1>10, <1>11, <1>12, <1>13, <1>14, <1>15

\* The call has returned.
LEMMA AnswerKeeps ==
    ASSUME IInv, NEW c \in Calls, NEW answer \in Answers, Answer(c, answer),
           UNCHANGED <<clock, runs, record>>
    PROVE  IInv'
<1> DEFINE n == [NoCall EXCEPT !.answer = answer]
<1>1. n \in Call /\ n.pc = "idle" /\ n.wrote = "nothing"
  <2>1. n \in Call
    BY NoCallType DEF Call
  <2> QED BY <2>1 DEF NoCall
<1>2. call' = [call EXCEPT ![c] = n] /\ inFlight' \subseteq Instances \X Keys
  BY DEF Answer, IInv, TypeOK
<1> HIDE DEF n
<1>3. WellPlaced(n) /\ InBudget(n) /\ RemovesExpired(n)
  BY <1>1 DEF WellPlaced, InBudget, RemovesExpired
<1> QED BY <1>1, <1>2, <1>3, OneCallMoves

LEMMA StartKeeps ==
    ASSUME IInv, NEW c \in Calls, NEW k \in Keys, NEW f \in Fingerprints,
           NEW i \in Instances, Start(c, k, f, i)
    PROVE  IInv'
<1>1. CASE Busy(c, [NoCall EXCEPT !.key = k, !.fp = f], i)
  <2> DEFINE n == [NoCall EXCEPT !.answer = "refused"]
  <2>1. n \in Call /\ n.pc = "idle" /\ n.wrote = "nothing"
    <3>1. n \in Call
      BY NoCallType DEF Call, Answers
    <3> QED BY <3>1 DEF NoCall
  <2>2. call' = [call EXCEPT ![c] = n] /\ inFlight' \subseteq Instances \X Keys
    BY <1>1 DEF Busy, IInv, TypeOK
  <2>3. UNCHANGED <<clock, runs, record>>
    BY DEF Start
  <2> HIDE DEF n
  <2>4. WellPlaced(n) /\ InBudget(n) /\ RemovesExpired(n)
    BY <2>1 DEF WellPlaced, InBudget, RemovesExpired
  <2> QED BY <2>1, <2>2, <2>3, <2>4, OneCallMoves
<1>2. CASE /\ call' = [call EXCEPT ![c] =
                   [[NoCall EXCEPT !.key = k, !.fp = f] EXCEPT
                       !.pc = "begin", !.inst = i, !.start = clock]]
           /\ inFlight' = inFlight \cup {<<i, k>>}
  <2> DEFINE n == [[NoCall EXCEPT !.key = k, !.fp = f] EXCEPT
                       !.pc = "begin", !.inst = i, !.start = clock]
  <2>1. n \in Call /\ n.pc = "begin" /\ n.wrote = "nothing" /\ n.start = clock
    <3>1. clock \in Nat
      BY DEF IInv, TypeOK
    <3>2. n \in Call
      BY <3>1, NoCallType DEF Call, Running
    <3> QED BY <3>2 DEF NoCall
  <2>2. call' = [call EXCEPT ![c] = n] /\ inFlight' \subseteq Instances \X Keys
    BY <1>2 DEF IInv, TypeOK
  <2>3. UNCHANGED <<clock, runs, record>>
    BY DEF Start
  <2> HIDE DEF n
  <2>4. WellPlaced(n) /\ InBudget(n) /\ RemovesExpired(n)
    BY <2>1, ConstantsAssumption DEF WellPlaced, InBudget, RemovesExpired, IInv, TypeOK
  <2> QED BY <2>1, <2>2, <2>3, <2>4, OneCallMoves
<1> QED BY <1>1, <1>2 DEF Start

\* What is known of a call that is served.
LEMMA Served ==
    ASSUME IInv, NEW c \in Calls
    PROVE  /\ call[c] \in Call /\ clock \in Nat /\ KeyOf(c) \in Keys
           /\ record[KeyOf(c)] \in Nat /\ runs[KeyOf(c)] \in Seq(Runs)
           /\ record[KeyOf(c)] # 0 => record[KeyOf(c)] \in DOMAIN runs[KeyOf(c)]
           /\ WellPlaced(call[c]) /\ InBudget(call[c]) /\ RemovesExpired(call[c])
           /\ inFlight \subseteq Instances \X Keys
           /\ Holds(c) => AllExpired(KeyOf(c))
<1>1. call[c] \in Call /\ clock \in Nat /\ KeyOf(c) \in Keys
      /\ inFlight \subseteq Instances \X Keys
  BY DEF IInv, TypeOK, KeyOf, Call
<1>2. record[KeyOf(c)] \in Nat /\ runs[KeyOf(c)] \in Seq(Runs)
      /\ record[KeyOf(c)] <= Len(runs[KeyOf(c)])
  BY <1>1 DEF IInv, TypeOK
<1>3. record[KeyOf(c)] # 0 => record[KeyOf(c)] \in DOMAIN runs[KeyOf(c)]
  BY <1>2
<1> QED BY <1>1, <1>2, <1>3 DEF IInv, Placed, HeldHasExpired

LEMMA BeginKeeps ==
    ASSUME IInv, NEW c \in Calls, Begin(c)
    PROVE  IInv'
<1> DEFINE n == [call[c] EXCEPT !.pc = "claim", !.now = clock]
<1>1. n \in Call
  BY ZenonT(60), Served DEF Call, Running, Claiming
<1>2. n.pc = "claim" /\ n.wrote = "nothing" /\ n.start = call[c].start
      /\ n.now = clock /\ call[c].pc = "begin"
  BY Served DEF Begin, At, WellPlaced, Call
<1>3. call' = [call EXCEPT ![c] = n]
  BY DEF Begin, IInv, TypeOK
<1>4. UNCHANGED <<clock, runs, record, inFlight>>
  BY DEF Begin
<1> HIDE DEF n
<1>5. WellPlaced(n) /\ InBudget(n) /\ RemovesExpired(n)
  BY <1>2, Served DEF WellPlaced, InBudget, RemovesExpired
<1> QED BY <1>1, <1>2, <1>3, <1>4, <1>5, Served, OneCallMoves

LEMMA InsertClaimKeeps ==
    ASSUME IInv, NEW c \in Calls, InsertClaim(c)
    PROVE  IInv'
<1>1. UNCHANGED <<clock, runs, record>>
  BY DEF InsertClaim
<1>2. CASE /\ Row(c) = 0 \/ call[c].wrote = "deleted"
           /\ call' = [call EXCEPT ![c].pc = "execute", ![c].wrote = "inserted"]
           /\ UNCHANGED inFlight
  <2> DEFINE n == [call[c] EXCEPT !.pc = "execute", !.wrote = "inserted"]
  <2>1. n \in Call
    BY ZenonT(60), Served DEF Call, Running
  <2>2. n.pc = "execute" /\ n.wrote = "inserted" /\ n.start = call[c].start
        /\ n.now = call[c].now /\ n.key = KeyOf(c) /\ call[c].pc \in Claiming
        /\ ~Blocked(c)
    BY Served DEF InsertClaim, Call, KeyOf
  <2>3. call' = [call EXCEPT ![c] = n]
    BY <1>2 DEF IInv, TypeOK
  <2>4. Holds(c) \/ AllExpired(KeyOf(c))
    <3>1. CASE Row(c) = 0
      BY <3>1, Served DEF Row, IInv, RowOrExpired, AllExpired
    <3>2. CASE call[c].wrote = "deleted"
      BY <3>2 DEF Holds
    <3> QED BY <1>2, <3>1, <3>2
  <2> HIDE DEF n
  <2>5. WellPlaced(n) /\ InBudget(n) /\ RemovesExpired(n)
    BY <2>2, Served DEF WellPlaced, InBudget, RemovesExpired, Claiming
  <2> QED BY <1>1, <1>2, <2>1, <2>2, <2>3, <2>4, <2>5, Served, OneCallMoves
<1>3. CASE /\ At(c, "claim")
           /\ call' = [call EXCEPT ![c].pc = "find"]
           /\ UNCHANGED inFlight
  <2> DEFINE n == [call[c] EXCEPT !.pc = "find"]
  <2>1. n \in Call
    BY ZenonT(60), Served DEF Call, Running
  <2>2. n.pc = "find" /\ n.wrote = "nothing" /\ n.start = call[c].start
        /\ n.now = call[c].now /\ call[c].pc = "claim"
    BY <1>3, Served DEF At, WellPlaced, Call
  <2>3. call' = [call EXCEPT ![c] = n]
    BY <1>3 DEF IInv, TypeOK
  <2> HIDE DEF n
  <2>4. WellPlaced(n) /\ InBudget(n) /\ RemovesExpired(n)
    BY <2>2, Served DEF WellPlaced, InBudget, RemovesExpired
  <2> QED BY <1>1, <1>3, <2>1, <2>2, <2>3, <2>4, Served, OneCallMoves
<1>4. CASE Answer(c, "refused")
  BY <1>1, <1>4, AnswerKeeps DEF Answers
<1> QED BY <1>2, <1>3, <1>4 DEF InsertClaim

\* A replay changes nothing but what the client was told.
LEMMA ReplayKeeps ==
    ASSUME IInv, NEW c \in Calls, Replay(c), UNCHANGED <<clock, runs, record>>
    PROVE  IInv'
<1> DEFINE n == [NoCall EXCEPT !.key = KeyOf(c), !.fp = call[c].fp,
                    !.answer = "replayed", !.outcome = Row(c)]
<1>1. n \in Call /\ n.pc = "idle" /\ n.wrote = "nothing"
  <2>1. call[c].fp \in Fingerprints /\ Row(c) \in Nat
    BY Served DEF Call, Row
  <2>2. n \in Call
    BY <2>1, Served, NoCallType DEF Call, Answers
  <2> QED BY <2>2 DEF NoCall
<1>2. call' = [call EXCEPT ![c] = n] /\ inFlight' \subseteq Instances \X Keys
  BY Served DEF Replay
<1> HIDE DEF n
<1>3. WellPlaced(n) /\ InBudget(n) /\ RemovesExpired(n)
  BY <1>1 DEF WellPlaced, InBudget, RemovesExpired
<1> QED BY <1>1, <1>2, <1>3, OneCallMoves

LEMMA FindKeeps ==
    ASSUME IInv, NEW c \in Calls, Find(c)
    PROVE  IInv'
<1>1. UNCHANGED <<clock, runs, record>> /\ call[c].pc = "find"
  BY DEF Find, At
<1>2. CASE call' = [call EXCEPT ![c].pc = "reclaim"] /\ UNCHANGED inFlight
  <2> DEFINE n == [call[c] EXCEPT !.pc = "reclaim"]
  <2>1. n \in Call
    BY ZenonT(60), Served DEF Call, Running, Claiming
  <2>2. n.pc = "reclaim" /\ n.wrote = "nothing" /\ n.start = call[c].start
        /\ n.now = call[c].now
    BY <1>1, Served DEF WellPlaced, Call
  <2>3. call' = [call EXCEPT ![c] = n]
    BY <1>2 DEF IInv, TypeOK
  <2> HIDE DEF n
  <2>4. WellPlaced(n) /\ InBudget(n) /\ RemovesExpired(n)
    BY <1>1, <2>2, Served DEF WellPlaced, InBudget, RemovesExpired
  <2> QED BY <1>1, <1>2, <2>1, <2>2, <2>3, <2>4, Served, OneCallMoves
<1>3. CASE /\ Row(c) # 0 /\ RowRun(c).expires <= call[c].now
           /\ call' = [call EXCEPT ![c].pc = "remove", ![c].found = Row(c)]
           /\ UNCHANGED inFlight
  <2> DEFINE n == [call[c] EXCEPT !.pc = "remove", !.found = Row(c)]
  <2>1. n \in Call
    BY ZenonT(60), Served DEF Call, Running, Row
  <2>2. n.pc = "remove" /\ n.wrote = "nothing" /\ n.start = call[c].start
        /\ n.now = call[c].now /\ n.found = Row(c) /\ n.key = KeyOf(c)
    BY <1>1, Served DEF WellPlaced, Call, KeyOf
  <2>3. call' = [call EXCEPT ![c] = n]
    BY <1>3 DEF IInv, TypeOK
  <2>4. Row(c) \in DOMAIN runs[KeyOf(c)] /\ runs[KeyOf(c)][Row(c)].expires <= clock
    <3>1. Row(c) \in DOMAIN runs[KeyOf(c)]
      BY <1>3, Served DEF Row
    <3>2. runs[KeyOf(c)][Row(c)] \in Runs
      BY <3>1, Served
    <3>3. runs[KeyOf(c)][Row(c)].expires \in Nat
      BY <3>2 DEF Runs
    <3>4. call[c].now \in Nat /\ call[c].now <= clock
      BY <1>1, Served DEF Call, InBudget
    <3> QED BY <1>3, <3>1, <3>3, <3>4, Served DEF RowRun
  <2> HIDE DEF n
  <2>5. WellPlaced(n) /\ InBudget(n) /\ RemovesExpired(n)
    BY <1>1, <2>2, <2>4, Served DEF WellPlaced, InBudget, RemovesExpired
  <2> QED BY <1>1, <1>3, <2>1, <2>2, <2>3, <2>5, Served, OneCallMoves
<1>4. CASE Answer(c, "refused")
  BY <1>1, <1>4, AnswerKeeps DEF Answers
<1>5. CASE Replay(c)
  BY <1>1, <1>5, ReplayKeeps
<1> QED BY <1>2, <1>3, <1>4, <1>5 DEF Find

LEMMA RemoveExpiredKeeps ==
    ASSUME IInv, NEW c \in Calls, RemoveExpired(c)
    PROVE  IInv'
<1> DEFINE wrote == IF Row(c) = call[c].found THEN "deleted" ELSE "nothing"
           n == [call[c] EXCEPT !.pc = "reclaim", !.found = 0, !.wrote = wrote]
<1>1. wrote \in {"deleted", "nothing"}
  OBVIOUS
<1>2. wrote # "nothing" => Row(c) = call[c].found
  OBVIOUS
<1>3. /\ UNCHANGED <<clock, runs, record, inFlight>>
      /\ call[c].pc = "remove" /\ ~WaitsToRemove(c)
      /\ call' = [call EXCEPT ![c].pc = "reclaim", ![c].found = 0, ![c].wrote = wrote]
  BY DEF RemoveExpired, At
<1> HIDE DEF wrote
<1>4. n \in Call
  BY ZenonT(60), <1>1, Served DEF Call, Running, Claiming
<1>5. n.pc = "reclaim" /\ n.wrote = wrote /\ n.start = call[c].start
      /\ n.now = call[c].now /\ n.key = KeyOf(c)
  BY Served DEF Call, KeyOf
<1>6. call' = [call EXCEPT ![c] = n]
  BY <1>3 DEF IInv, TypeOK
<1>7. wrote # "nothing" => ~Blocked(c) /\ AllExpired(KeyOf(c))
  <2> SUFFICES ASSUME wrote # "nothing" PROVE ~Blocked(c) /\ AllExpired(KeyOf(c))
    OBVIOUS
  <2>1. ~Blocked(c)
    BY <1>2, <1>3 DEF WaitsToRemove
  <2>2. runs[KeyOf(c)][Row(c)].expires <= clock
    BY <1>2, <1>3, Served DEF RemovesExpired, KeyOf
  <2>3. AllExpired(KeyOf(c))
    BY <2>2, Served DEF IInv, RowOrExpired, AllExpired, Row
  <2> QED BY <2>1, <2>3
<1> HIDE DEF n
<1>8. WellPlaced(n) /\ InBudget(n) /\ RemovesExpired(n)
  BY <1>3, <1>5, Served DEF WellPlaced, InBudget, RemovesExpired
<1> QED BY <1>3, <1>4, <1>5, <1>6, <1>7, <1>8, Served, OneCallMoves

LEMMA ExecuteKeeps ==
    ASSUME IInv, NEW c \in Calls, Execute(c)
    PROVE  IInv'
<1> DEFINE n == [call[c] EXCEPT !.pc = "commit"]
<1>1. n \in Call
  BY ZenonT(60), Served DEF Call, Running
<1>2. n.pc = "commit" /\ n.wrote = "inserted" /\ n.start = call[c].start
      /\ n.now = call[c].now /\ n.key = KeyOf(c) /\ call[c].pc = "execute" /\ Holds(c)
  BY Served DEF Execute, At, WellPlaced, Call, KeyOf, Holds
<1>3. call' = [call EXCEPT ![c] = n] /\ UNCHANGED <<clock, runs, record, inFlight>>
  BY DEF Execute, IInv, TypeOK
<1> HIDE DEF n
<1>4. WellPlaced(n) /\ InBudget(n) /\ RemovesExpired(n)
  BY <1>2, Served DEF WellPlaced, InBudget, RemovesExpired
<1> QED BY <1>1, <1>2, <1>3, <1>4, Served, OneCallMoves

LEMMA RetryKeeps ==
    ASSUME IInv, NEW c \in Calls, Retry(c)
    PROVE  IInv'
<1> DEFINE n == [call[c] EXCEPT !.pc = "begin", !.wrote = "nothing", !.found = 0,
                     !.now = 0, !.attempt = call[c].attempt + 1]
<1>1. call[c].attempt + 1 \in 1..MaxAttempts
  BY SMTT(30), Served, ConstantsAssumption DEF Retry, Call
<1>2. n \in Call
  BY ZenonT(60), <1>1, Served DEF Call, Running
<1>3. n.pc = "begin" /\ n.wrote = "nothing" /\ n.start = call[c].start
      /\ call[c].pc # "idle"
  BY Served DEF Retry, Running, Claiming, Call
<1>4. call' = [call EXCEPT ![c] = n] /\ UNCHANGED <<clock, runs, record, inFlight>>
  BY DEF Retry, IInv, TypeOK
<1> HIDE DEF n
<1>5. WellPlaced(n) /\ InBudget(n) /\ RemovesExpired(n)
  BY <1>3, Served DEF WellPlaced, InBudget, RemovesExpired
<1> QED BY <1>2, <1>3, <1>4, <1>5, Served, OneCallMoves

\* A transaction without its client keeps what it wrote.
LEMMA OrphanIsPlaced ==
    ASSUME IInv, NEW c \in Calls, call[c].pc \in Running,
           NEW pc \in Lingering, pc = "lost" => call[c].pc = "commit",
           NEW answer \in Answers
    PROVE  LET n == Orphan(c, pc, answer)
           IN  /\ n \in Call /\ n.wrote = call[c].wrote /\ n.key = KeyOf(c)
               /\ WellPlaced(n) /\ InBudget(n) /\ RemovesExpired(n)
<1> DEFINE n == Orphan(c, pc, answer)
<1>1. n \in Call
  BY Served, OrphanType
<1>2. n.pc = pc /\ n.wrote = call[c].wrote /\ n.key = KeyOf(c)
      /\ n.start = call[c].start /\ (pc = "lost" => n.now = call[c].now)
  <2> DEFINE now == IF pc = "lost" THEN call[c].now ELSE 0
             inst == NoCall.inst
  <2>1. n = [call[c] EXCEPT !.pc = pc, !.answer = answer,
                 !.inst = inst, !.attempt = 1, !.found = 0, !.now = now]
    BY Zenon DEF Orphan
  <2>2. pc = "lost" => now = call[c].now
    OBVIOUS
  <2> HIDE DEF now, inst, n
  <2> QED BY <2>1, <2>2, Served DEF Call, KeyOf
<1>3. call[c].pc # "idle" /\ pc # "idle"
  BY DEF Running, Claiming, Lingering
<1> HIDE DEF n
<1>4. WellPlaced(n) /\ InBudget(n) /\ RemovesExpired(n)
  BY <1>2, <1>3, Served DEF WellPlaced, InBudget, RemovesExpired, Lingering
<1> QED BY <1>1, <1>2, <1>4 DEF n

LEMMA OrphanKeeps ==
    ASSUME IInv, NEW c \in Calls, call[c].pc \in Running,
           NEW pc \in Lingering, pc = "lost" => call[c].pc = "commit",
           NEW answer \in Answers,
           call' = [call EXCEPT ![c] = Orphan(c, pc, answer)],
           inFlight' = inFlight \ {Flight(c)}, UNCHANGED <<clock, runs, record>>
    PROVE  IInv'
<1> DEFINE n == Orphan(c, pc, answer)
<1>1. n \in Call /\ n.wrote = call[c].wrote /\ n.key = KeyOf(c)
      /\ WellPlaced(n) /\ InBudget(n) /\ RemovesExpired(n)
  BY OrphanIsPlaced
<1>2. call' = [call EXCEPT ![c] = n] /\ inFlight' \subseteq Instances \X Keys
  BY Served
<1> HIDE DEF n
<1>3. n.wrote # "nothing" => Holds(c)
  BY <1>1 DEF Holds
<1> QED BY <1>1, <1>2, <1>3, OneCallMoves

LEMMA SettleKeeps ==
    ASSUME IInv, NEW c \in Calls, Settle(c)
    PROVE  IInv'
<1> DEFINE n == [NoCall EXCEPT !.key = KeyOf(c), !.fp = call[c].fp,
                    !.answer = call[c].answer]
<1>1. n \in Call /\ n.pc = "idle" /\ n.wrote = "nothing"
  <2>1. call[c].fp \in Fingerprints /\ call[c].answer \in Answers
    BY Served DEF Call
  <2>2. n \in Call
    BY <2>1, Served, NoCallType DEF Call
  <2> QED BY <2>2 DEF NoCall
<1>2. call' = [call EXCEPT ![c] = n] /\ UNCHANGED <<clock, inFlight>>
  BY DEF Settle
<1>3. inFlight' \subseteq Instances \X Keys
  BY <1>2, Served
<1> HIDE DEF n
<1>4. WellPlaced(n) /\ InBudget(n) /\ RemovesExpired(n)
  BY <1>1 DEF WellPlaced, InBudget, RemovesExpired
<1>5. CASE UNCHANGED <<runs, record>>
  BY <1>1, <1>2, <1>3, <1>4, <1>5, OneCallMoves
<1>6. CASE At(c, "lost") /\ Save(c)
  BY <1>1, <1>2, <1>3, <1>6, OneCallSaves DEF At
<1> QED BY <1>5, <1>6 DEF Settle

LEMMA CommitAnsweredKeeps ==
    ASSUME IInv, NEW c \in Calls, CommitAnswered(c)
    PROVE  IInv'
<1> DEFINE n == [NoCall EXCEPT !.answer = "saved"]
<1>1. n \in Call /\ n.pc = "idle" /\ n.wrote = "nothing"
  <2>1. n \in Call
    BY NoCallType DEF Call, Answers
  <2> QED BY <2>1 DEF NoCall
<1>2. /\ call' = [call EXCEPT ![c] = n] /\ UNCHANGED clock
      /\ Save(c) /\ call[c].pc = "commit"
  BY DEF CommitAnswered, Answer, At
<1>3. inFlight' \subseteq Instances \X Keys
  BY Served DEF CommitAnswered, Answer
<1> HIDE DEF n
<1> QED BY <1>1, <1>2, <1>3, OneCallSaves

LEMMA StepKeeps ==
    ASSUME IInv, NEW c \in Calls, Step(c)
    PROVE  IInv'
<1>1. CASE ClaimTimesOut(c)
  BY <1>1, AnswerKeeps DEF ClaimTimesOut, Answers
<1>2. CASE Fail(c)
  BY <1>2, AnswerKeeps DEF Fail, Answers
<1>3. CASE Disconnect(c)
  BY <1>3, OrphanKeeps DEF Disconnect, Lingering, Answers
<1>4. CASE CommitLost(c)
  BY <1>4, OrphanKeeps DEF CommitLost, At, Running, Lingering, Answers
<1> QED
  BY <1>1, <1>2, <1>3, <1>4, BeginKeeps, InsertClaimKeeps, FindKeeps,
     RemoveExpiredKeeps, ExecuteKeeps, RetryKeeps, CommitAnsweredKeeps,
     SettleKeeps DEF Step

-----------------------------------------------------------------------------
(* Steps of the environment.                                               *)

\* A crash changes where calls stand, not what their transactions hold.
LEMMA DieKeeps ==
    ASSUME IInv, NEW i \in Instances, Die(i)
    PROVE  IInv'
<1>1. UNCHANGED <<clock, runs, record>> /\ inFlight' \subseteq Instances \X Keys
  BY DEF Die, IInv, TypeOK
<1>2. ASSUME NEW c \in Calls
      PROVE  /\ call'[c] \in Call /\ call'[c].wrote = call[c].wrote
             /\ call'[c].key = call[c].key
             /\ WellPlaced(call'[c]) /\ InBudget(call'[c]) /\ RemovesExpired(call'[c])
  <2> DEFINE pc == IF At(c, "commit") THEN "lost" ELSE "dropped"
  <2>1. pc \in Lingering /\ (pc = "lost" => call[c].pc = "commit")
    BY DEF Lingering, At
  <2>2. CASE call[c].pc \in Running /\ call'[c] = Orphan(c, pc, "unknown")
    <3>1. "unknown" \in Answers
      BY DEF Answers
    <3> HIDE DEF pc
    <3>2. LET n == Orphan(c, pc, "unknown")
          IN  /\ n \in Call /\ n.wrote = call[c].wrote /\ n.key = KeyOf(c)
              /\ WellPlaced(n) /\ InBudget(n) /\ RemovesExpired(n)
      BY <2>1, <2>2, <3>1, OrphanIsPlaced
    <3> QED BY <2>2, <3>2 DEF KeyOf
  <2>3. CASE call'[c] = call[c]
    BY <2>3, Served
  <2> QED BY <2>2, <2>3 DEF Die
<1>3. TypeOK'
  <2>1. call' \in [Calls -> Call]
    BY <1>2 DEF Die
  <2> QED BY <1>1, <2>1 DEF IInv, TypeOK
<1>4. Placed'
  <2>1. \A c \in Calls : WellPlaced(call[c])' /\ InBudget(call[c])' /\ RemovesExpired(call[c])'
    BY <1>1, <1>2 DEF WellPlaced, InBudget, RemovesExpired
  <2> QED BY <2>1 DEF Placed
<1>5. OneHolder' /\ HeldHasExpired'
  BY <1>1, <1>2 DEF IInv, OneHolder, HeldHasExpired, Holds, KeyOf, AllExpired
<1> QED
  BY <1>1, <1>3, <1>4, <1>5 DEF IInv, RowOrExpired, RunsExpireInTime, OncePerRetention

LEMMA PurgeKeeps ==
    ASSUME IInv, NEW k \in Keys, Purge(k)
    PROVE  IInv'
<1> USE DEF IInv
<1>1. /\ UNCHANGED <<clock, runs, call, inFlight>>
      /\ runs[k][record[k]].expires <= clock
      /\ record' = [record EXCEPT ![k] = 0]
  BY DEF Purge
<1>2. TypeOK'
  BY <1>1 DEF TypeOK
<1>3. RowOrExpired'
  BY <1>1 DEF RowOrExpired, TypeOK
<1> QED
  BY <1>1, <1>2, <1>3 DEF Placed, WellPlaced, InBudget, RemovesExpired, OneHolder,
     HeldHasExpired, Holds, KeyOf, AllExpired, RunsExpireInTime, OncePerRetention

\* What has expired stays expired.
LEMMA TickKeeps ==
    ASSUME IInv, Tick
    PROVE  IInv'
<1> USE DEF IInv
<1>1. /\ UNCHANGED <<runs, record, call, inFlight>> /\ clock' = clock + 1 /\ clock \in Nat
      /\ \A c \in Calls : call[c].pc # "idle" => clock + 1 - call[c].start <= CallBudget
  BY DEF Tick, At, TypeOK
<1>2. \A k \in Keys : \A i \in DOMAIN runs[k] : runs[k][i].expires \in Nat
  <2> SUFFICES ASSUME NEW k \in Keys, NEW i \in DOMAIN runs[k]
               PROVE  runs[k][i].expires \in Nat
    OBVIOUS
  <2>1. runs[k][i] \in Runs
    BY DEF TypeOK
  <2> QED BY <2>1 DEF Runs
<1>3. \A k \in Keys : \A i \in DOMAIN runs[k] :
          runs[k][i].expires <= clock => runs[k][i].expires <= clock'
  BY <1>1, <1>2
<1>4. TypeOK'
  BY <1>1 DEF TypeOK
<1>5. Placed'
  <2> SUFFICES ASSUME NEW c \in Calls
               PROVE  WellPlaced(call[c])' /\ InBudget(call[c])' /\ RemovesExpired(call[c])'
    BY DEF Placed
  <2>1. call[c].start \in Nat /\ call[c].now \in Nat /\ call[c].key \in Keys
    BY Served DEF Call, KeyOf
  <2>2. WellPlaced(call[c])'
    BY <1>1, Served DEF WellPlaced
  <2>3. InBudget(call[c])'
    BY SMTT(30), <1>1, <2>1, Served, ConstantsAssumption DEF InBudget
  <2>4. RemovesExpired(call[c])'
    BY <1>1, <1>3, <2>1, Served DEF RemovesExpired
  <2> QED BY <2>2, <2>3, <2>4
<1>6. OneHolder'
  BY <1>1 DEF OneHolder, Holds, KeyOf
<1>7. HeldHasExpired'
  <2> SUFFICES ASSUME NEW c \in Calls, Holds(c)' PROVE AllExpired(KeyOf(c))'
    BY DEF HeldHasExpired
  <2>1. AllExpired(KeyOf(c)) /\ KeyOf(c) \in Keys
    BY <1>1, Served DEF Holds
  <2> QED BY <1>1, <1>3, <2>1 DEF AllExpired, KeyOf
<1>8. RowOrExpired'
  BY <1>1, <1>3 DEF RowOrExpired
<1> QED
  BY <1>1, <1>4, <1>5, <1>6, <1>7, <1>8 DEF RunsExpireInTime, OncePerRetention

-----------------------------------------------------------------------------
(* Theorems.                                                               *)

(* The inductive invariant: transactions take the row of a key one at a    *)
(* time, and only over runs that have expired.                             *)
THEOREM Exclusion == Spec => []IInv
<1>1. ASSUME IInv, [Next]_vars PROVE IInv'
  <2>1. CASE UNCHANGED vars
    BY <1>1, <2>1 DEF vars, IInv, TypeOK, Placed, WellPlaced, InBudget, RemovesExpired,
       OneHolder, Holds, KeyOf, HeldHasExpired, AllExpired, RowOrExpired,
       RunsExpireInTime, OncePerRetention
  <2>2. CASE \E c \in Calls : Step(c)
    BY <1>1, <2>2, StepKeeps
  <2>3. CASE \E c \in Calls, k \in Keys, f \in Fingerprints, i \in Instances :
                 Start(c, k, f, i)
    BY <1>1, <2>3, StartKeeps
  <2>4. CASE \E i \in Instances : Die(i)
    BY <1>1, <2>4, DieKeeps
  <2>5. CASE \E k \in Keys : Purge(k)
    BY <1>1, <2>5, PurgeKeeps
  <2>6. CASE Tick
    BY <1>1, <2>6, TickKeeps
  <2> QED BY <1>1, <2>1, <2>2, <2>3, <2>4, <2>5, <2>6 DEF Next
<1> QED BY <1>1, Initially, PTL DEF Spec

(* Every variable keeps its type, and the attempts of a call their limit.  *)
THEOREM RunnerTypes == Spec => []TypeOK
<1>1. IInv => TypeOK
  BY DEF IInv
<1> QED BY <1>1, Exclusion, PTL

(* A key runs its operation again only after its retention, whatever calls *)
(* retry, overlap, crash or lose their answer.                             *)
THEOREM KeysRunOnce == Spec => []OncePerRetention
<1>1. IInv => OncePerRetention
  BY DEF IInv
<1> QED BY <1>1, Exclusion, PTL

-----------------------------------------------------------------------------
(* Which keys a server is serving.                                         *)

Serves(c) == call[c].pc \in Running

\* A call is served or not, under the same key, as before.
LEMMA StillServed ==
    ASSUME TypeOK, InFlightIsExact, NEW c \in Calls, NEW n,
           call' = [call EXCEPT ![c] = n], inFlight' = inFlight,
           n.pc \in Running <=> Serves(c),
           Serves(c) => n.inst = call[c].inst /\ n.key = call[c].key
    PROVE  InFlightIsExact'
<1>1. call'[c] = n /\ \A d \in Calls \ {c} : call'[d] = call[d]
  BY DEF TypeOK
<1>2. \A d \in Calls : (Serves(d)' <=> Serves(d)) /\ (Serves(d) => Flight(d)' = Flight(d))
  BY <1>1 DEF Serves, Flight
<1> QED BY <1>2 DEF InFlightIsExact, Serves

\* A call ends and its key leaves the set.
LEMMA NoLongerServed ==
    ASSUME TypeOK, InFlightIsExact, NEW c \in Calls, NEW n,
           call' = [call EXCEPT ![c] = n], inFlight' = inFlight \ {Flight(c)},
           Serves(c), n.pc \notin Running
    PROVE  InFlightIsExact'
<1>1. call'[c] = n /\ \A d \in Calls \ {c} : call'[d] = call[d]
  BY DEF TypeOK
<1>2. ~Serves(c)' /\ \A d \in Calls \ {c} : (Serves(d)' <=> Serves(d)) /\ Flight(d)' = Flight(d)
  BY <1>1 DEF Serves, Flight
<1>3. \A d \in Calls \ {c} : Serves(d) => Flight(d) # Flight(c)
  BY DEF InFlightIsExact, Serves
<1> QED BY <1>2, <1>3 DEF InFlightIsExact, Serves

\* A call comes in under a key that is not being served.
LEMMA NewlyServed ==
    ASSUME TypeOK, InFlightIsExact, NEW c \in Calls, NEW n,
           call' = [call EXCEPT ![c] = n],
           inFlight' = inFlight \cup {<<n.inst, n.key>>},
           <<n.inst, n.key>> \notin inFlight,
           ~Serves(c), n.pc \in Running
    PROVE  InFlightIsExact'
<1>1. call'[c] = n /\ \A d \in Calls \ {c} : call'[d] = call[d]
  BY DEF TypeOK
<1>2. /\ Serves(c)' /\ Flight(c)' = <<n.inst, n.key>>
      /\ \A d \in Calls \ {c} : (Serves(d)' <=> Serves(d)) /\ Flight(d)' = Flight(d)
  BY <1>1 DEF Serves, Flight
<1>3. \A d \in Calls \ {c} : Serves(d) => Flight(d) # <<n.inst, n.key>>
  BY DEF InFlightIsExact, Serves
<1> QED BY <1>2, <1>3 DEF InFlightIsExact, Serves

LEMMA AnswerExact ==
    ASSUME TypeOK, InFlightIsExact, NEW c \in Calls, NEW answer,
           Serves(c), Answer(c, answer)
    PROVE  InFlightIsExact'
<1>1. [NoCall EXCEPT !.answer = answer].pc \notin Running
  BY DEF NoCall, Running, Claiming
<1> QED BY <1>1, NoLongerServed DEF Answer

LEMMA OrphanExact ==
    ASSUME TypeOK, InFlightIsExact, NEW c \in Calls, NEW pc \in Lingering, NEW answer,
           Serves(c), call' = [call EXCEPT ![c] = Orphan(c, pc, answer)],
           inFlight' = inFlight \ {Flight(c)}
    PROVE  InFlightIsExact'
<1>1. Orphan(c, pc, answer).pc = pc
  BY DEF Orphan, TypeOK, Call
<1>2. pc \notin Running
  BY DEF Running, Claiming, Lingering
<1> QED BY <1>1, <1>2, NoLongerServed

LEMMA StartExact ==
    ASSUME TypeOK, InFlightIsExact, NEW c \in Calls, NEW k, NEW f, NEW i, Start(c, k, f, i)
    PROVE  InFlightIsExact'
<1>1. ~Serves(c)
  BY DEF Start, At, Serves, Running, Claiming
<1>2. CASE Busy(c, [NoCall EXCEPT !.key = k, !.fp = f], i)
  <2>1. [NoCall EXCEPT !.answer = "refused"].pc \notin Running
    BY DEF NoCall, Running, Claiming
  <2> QED BY <1>1, <1>2, <2>1, StillServed DEF Busy
<1>3. CASE /\ <<i, k>> \notin inFlight
           /\ call' = [call EXCEPT ![c] =
                   [[NoCall EXCEPT !.key = k, !.fp = f] EXCEPT
                       !.pc = "begin", !.inst = i, !.start = clock]]
           /\ inFlight' = inFlight \cup {<<i, k>>}
  <2> DEFINE n == [[NoCall EXCEPT !.key = k, !.fp = f] EXCEPT
                       !.pc = "begin", !.inst = i, !.start = clock]
  <2>1. n.pc = "begin" /\ n.inst = i /\ n.key = k
    BY DEF NoCall
  <2>2. n.pc \in Running
    BY <2>1 DEF Running
  <2>3. call' = [call EXCEPT ![c] = n]
    BY <1>3
  <2> HIDE DEF n
  <2> QED BY <1>1, <1>3, <2>1, <2>2, <2>3, NewlyServed
<1> QED BY <1>2, <1>3 DEF Start

LEMMA MovesExact ==
    ASSUME TypeOK, InFlightIsExact, NEW c \in Calls,
           Begin(c) \/ RemoveExpired(c) \/ Execute(c) \/ Retry(c)
    PROVE  InFlightIsExact'
<1>1. Serves(c) /\ Serves(c)' /\ inFlight' = inFlight
  BY DEF Begin, RemoveExpired, Execute, Retry, At, Serves, Running, Claiming, TypeOK, Call
<1>2. call'[c].inst = call[c].inst /\ call'[c].key = call[c].key
  BY DEF Begin, RemoveExpired, Execute, Retry, TypeOK, Call
<1>3. call' = [call EXCEPT ![c] = call'[c]]
  BY DEF Begin, RemoveExpired, Execute, Retry, TypeOK
<1> QED BY <1>1, <1>2, <1>3, StillServed DEF Serves

LEMMA ReplayExact ==
    ASSUME TypeOK, InFlightIsExact, NEW c \in Calls, Serves(c), Replay(c)
    PROVE  InFlightIsExact'
<1> DEFINE n == [NoCall EXCEPT !.key = KeyOf(c), !.fp = call[c].fp,
                     !.answer = "replayed", !.outcome = Row(c)]
<1>1. n.pc \notin Running
  BY DEF NoCall, Running, Claiming
<1>2. call' = [call EXCEPT ![c] = n] /\ inFlight' = inFlight \ {Flight(c)}
  BY DEF Replay
<1> HIDE DEF n
<1> QED BY <1>1, <1>2, NoLongerServed

LEMMA InsertClaimExact ==
    ASSUME TypeOK, InFlightIsExact, NEW c \in Calls, InsertClaim(c)
    PROVE  InFlightIsExact'
<1>1. Serves(c)
  BY DEF InsertClaim, Serves, Running
<1>2. CASE Answer(c, "refused")
  BY <1>1, <1>2, AnswerExact
<1>3. CASE /\ call' = [call EXCEPT ![c].pc = "execute", ![c].wrote = "inserted"]
           /\ UNCHANGED inFlight
  <2> DEFINE n == [call[c] EXCEPT !.pc = "execute", !.wrote = "inserted"]
  <2>1. n.pc = "execute" /\ n.inst = call[c].inst /\ n.key = call[c].key
    BY DEF TypeOK, Call
  <2>2. call' = [call EXCEPT ![c] = n]
    BY <1>3 DEF TypeOK
  <2> HIDE DEF n
  <2>3. n.pc \in Running
    BY <2>1 DEF Running
  <2> QED BY <1>1, <1>3, <2>1, <2>2, <2>3, StillServed
<1>4. CASE call' = [call EXCEPT ![c].pc = "find"] /\ UNCHANGED inFlight
  <2> DEFINE n == [call[c] EXCEPT !.pc = "find"]
  <2>1. n.pc = "find" /\ n.inst = call[c].inst /\ n.key = call[c].key
    BY DEF TypeOK, Call
  <2>2. call' = [call EXCEPT ![c] = n]
    BY <1>4 DEF TypeOK
  <2> HIDE DEF n
  <2>3. n.pc \in Running
    BY <2>1 DEF Running
  <2> QED BY <1>1, <1>4, <2>1, <2>2, <2>3, StillServed
<1> QED BY <1>2, <1>3, <1>4 DEF InsertClaim

LEMMA FindExact ==
    ASSUME TypeOK, InFlightIsExact, NEW c \in Calls, Find(c)
    PROVE  InFlightIsExact'
<1>1. Serves(c)
  BY DEF Find, At, Serves, Running
<1>2. CASE Answer(c, "refused")
  BY <1>1, <1>2, AnswerExact
<1>3. CASE Replay(c)
  BY <1>1, <1>3, ReplayExact
<1>4. CASE call' = [call EXCEPT ![c].pc = "reclaim"] /\ UNCHANGED inFlight
  <2> DEFINE n == [call[c] EXCEPT !.pc = "reclaim"]
  <2>1. n.pc = "reclaim" /\ n.inst = call[c].inst /\ n.key = call[c].key
    BY DEF TypeOK, Call
  <2>2. call' = [call EXCEPT ![c] = n]
    BY <1>4 DEF TypeOK
  <2> HIDE DEF n
  <2>3. n.pc \in Running
    BY <2>1 DEF Running, Claiming
  <2> QED BY <1>1, <1>4, <2>1, <2>2, <2>3, StillServed
<1>5. CASE /\ call' = [call EXCEPT ![c].pc = "remove", ![c].found = Row(c)]
           /\ UNCHANGED inFlight
  <2> DEFINE n == [call[c] EXCEPT !.pc = "remove", !.found = Row(c)]
  <2>1. n.pc = "remove" /\ n.inst = call[c].inst /\ n.key = call[c].key
    BY DEF TypeOK, Call
  <2>2. call' = [call EXCEPT ![c] = n]
    BY <1>5 DEF TypeOK
  <2> HIDE DEF n
  <2>3. n.pc \in Running
    BY <2>1 DEF Running
  <2> QED BY <1>1, <1>5, <2>1, <2>2, <2>3, StillServed
<1> QED BY <1>2, <1>3, <1>4, <1>5 DEF Find

\* A transaction without its client was not being served any more.
LEMMA SettleExact ==
    ASSUME TypeOK, InFlightIsExact, NEW c \in Calls, Settle(c)
    PROVE  InFlightIsExact'
<1> DEFINE n == [NoCall EXCEPT !.key = KeyOf(c), !.fp = call[c].fp,
                    !.answer = call[c].answer]
<1>1. n.pc \notin Running
  BY DEF NoCall, Running, Claiming
<1>2. ~Serves(c)
  BY DEF Settle, Serves, Lingering, Running, Claiming
<1>3. call' = [call EXCEPT ![c] = n] /\ inFlight' = inFlight
  BY DEF Settle
<1> HIDE DEF n
<1> QED BY <1>1, <1>2, <1>3, StillServed

LEMMA DieExact ==
    ASSUME TypeOK, InFlightIsExact, NEW i \in Instances, Die(i)
    PROVE  InFlightIsExact'
<1>1. ASSUME NEW c \in Calls
      PROVE  IF Serves(c) /\ call[c].inst = i THEN ~Serves(c)' ELSE call'[c] = call[c]
  <2>1. CASE ~(Serves(c) /\ call[c].inst = i)
    BY <2>1 DEF Die, Serves
  <2>2. CASE Serves(c) /\ call[c].inst = i
    <3> DEFINE pc == IF At(c, "commit") THEN "lost" ELSE "dropped"
    <3>1. call'[c] = Orphan(c, pc, "unknown")
      BY <2>2 DEF Die, Serves
    <3>2. pc \in Lingering
      BY DEF Lingering
    <3> HIDE DEF pc
    <3>3. Orphan(c, pc, "unknown").pc = pc
      BY DEF Orphan, TypeOK, Call
    <3>4. pc \notin Running
      BY <3>2 DEF Running, Claiming, Lingering
    <3> QED BY <2>2, <3>1, <3>3, <3>4 DEF Serves
  <2> QED BY <2>1, <2>2
<1>2. \A c \in Calls :
        /\ Serves(c)' <=> Serves(c) /\ Flight(c)[1] # i
        /\ Serves(c)' => Flight(c)' = Flight(c)
  BY <1>1 DEF Serves, Flight
<1>3. inFlight' = {fl \in inFlight : fl[1] # i}
  BY DEF Die
<1> QED BY <1>2, <1>3 DEF InFlightIsExact, Serves

(* The set of keys a server refuses is the set it is serving, whatever     *)
(* calls fail, lose their connection, are refused or die with the server.  *)
THEOREM InFlightExact == Spec => []InFlightIsExact
<1>1. Init => InFlightIsExact
  <2> SUFFICES ASSUME Init PROVE InFlightIsExact
    OBVIOUS
  <2>1. \A c \in Calls : call[c].pc \notin Running
    BY DEF Init, NoCall, Running, Claiming
  <2> QED BY <2>1 DEF Init, InFlightIsExact
<1>2. ASSUME TypeOK, InFlightIsExact, [Next]_vars PROVE InFlightIsExact'
  <2>1. CASE UNCHANGED vars
    BY <1>2, <2>1 DEF vars, InFlightIsExact, Flight
  <2>2. CASE \E c \in Calls : Step(c)
    <3> SUFFICES ASSUME NEW c \in Calls, Step(c) PROVE InFlightIsExact'
      BY <2>2
    <3>1. CASE ClaimTimesOut(c) \/ Fail(c)
      <4>1. Serves(c) /\ Answer(c, "refused")
        BY <3>1 DEF ClaimTimesOut, Fail, At, Serves, Running
      <4> QED BY <1>2, <4>1, AnswerExact
    <3>2. CASE CommitAnswered(c)
      <4>1. Serves(c) /\ Answer(c, "saved")
        BY <3>2 DEF CommitAnswered, At, Serves, Running
      <4> QED BY <1>2, <4>1, AnswerExact
    <3>3. CASE Disconnect(c)
      BY <1>2, <3>3, OrphanExact DEF Disconnect, Serves, Lingering
    <3>4. CASE CommitLost(c)
      BY <1>2, <3>4, OrphanExact DEF CommitLost, At, Serves, Lingering, Running
    <3> QED
      BY <1>2, <3>1, <3>2, <3>3, <3>4, MovesExact, InsertClaimExact, FindExact,
         SettleExact DEF Step
  <2>3. CASE \E c \in Calls, k \in Keys, f \in Fingerprints, i \in Instances :
                 Start(c, k, f, i)
    BY <1>2, <2>3, StartExact
  <2>4. CASE \E i \in Instances : Die(i)
    BY <1>2, <2>4, DieExact
  <2>5. CASE (\E k \in Keys : Purge(k)) \/ Tick
    BY <1>2, <2>5 DEF Purge, Tick, InFlightIsExact, Flight
  <2> QED BY <1>2, <2>1, <2>2, <2>3, <2>4, <2>5 DEF Next
<1> QED BY <1>1, <1>2, RunnerTypes, PTL DEF Spec

-----------------------------------------------------------------------------
(* What clients are told.                                                  *)

\* A call that is served was told nothing, and the client of a commit that is
\* out of its hands knows that it does not know.
AnswerFits(n) ==
    /\ n.pc \in Running => n.answer = "none"
    /\ n.pc = "lost" => n.answer = "unknown"
    /\ n.pc # "idle" => n.outcome = 0

AnswersFit == \A c \in Calls : AnswerFits(call[c])

\* The row of a key is that of its last run, if it is there.
RowIsLast == \A k \in Keys : record[k] \in {0, Len(runs[k])}

AInv == AnswersFit /\ RowIsLast

Seen(n) == [key |-> n.key, fp |-> n.fp, answer |-> n.answer, outcome |-> n.outcome]
Quiet == UNCHANGED <<clock, Saved, Told>>

LEMMA TellsOne ==
    ASSUME IInv, AInv, NEW c \in Calls, NEW n,
           call' = [call EXCEPT ![c] = n], AnswerFits(n),
           UNCHANGED <<clock, runs, record>>
    PROVE  AInv' /\ Told' = [Told EXCEPT ![c] = Seen(n)] /\ Saved' = Saved /\ UNCHANGED clock
<1>1. call'[c] = n /\ \A d \in Calls \ {c} : call'[d] = call[d]
  BY DEF IInv, TypeOK
<1>2. AnswersFit'
  BY <1>1 DEF AInv, AnswersFit, AnswerFits
<1>3. Told' = [Told EXCEPT ![c] = Seen(n)]
  BY <1>1 DEF Told, Seen
<1> QED BY <1>2, <1>3 DEF AInv, RowIsLast, Saved

LEMMA QuietStep ==
    ASSUME IInv, AInv, NEW c \in Calls, NEW n,
           call' = [call EXCEPT ![c] = n], AnswerFits(n), Seen(n) = Seen(call[c]),
           UNCHANGED <<clock, runs, record>>
    PROVE  AInv' /\ Quiet
<1>1. Told = [Told EXCEPT ![c] = Seen(call[c])]
  BY DEF Told, Seen
<1> QED BY <1>1, TellsOne DEF Quiet

LEMMA RefusedStep ==
    ASSUME IInv, AInv, NEW c \in Calls, NEW n, call[c].pc \in Running,
           call' = [call EXCEPT ![c] = n], AnswerFits(n), n.answer = "refused",
           UNCHANGED <<clock, runs, record>>
    PROVE  AInv' /\ Client!Refuse(c)
<1>1. Told[c].answer = "none"
  BY DEF AInv, AnswersFit, AnswerFits, Told
<1>2. AInv' /\ Told' = [Told EXCEPT ![c] = Seen(n)] /\ UNCHANGED <<clock, Saved>>
  BY TellsOne
<1>3. Told'[c] = Seen(n) /\ Seen(n).answer = "refused"
  BY <1>2 DEF Told, Seen
<1> QED BY <1>1, <1>2, <1>3 DEF Client!Refuse, Client!Answer

LEMMA AnswerRefused ==
    ASSUME IInv, AInv, NEW c \in Calls, call[c].pc \in Running, Answer(c, "refused"),
           UNCHANGED <<clock, runs, record>>
    PROVE  AInv' /\ Client!Refuse(c)
<1> DEFINE n == [NoCall EXCEPT !.answer = "refused"]
<1>1. AnswerFits(n) /\ n.answer = "refused"
  BY DEF AnswerFits, NoCall, Running, Claiming
<1>2. call' = [call EXCEPT ![c] = n]
  BY DEF Answer
<1> HIDE DEF n
<1> QED BY <1>1, <1>2, RefusedStep

LEMMA AskStep ==
    ASSUME IInv, AInv, NEW c \in Calls, NEW k, NEW f, NEW i, Start(c, k, f, i)
    PROVE  AInv' /\ Client!Ask(c)
<1>1. PICK n : /\ call' = [call EXCEPT ![c] = n] /\ AnswerFits(n)
               /\ n.answer \in {"none", "refused"}
  <2>1. CASE Busy(c, [NoCall EXCEPT !.key = k, !.fp = f], i)
    <3> DEFINE n == [NoCall EXCEPT !.answer = "refused"]
    <3>1. AnswerFits(n) /\ n.answer = "refused"
      BY DEF AnswerFits, NoCall, Running, Claiming
    <3>2. call' = [call EXCEPT ![c] = n]
      BY <2>1 DEF Busy
    <3> HIDE DEF n
    <3> QED BY <3>1, <3>2
  <2>2. CASE call' = [call EXCEPT ![c] = [[NoCall EXCEPT !.key = k, !.fp = f] EXCEPT
                         !.pc = "begin", !.inst = i, !.start = clock]]
    <3> DEFINE n == [[NoCall EXCEPT !.key = k, !.fp = f] EXCEPT
                         !.pc = "begin", !.inst = i, !.start = clock]
    <3>1. AnswerFits(n) /\ n.answer = "none"
      BY DEF AnswerFits, NoCall
    <3>2. call' = [call EXCEPT ![c] = n]
      BY <2>2
    <3> HIDE DEF n
    <3> QED BY <3>1, <3>2
  <2> QED BY <2>1, <2>2 DEF Start
<1>2. UNCHANGED <<clock, runs, record>>
  BY DEF Start
<1>3. AInv' /\ Told' = [Told EXCEPT ![c] = Seen(n)] /\ UNCHANGED <<clock, Saved>>
  BY <1>1, <1>2, TellsOne
<1>4. Told'[c] = Seen(n) /\ Seen(n).answer = n.answer
  BY <1>3 DEF Told, Seen
<1> QED BY <1>1, <1>3, <1>4 DEF Client!Ask, Client!Answer

\* Steps of which the client learns nothing.
LEMMA MovesQuietly ==
    ASSUME IInv, AInv, NEW c \in Calls,
           Begin(c) \/ RemoveExpired(c) \/ Execute(c) \/ Retry(c)
    PROVE  AInv' /\ Quiet
<1>1. /\ call'[c].pc \in Running
      /\ call[c].pc \in Running
  BY DEF Begin, RemoveExpired, Execute, Retry, At, Running, Claiming, IInv, TypeOK, Call
<1>2. /\ call'[c].key = call[c].key /\ call'[c].fp = call[c].fp
      /\ call'[c].answer = call[c].answer /\ call'[c].outcome = call[c].outcome
  BY DEF Begin, RemoveExpired, Execute, Retry, IInv, TypeOK, Call
<1>3. call' = [call EXCEPT ![c] = call'[c]]
  BY DEF Begin, RemoveExpired, Execute, Retry, IInv, TypeOK
<1>4. UNCHANGED <<clock, runs, record>>
  BY DEF Begin, RemoveExpired, Execute, Retry
<1>5. call[c].answer = "none" /\ call[c].outcome = 0
  BY <1>1 DEF AInv, AnswersFit, AnswerFits, Running, Claiming
<1>6. AnswerFits(call'[c])
  BY <1>1, <1>2, <1>5 DEF AnswerFits, Running, Claiming
<1>7. Seen(call'[c]) = Seen(call[c])
  BY <1>2 DEF Seen
<1> QED BY <1>3, <1>4, <1>6, <1>7, QuietStep

LEMMA MovesOn ==
    ASSUME IInv, AInv, NEW c \in Calls, NEW n, call[c].pc \in Running,
           n.pc \in Running, Seen(n) = Seen(call[c]),
           call' = [call EXCEPT ![c] = n], UNCHANGED <<clock, runs, record>>
    PROVE  AInv' /\ Quiet
<1>1. call[c].answer = "none" /\ call[c].outcome = 0
  BY DEF AInv, AnswersFit, AnswerFits, Running, Claiming
<1>2. n.answer = call[c].answer /\ n.outcome = call[c].outcome
  BY DEF Seen
<1>3. AnswerFits(n)
  BY <1>1, <1>2 DEF AnswerFits, Running, Claiming
<1> QED BY <1>3, QuietStep

LEMMA InsertTells ==
    ASSUME IInv, AInv, NEW c \in Calls, InsertClaim(c)
    PROVE  AInv' /\ (Quiet \/ Client!Refuse(c))
<1>1. call[c].pc \in Running /\ UNCHANGED <<clock, runs, record>>
  BY DEF InsertClaim, Running
<1>2. CASE Answer(c, "refused")
  BY <1>1, <1>2, AnswerRefused
<1>3. CASE call' = [call EXCEPT ![c].pc = "execute", ![c].wrote = "inserted"]
  <2> DEFINE n == [call[c] EXCEPT !.pc = "execute", !.wrote = "inserted"]
  <2>1. n.pc = "execute" /\ Seen(n) = Seen(call[c])
    BY DEF IInv, TypeOK, Call, Seen
  <2>2. call' = [call EXCEPT ![c] = n]
    BY <1>3 DEF IInv, TypeOK
  <2> HIDE DEF n
  <2>3. n.pc \in Running
    BY <2>1 DEF Running
  <2> QED BY <1>1, <2>1, <2>2, <2>3, MovesOn
<1>4. CASE call' = [call EXCEPT ![c].pc = "find"]
  <2> DEFINE n == [call[c] EXCEPT !.pc = "find"]
  <2>1. n.pc = "find" /\ Seen(n) = Seen(call[c])
    BY DEF IInv, TypeOK, Call, Seen
  <2>2. call' = [call EXCEPT ![c] = n]
    BY <1>4 DEF IInv, TypeOK
  <2> HIDE DEF n
  <2>3. n.pc \in Running
    BY <2>1 DEF Running
  <2> QED BY <1>1, <2>1, <2>2, <2>3, MovesOn
<1> QED BY <1>2, <1>3, <1>4 DEF InsertClaim

\* The row that is replayed is that of the last run, of the same request.
LEMMA ReplayTells ==
    ASSUME IInv, AInv, NEW c \in Calls, call[c].pc \in Running, Replay(c),
           Row(c) # 0, RowRun(c).fp = call[c].fp, UNCHANGED <<clock, runs, record>>
    PROVE  AInv' /\ Client!Replay(c)
<1> DEFINE n == [NoCall EXCEPT !.key = KeyOf(c), !.fp = call[c].fp,
                     !.answer = "replayed", !.outcome = Row(c)]
           k == KeyOf(c)
           last == Len(runs[k])
<1>1. /\ n.pc = "idle" /\ n.key = call[c].key /\ n.fp = call[c].fp
      /\ n.answer = "replayed" /\ n.outcome = Row(c)
  BY DEF NoCall, KeyOf
<1>2. call' = [call EXCEPT ![c] = n]
  BY DEF Replay
<1> HIDE DEF n
<1>3. AnswerFits(n)
  BY <1>1 DEF AnswerFits, Running, Claiming
<1>4. AInv' /\ Told' = [Told EXCEPT ![c] = Seen(n)] /\ UNCHANGED <<clock, Saved>>
  BY <1>2, <1>3, TellsOne
<1>5. k \in Keys /\ runs[k] \in Seq(Runs) /\ Row(c) = last /\ last \in 1..Len(runs[k])
  BY Served DEF AInv, RowIsLast, Row
<1>6. Saved[k] = [i \in DOMAIN runs[k] |-> [fp |-> runs[k][i].fp, at |-> runs[k][i].at]]
  BY <1>5 DEF Saved
<1>7. Saved[k][last].fp = call[c].fp
  BY <1>5, <1>6 DEF RowRun
<1>8. Len(Saved[k]) = last
  BY <1>5, <1>6
<1>9. Told[c].key = k /\ Told[c].fp = call[c].fp /\ Told[c].answer = "none"
  BY DEF Told, KeyOf, AInv, AnswersFit, AnswerFits
<1>10. Seen(n) = [Told[c] EXCEPT !.answer = "replayed", !.outcome = last]
  <2>1. Told[c] = Seen(call[c])
    BY DEF Told, Seen
  <2>2. Seen(n) = [key |-> call[c].key, fp |-> call[c].fp,
                  answer |-> "replayed", outcome |-> last]
    BY <1>1, <1>5 DEF Seen
  <2> HIDE DEF last
  <2> DEFINE r == [key |-> call[c].key, fp |-> call[c].fp,
                   answer |-> "replayed", outcome |-> call[c].outcome]
  <2>3. [Seen(call[c]) EXCEPT !.answer = "replayed"] = r
    BY DEF Seen
  <2>4. [r EXCEPT !.outcome = last] = [key |-> call[c].key, fp |-> call[c].fp,
                                       answer |-> "replayed", outcome |-> last]
    OBVIOUS
  <2> HIDE DEF r
  <2> QED BY <2>1, <2>2, <2>3, <2>4
<1>11. Told' = [Told EXCEPT ![c].answer = "replayed", ![c].outcome = last]
  BY <1>4, <1>10 DEF Told
<1>12. last > 0
  BY <1>5
<1> HIDE DEF k, last
<1> QED BY <1>4, <1>7, <1>8, <1>9, <1>11, <1>12 DEF Client!Replay

LEMMA FindTells ==
    ASSUME IInv, AInv, NEW c \in Calls, Find(c)
    PROVE  AInv' /\ (Quiet \/ Client!Refuse(c) \/ Client!Replay(c))
<1>1. call[c].pc \in Running /\ UNCHANGED <<clock, runs, record>>
  BY DEF Find, At, Running
<1>2. CASE Answer(c, "refused")
  BY <1>1, <1>2, AnswerRefused
<1>3. CASE Row(c) # 0 /\ RowRun(c).fp = call[c].fp /\ Replay(c)
  BY <1>1, <1>3, ReplayTells
<1>4. CASE call' = [call EXCEPT ![c].pc = "reclaim"]
  <2> DEFINE n == [call[c] EXCEPT !.pc = "reclaim"]
  <2>1. n.pc = "reclaim" /\ Seen(n) = Seen(call[c])
    BY DEF IInv, TypeOK, Call, Seen
  <2>2. call' = [call EXCEPT ![c] = n]
    BY <1>4 DEF IInv, TypeOK
  <2> HIDE DEF n
  <2>3. n.pc \in Running
    BY <2>1 DEF Running, Claiming
  <2> QED BY <1>1, <2>1, <2>2, <2>3, MovesOn
<1>5. CASE call' = [call EXCEPT ![c].pc = "remove", ![c].found = Row(c)]
  <2> DEFINE n == [call[c] EXCEPT !.pc = "remove", !.found = Row(c)]
  <2>1. n.pc = "remove" /\ Seen(n) = Seen(call[c])
    BY DEF IInv, TypeOK, Call, Seen
  <2>2. call' = [call EXCEPT ![c] = n]
    BY <1>5 DEF IInv, TypeOK
  <2> HIDE DEF n
  <2>3. n.pc \in Running
    BY <2>1 DEF Running
  <2> QED BY <1>1, <2>1, <2>2, <2>3, MovesOn
<1> QED BY <1>2, <1>3, <1>4, <1>5 DEF Find

\* A commit: the run becomes visible, late enough after every earlier one.
LEMMA SavesTell ==
    ASSUME IInv, AInv, NEW c \in Calls, NEW answer, NEW n, n.answer = answer,
           call[c].pc \in {"commit", "lost"}, Save(c), UNCHANGED clock,
           call' = [call EXCEPT ![c] = n], AnswerFits(n)
    PROVE  AInv' /\ Client!Run(c, answer)
<1> DEFINE k == KeyOf(c)
           run == [fp |-> call[c].fp, at |-> clock, expires |-> call[c].now + Retention]
           brief == [fp |-> call[c].fp, at |-> clock]
           len == Len(runs[k])
<1>1. k \in Keys /\ runs[k] \in Seq(Runs) /\ len \in Nat /\ clock \in Nat
  BY Served DEF IInv, TypeOK
<1>2. run \in Runs
  <2>1. call[c].fp \in Fingerprints /\ call[c].now \in Nat
    BY Served DEF Call
  <2> QED BY <1>1, <2>1, ConstantsAssumption DEF Runs
<1>3. /\ runs' = [runs EXCEPT ![k] = Append(runs[k], run)]
      /\ record' = [record EXCEPT ![k] = len + 1]
  BY <1>1 DEF Save, IInv, TypeOK
<1> DEFINE longer == Append(runs[k], run)
<1>4. /\ longer \in Seq(Runs) /\ Len(longer) = len + 1 /\ DOMAIN longer = 1..(len + 1)
      /\ \A i \in 1..len : longer[i] = runs[k][i]
      /\ longer[len + 1] = run
  BY <1>1, <1>2
<1>5. /\ runs'[k] = longer /\ record'[k] = len + 1
      /\ \A j \in Keys \ {k} : runs'[j] = runs[j] /\ record'[j] = record[j]
  BY <1>1, <1>3 DEF IInv, TypeOK
<1>6. run.fp = brief.fp /\ run.at = brief.at /\ brief = [fp |-> run.fp, at |-> run.at]
  OBVIOUS
<1> HIDE DEF run, brief, longer, len
<1>7. call'[c] = n /\ \A d \in Calls \ {c} : call'[d] = call[d]
  BY DEF IInv, TypeOK
<1>8. AInv'
  <2>1. AnswersFit'
    BY <1>7 DEF AInv, AnswersFit, AnswerFits
  <2>2. RowIsLast'
    BY <1>4, <1>5 DEF AInv, RowIsLast
  <2> QED BY <2>1, <2>2 DEF AInv
<1>9. Told' = [Told EXCEPT ![c] = Seen(n)] /\ Seen(n).answer = answer
  BY <1>7 DEF Told, Seen
<1>10. Told'[c] = Seen(n)
  BY <1>7 DEF Told, Seen
<1>11. Told[c].key = k /\ Told[c].fp = call[c].fp /\ Told[c].answer \in {"none", "unknown"}
  BY DEF Told, KeyOf, AInv, AnswersFit, AnswerFits, Running
<1>12. Saved' = [Saved EXCEPT ![k] = Append(Saved[k], brief)]
  <2> DEFINE short(s) == [i \in DOMAIN s |-> [fp |-> s[i].fp, at |-> s[i].at]]
  <2>1. \A j \in Keys : Saved[j] = short(runs[j]) /\ Saved'[j] = short(runs'[j])
    BY DEF Saved
  <2>2. short(longer) = Append(short(runs[k]), brief)
    <3>1. DOMAIN short(runs[k]) = 1..len /\ Len(short(runs[k])) = len
      BY <1>1 DEF len
    <3>2. Append(short(runs[k]), brief) = [i \in 1..(len + 1) |->
              IF i = len + 1 THEN brief ELSE short(runs[k])[i]]
      <4> DEFINE S == [fp : Fingerprints, at : Nat]
      <4>1. DOMAIN runs[k] = 1..len /\ \A i \in 1..len : runs[k][i] \in Runs
        BY <1>1 DEF len
      <4>2. \A i \in 1..len : [fp |-> runs[k][i].fp, at |-> runs[k][i].at] \in S
        BY <4>1 DEF Runs
      <4>3. short(runs[k]) \in [1..len -> S]
        BY <4>1, <4>2
      <4>4. PICK s : s = short(runs[k])
        OBVIOUS
      <4>5. brief \in S
        BY <1>2, <1>6 DEF Runs
      <4> HIDE DEF short, S
      <4>6. s \in [1..len -> S]
        BY <4>3, <4>4
      <4>7. s \in Seq(S) /\ Len(s) = len
        BY <1>1, <3>1, <4>4, <4>6 DEF len
      <4>8. Append(s, brief) = [i \in 1..(len + 1) |->
                IF i = len + 1 THEN brief ELSE s[i]]
        BY <1>1, <4>5, <4>7, AppendByIndex
      <4> QED BY <4>4, <4>8
    <3>3. \A i \in 1..len : short(runs[k])[i] = [fp |-> longer[i].fp, at |-> longer[i].at]
      BY <1>1, <1>4, <3>1
    <3>4. [fp |-> longer[len + 1].fp, at |-> longer[len + 1].at] = brief
      BY <1>4, <1>6
    <3>5. short(longer) = [i \in 1..(len + 1) |-> [fp |-> longer[i].fp, at |-> longer[i].at]]
      BY <1>4
    <3>6. \A i \in 1..(len + 1) : i # len + 1 => i \in 1..len
      BY <1>1
    <3> DEFINE word(i) == [fp |-> longer[i].fp, at |-> longer[i].at]
               old == short(runs[k])
    <3> HIDE DEF short, word, old
    <3>7. \A i \in 1..(len + 1) :
              word(i) = IF i = len + 1 THEN brief ELSE old[i]
      BY <3>3, <3>4, <3>6 DEF word, old
    <3> QED BY <3>2, <3>5, <3>7 DEF word, old
  <2> HIDE DEF short
  <2>3. Saved'[k] = Append(Saved[k], brief) /\ \A j \in Keys \ {k} : Saved'[j] = Saved[j]
    BY <1>1, <1>5, <2>1, <2>2
  <2>4. DOMAIN Saved = Keys /\ DOMAIN Saved' = Keys
    BY DEF Saved
  <2>5. Saved = [j \in Keys |-> Saved[j]] /\ Saved' = [j \in Keys |-> Saved'[j]]
    BY DEF Saved
  <2> QED BY <1>1, <2>3, <2>5
<1>13. \A i \in DOMAIN Saved[k] : clock >= Saved[k][i].at + (Retention - CallBudget)
  <2>1. AllExpired(k)
    <3>1. call[c].wrote = "inserted"
      BY Served DEF WellPlaced
    <3> QED BY <3>1, Served DEF Holds
  <2> SUFFICES ASSUME NEW i \in DOMAIN runs[k]
               PROVE  clock >= runs[k][i].at + (Retention - CallBudget)
    BY <1>1 DEF Saved
  <2>2. runs[k][i] \in Runs
    BY <1>1
  <2>3. runs[k][i].at \in Nat /\ runs[k][i].expires \in Nat
    BY <2>2 DEF Runs
  <2>4. /\ runs[k][i].at + Retention <= runs[k][i].expires + CallBudget
        /\ runs[k][i].expires <= clock
    BY <1>1, <2>1 DEF IInv, RunsExpireInTime, AllExpired
  <2>5. Retention \in Nat /\ CallBudget \in Nat /\ clock \in Nat
    BY <1>1, ConstantsAssumption
  <2> DEFINE at == runs[k][i].at
             expires == runs[k][i].expires
  <2>6. /\ at \in Nat /\ expires \in Nat /\ expires <= clock
        /\ at + Retention <= expires + CallBudget
    BY <2>3, <2>4
  <2> HIDE DEF at, expires
  <2>7. clock >= at + (Retention - CallBudget)
    BY <2>5, <2>6
  <2> QED BY <2>7 DEF at
<1> HIDE DEF k
<1> QED
  BY <1>8, <1>9, <1>10, <1>11, <1>12, <1>13 DEF Client!Run, Client!Answer, brief

\* The database ends a transaction nobody waits for; its client was told.
LEMMA SettleTells ==
    ASSUME IInv, AInv, NEW c \in Calls, Settle(c)
    PROVE  AInv' /\ (Quiet \/ Client!RunUnheard(c))
<1> DEFINE n == [NoCall EXCEPT !.key = KeyOf(c), !.fp = call[c].fp,
                    !.answer = call[c].answer]
<1>1. /\ n.pc = "idle" /\ n.key = call[c].key /\ n.fp = call[c].fp
      /\ n.answer = call[c].answer /\ n.outcome = 0
  BY DEF NoCall, KeyOf
<1>2. call' = [call EXCEPT ![c] = n] /\ UNCHANGED clock /\ call[c].pc \in Lingering
  BY DEF Settle
<1> HIDE DEF n
<1>3. AnswerFits(n)
  BY <1>1 DEF AnswerFits, Running, Claiming
<1>4. call[c].outcome = 0 /\ (call[c].pc = "lost" => call[c].answer = "unknown")
  BY <1>2 DEF AInv, AnswersFit, AnswerFits, Lingering
<1>5. Seen(n) = Seen(call[c])
  BY <1>1, <1>4 DEF Seen
<1>6. CASE UNCHANGED <<runs, record>>
  BY <1>2, <1>3, <1>5, <1>6, QuietStep
<1>7. CASE At(c, "lost") /\ Save(c)
  <2>1. call[c].pc = "lost"
    BY <1>7 DEF At
  <2>2. n.answer = "unknown" /\ Told[c].answer = "unknown"
    BY <1>1, <1>4, <2>1 DEF Told
  <2>3. AInv' /\ Client!Run(c, "unknown")
    BY <1>2, <1>3, <1>7, <2>1, <2>2, SavesTell
  <2> QED BY <2>2, <2>3 DEF Client!RunUnheard
<1> QED BY <1>6, <1>7 DEF Settle

LEMMA CommitTells ==
    ASSUME IInv, AInv, NEW c \in Calls, CommitAnswered(c)
    PROVE  AInv' /\ Client!Run(c, "saved")
<1> DEFINE n == [NoCall EXCEPT !.answer = "saved"]
<1>1. n.pc = "idle" /\ n.answer = "saved"
  BY DEF NoCall
<1>2. /\ call' = [call EXCEPT ![c] = n] /\ UNCHANGED clock
      /\ Save(c) /\ call[c].pc = "commit"
  BY DEF CommitAnswered, Answer, At
<1> HIDE DEF n
<1>3. AnswerFits(n)
  BY <1>1 DEF AnswerFits, Running, Claiming
<1> QED BY <1>1, <1>2, <1>3, SavesTell

LEMMA OrphanTells ==
    ASSUME IInv, AInv, NEW c \in Calls, call[c].pc \in Running,
           NEW pc \in Lingering, NEW answer, pc = "lost" => answer = "unknown"
    PROVE  /\ AnswerFits(Orphan(c, pc, answer))
           /\ Seen(Orphan(c, pc, answer)) = [Seen(call[c]) EXCEPT !.answer = answer]
<1> DEFINE now == IF pc = "lost" THEN call[c].now ELSE 0
           inst == NoCall.inst
           n == Orphan(c, pc, answer)
<1>1. n = [call[c] EXCEPT !.pc = pc, !.answer = answer,
               !.inst = inst, !.attempt = 1, !.found = 0, !.now = now]
  BY Zenon DEF Orphan
<1> HIDE DEF now, inst, n
<1>2. /\ n.pc = pc /\ n.answer = answer /\ n.outcome = call[c].outcome
      /\ n.key = call[c].key /\ n.fp = call[c].fp
  BY <1>1, Served DEF Call
<1>3. call[c].outcome = 0
  BY DEF AInv, AnswersFit, AnswerFits, Running, Claiming
<1>4. AnswerFits(n)
  BY <1>2, <1>3 DEF AnswerFits, Running, Claiming, Lingering
<1>5. Seen(n) = [Seen(call[c]) EXCEPT !.answer = answer]
  BY <1>2 DEF Seen
<1> QED BY <1>4, <1>5 DEF n

LEMMA DisconnectTells ==
    ASSUME IInv, AInv, NEW c \in Calls, Disconnect(c)
    PROVE  AInv' /\ Client!Refuse(c)
<1> DEFINE n == Orphan(c, "dropped", "refused")
<1>1. /\ call[c].pc \in Running /\ call' = [call EXCEPT ![c] = n]
      /\ UNCHANGED <<clock, runs, record>>
  BY DEF Disconnect
<1>2. AnswerFits(n) /\ Seen(n) = [Seen(call[c]) EXCEPT !.answer = "refused"]
  BY <1>1, OrphanTells DEF Lingering
<1> HIDE DEF n
<1>3. n.answer = "refused"
  BY <1>2 DEF Seen
<1> QED BY <1>1, <1>2, <1>3, RefusedStep

LEMMA LostTells ==
    ASSUME IInv, AInv, NEW c \in Calls, CommitLost(c)
    PROVE  AInv' /\ Client!Lose({c})
<1> DEFINE n == Orphan(c, "lost", "unknown")
<1>1. /\ call[c].pc \in Running /\ call' = [call EXCEPT ![c] = n]
      /\ UNCHANGED <<clock, runs, record>>
  BY DEF CommitLost, At, Running
<1>2. AnswerFits(n) /\ Seen(n) = [Seen(call[c]) EXCEPT !.answer = "unknown"]
  BY <1>1, OrphanTells DEF Lingering
<1> HIDE DEF n
<1>3. AInv' /\ Told' = [Told EXCEPT ![c] = Seen(n)] /\ UNCHANGED <<clock, Saved>>
  BY <1>1, <1>2, TellsOne
<1>4. Told[c] = Seen(call[c]) /\ Told[c].answer = "none"
  BY <1>1 DEF Told, Seen, AInv, AnswersFit, AnswerFits
<1>5. Told' = [d \in Calls |->
          IF d \in {c} THEN [Told[d] EXCEPT !.answer = "unknown"] ELSE Told[d]]
  <2>1. Told = [d \in Calls |-> Told[d]]
    BY DEF Told
  <2>2. Seen(n) = [Told[c] EXCEPT !.answer = "unknown"]
    BY <1>2, <1>4
  <2> HIDE DEF Told
  <2> QED BY <1>3, <2>1, <2>2
<1> QED BY <1>3, <1>4, <1>5 DEF Client!Lose

\* Every client of a dead server is left without an answer, at once.
LEMMA DieTells ==
    ASSUME IInv, AInv, NEW i \in Instances, Die(i)
    PROVE  AInv' /\ \E calls \in SUBSET Calls : Client!Lose(calls)
<1> DEFINE dead == {c \in Calls : call[c].pc \in Running /\ call[c].inst = i}
<1>1. UNCHANGED <<clock, runs, record>>
  BY DEF Die
<1>2. ASSUME NEW c \in Calls
      PROVE  /\ AnswerFits(call'[c])
             /\ Seen(call'[c]) = IF c \in dead THEN [Seen(call[c]) EXCEPT !.answer = "unknown"]
                                 ELSE Seen(call[c])
  <2>1. CASE c \notin dead
    <3>1. call'[c] = call[c]
      BY <2>1 DEF Die
    <3> QED BY <2>1, <3>1 DEF AInv, AnswersFit
  <2>2. CASE c \in dead
    <3> DEFINE pc == IF At(c, "commit") THEN "lost" ELSE "dropped"
    <3>1. call'[c] = Orphan(c, pc, "unknown")
      BY <2>2 DEF Die
    <3>2. pc \in Lingering
      BY DEF Lingering
    <3> HIDE DEF pc
    <3> QED BY <2>2, <3>1, <3>2, OrphanTells
  <2> QED BY <2>1, <2>2
<1>3. AInv'
  BY <1>1, <1>2 DEF AInv, AnswersFit, RowIsLast
<1>4. \A c \in Calls : Told[c] = Seen(call[c]) /\ Told'[c] = Seen(call'[c])
  BY DEF Told, Seen
<1>5. \A c \in dead : Told[c].answer = "none"
  BY DEF Told, AInv, AnswersFit, AnswerFits
<1>6. Told' = [c \in Calls |->
          IF c \in dead THEN [Told[c] EXCEPT !.answer = "unknown"] ELSE Told[c]]
  <2>1. Told' = [c \in Calls |-> Told'[c]]
    BY DEF Told
  <2>2. ASSUME NEW c \in Calls
        PROVE  Told'[c] = IF c \in dead THEN [Told[c] EXCEPT !.answer = "unknown"] ELSE Told[c]
    BY <1>2, <1>4
  <2> HIDE DEF dead
  <2> QED BY <2>1, <2>2
<1>7. UNCHANGED <<clock, Saved>>
  BY <1>1 DEF Saved
<1> HIDE DEF dead
<1>8. Client!Lose(dead)
  BY <1>5, <1>6, <1>7 DEF Client!Lose
<1>9. dead \in SUBSET Calls
  BY DEF dead
<1> QED BY <1>3, <1>8, <1>9

(* Answers are true and a key keeps its promise: see OnceOnly.             *)
THEOREM AnswersTrue == Spec => AnswersAreTrue
<1>1. Init => AInv /\ Client!PromiseInit
  <2> SUFFICES ASSUME Init PROVE AInv /\ Client!PromiseInit
    OBVIOUS
  <2>1. \A c \in Calls : call[c].pc = "idle" /\ call[c].answer = "none"
    BY DEF Init, NoCall
  <2>2. AInv
    BY <2>1 DEF Init, AInv, AnswersFit, AnswerFits, RowIsLast, Running, Claiming
  <2>3. \A c \in Calls : Told[c].answer = "none"
    BY <2>1 DEF Told
  <2>4. Saved = [k \in Keys |-> << >>]
    BY DEF Init, Saved
  <2> QED BY <2>2, <2>3, <2>4 DEF Init, Client!PromiseInit
<1>2. ASSUME IInv, AInv, [Next]_vars
      PROVE  AInv' /\ [Client!PromiseNext]_(Client!promiseVars)
  <2> USE DEF Client!PromiseNext, Client!promiseVars
  <2>1. CASE UNCHANGED vars
    BY <1>2, <2>1 DEF vars, AInv, AnswersFit, AnswerFits, RowIsLast, Saved, Told
  <2>2. CASE \E c \in Calls : Step(c)
    <3> SUFFICES ASSUME NEW c \in Calls, Step(c)
                 PROVE  AInv' /\ [Client!PromiseNext]_(Client!promiseVars)
      BY <2>2
    <3>1. CASE ClaimTimesOut(c) \/ Fail(c)
      <4>1. /\ call[c].pc \in Running /\ Answer(c, "refused")
            /\ UNCHANGED <<clock, runs, record>>
        BY <3>1 DEF ClaimTimesOut, Fail, At, Running
      <4> QED BY <1>2, <4>1, AnswerRefused
    <3>2. CASE Begin(c) \/ RemoveExpired(c) \/ Execute(c) \/ Retry(c)
      BY <1>2, <3>2, MovesQuietly DEF Quiet
    <3>3. CASE InsertClaim(c) \/ Find(c)
      BY <1>2, <3>3, InsertTells, FindTells DEF Quiet
    <3>4. CASE CommitAnswered(c)
      BY <1>2, <3>4, CommitTells
    <3>5. CASE CommitLost(c)
      BY <1>2, <3>5, LostTells
    <3>6. CASE Settle(c)
      BY <1>2, <3>6, SettleTells DEF Quiet
    <3>7. CASE Disconnect(c)
      BY <1>2, <3>7, DisconnectTells
    <3> QED BY <3>1, <3>2, <3>3, <3>4, <3>5, <3>6, <3>7 DEF Step
  <2>3. CASE \E c \in Calls, k \in Keys, f \in Fingerprints, i \in Instances :
                 Start(c, k, f, i)
    BY <1>2, <2>3, AskStep
  <2>4. CASE \E i \in Instances : Die(i)
    BY <1>2, <2>4, DieTells
  <2>5. CASE \E k \in Keys : Purge(k)
    BY <1>2, <2>5 DEF Purge, AInv, AnswersFit, AnswerFits, RowIsLast, Saved, Told, IInv, TypeOK
  <2>6. CASE Tick
    <3>1. clock' > clock
      BY <1>2, <2>6 DEF Tick, IInv, TypeOK
    <3>2. AInv' /\ UNCHANGED <<Saved, Told>>
      BY <1>2, <2>6 DEF Tick, AInv, AnswersFit, AnswerFits, RowIsLast, Saved, Told
    <3> QED BY <3>1, <3>2 DEF Client!Pass
  <2> QED BY <1>2, <2>1, <2>2, <2>3, <2>4, <2>5, <2>6 DEF Next
<1>3. IInv /\ AInv /\ [Next]_vars => AInv' /\ [Client!PromiseNext]_(Client!promiseVars)
  BY <1>2
<1> QED BY <1>1, <1>3, Exclusion, PTL DEF Spec, AnswersAreTrue, Client!Promise
=============================================================================
