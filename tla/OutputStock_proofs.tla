------------------------- MODULE OutputStock_proofs -------------------------
(***************************************************************************)
(* What the ledger of a bin guarantees, for any layers, requests and       *)
(* bounds, in three parts.                                                 *)
(*                                                                         *)
(* A posting on a shown basis draws what was shown: a basis is six facts   *)
(* about the bin, not the bin, and the plan depends on nothing else.       *)
(*                                                                         *)
(* Once a bin was switched back to split nothing of its pile returns:      *)
(* SplitInv says that no draw on record reaches behind the switch.         *)
(*                                                                         *)
(* What is in force stays as it was planned, keeps the stock plannable     *)
(* and takes what was measured: Kept says of a ledger that every point of  *)
(* its history leaves each layer the grams its solids say, and that each   *)
(* entry in force draws its plan.  It is a predicate of any ledger, since  *)
(* a correction appends two movements at once.                             *)
(***************************************************************************)
EXTENDS OutputStock, StockPlanner_proofs

LedgerIsSequence == \E S : ledger \in Seq(S)

\* The policy of a command as its basis has it.
PolicyIn(c, basis) ==
    CASE c.request.kind = "ordered" -> "operator_order"
      [] c.request.kind # "ordered" /\ basis[3] = "mix" -> "pro_rata"
      [] c.request.kind # "ordered" /\ basis[3] = "split" /\ basis[4] = "newest_first" -> "lifo"
      [] OTHER -> "fifo"

\* The plan of a command on the receipts and in the mode its basis names.
PlanIn(c, basis) ==
    Draws(Stock(PlanningLayers(c, DOMAIN basis[1]), DOMAIN ledger \ {c.corrects}),
          c.at, c.request, PolicyIn(c, basis))

\* As long as nothing was posted since, the ledger and the basis that was
\* shown determine the draws that were shown.
ShownFits ==
    preview # NoPreview =>
        /\ preview.basis[2] \in Nat /\ Len(ledger) >= preview.basis[2]
        /\ Len(ledger) = preview.basis[2] =>
              preview.draws = PlanIn(preview.command, preview.basis)

IInv == LedgerIsSequence /\ ShownFits

-----------------------------------------------------------------------------
(* The basis of a command says all its plan depends on.                     *)

LEMMA PolicyFromBasis ==
    ASSUME NEW c PROVE PolicyOf(c) = PolicyIn(c, Basis(c))
<1> DEFINE m == ModeAt(c.at)
           o == IF m = "split" THEN drawOrder ELSE "none"
<1>1. Basis(c)[3] = m /\ Basis(c)[4] = o
  BY DEF Basis
<1>2. Policy(c.at) = CASE m = "mix" -> "pro_rata"
                       [] m = "split" /\ drawOrder = "newest_first" -> "lifo"
                       [] OTHER -> "fifo"
  BY DEF Policy
<1> HIDE DEF m
<1> QED
  BY <1>1, <1>2 DEF PolicyOf, PolicyIn

LEMMA PlanFromBasis ==
    ASSUME NEW c PROVE Planned(c) = PlanIn(c, Basis(c))
<1>1. DOMAIN Basis(c)[1] = layers
  BY DEF Basis, Stock
<1> QED
  BY <1>1, PolicyFromBasis DEF Planned, PlanIn

-----------------------------------------------------------------------------
(* The ledger only grows.                                                   *)

LEMMA AppendGrows ==
    ASSUME LedgerIsSequence, NEW e, ledger' = Append(ledger, e)
    PROVE  LedgerIsSequence' /\ Len(ledger') > Len(ledger)
<1>1. PICK S : ledger \in Seq(S)
  BY DEF LedgerIsSequence
<1>2. ledger \in Seq(S \cup {e})
  BY <1>1
<1>3. ledger' \in Seq(S \cup {e}) /\ Len(ledger') = Len(ledger) + 1 /\ Len(ledger) \in Nat
  BY <1>2
<1> QED
  BY <1>3 DEF LedgerIsSequence

LEMMA EndsWith ==
    ASSUME NEW S, NEW s \in Seq(S), NEW r \in S, NEW e \in S,
           NEW t, t = <<e>> \/ t = <<r, e>>
    PROVE  /\ s \o t \in Seq(S) /\ Len(s \o t) > Len(s)
           /\ (s \o t)[Len(s \o t)] = e
<1>1. t \in Seq(S) /\ Len(t) \in {1, 2} /\ t[Len(t)] = e
  <2>1. CASE t = <<e>>
    BY <2>1
  <2>2. CASE t = <<r, e>>
    <3>1. t \in Seq(S) /\ Len(t) = 2
      BY <2>2
    <3>2. t[2] = e
      BY <2>2
    <3> QED
      BY <3>1, <3>2
  <2> QED
    BY <2>1, <2>2
<1>2. /\ s \o t \in Seq(S) /\ Len(s \o t) = Len(s) + Len(t)
      /\ \A i \in 1 .. Len(s) + Len(t) :
            (s \o t)[i] = IF i <= Len(s) THEN s[i] ELSE t[i - Len(s)]
  BY <1>1, ConcatProperties
<1>3. PICK m \in Nat, n \in {1, 2} : m = Len(s) /\ n = Len(t)
  BY <1>1, LenProperties
<1>4. m + n > m /\ m + n \in 1 .. m + n /\ ~(m + n <= m) /\ (m + n) - m = n
  OBVIOUS
<1>5. Len(s \o t) = m + n /\ Len(s \o t) > Len(s)
  BY <1>2, <1>3, <1>4
<1>6. (s \o t)[m + n] = t[n]
  BY <1>2, <1>3, <1>4
<1> QED
  BY <1>1, <1>2, <1>3, <1>5, <1>6

\* A posting ends the ledger with the entry of its command.
LEMMA PersistEnds ==
    ASSUME LedgerIsSequence, NEW c, Persist(c)
    PROVE  /\ LedgerIsSequence' /\ Len(ledger') > Len(ledger)
           /\ ledger'[Len(ledger')] = Entry(c)
<1>1. PICK r, e, t : /\ e = Entry(c)
                     /\ t = <<e>> \/ t = <<r, e>>
                     /\ ledger' = ledger \o t
  BY Zenon DEF Persist
<1>2. PICK S : ledger \in Seq(S)
  BY DEF LedgerIsSequence
<1>3. PICK T : T = S \cup {r, e}
  OBVIOUS
<1>4. ledger \in Seq(T)
  BY <1>2, <1>3, SeqMonotonic
<1>5. /\ ledger \o t \in Seq(T) /\ Len(ledger \o t) > Len(ledger)
      /\ (ledger \o t)[Len(ledger \o t)] = e
  <2>1. r \in T /\ e \in T
    BY <1>3
  <2>2. t = <<e>> \/ t = <<r, e>>
    BY <1>1
  <2> QED
    BY <2>1, <2>2, <1>4, EndsWith
<1>6. ledger' \in Seq(T) /\ Len(ledger') > Len(ledger) /\ ledger'[Len(ledger')] = e
  BY <1>1, <1>5
<1>7. LedgerIsSequence'
  BY <1>6 DEF LedgerIsSequence
<1>8. e = Entry(c)
  BY <1>1
<1> QED
  BY <1>6, <1>7, <1>8

\* What was shown keeps fitting while the ledger is the same or grows.
LEMMA ShownStays ==
    ASSUME IInv, preview' = preview, LedgerIsSequence',
           ledger' = ledger \/ Len(ledger') > Len(ledger)
    PROVE  IInv'
<1> SUFFICES ASSUME preview # NoPreview
             PROVE  /\ preview.basis[2] \in Nat /\ Len(ledger') >= preview.basis[2]
                    /\ Len(ledger') = preview.basis[2] =>
                          preview.draws = PlanIn(preview.command, preview.basis)'
  BY DEF IInv, ShownFits
<1>1. CASE ledger' = ledger
  <2>1. PlanIn(preview.command, preview.basis)' = PlanIn(preview.command, preview.basis)
    BY <1>1 DEF PlanIn, Stock, Left, PlanningLayers, PreservesSources
  <2> QED
    BY <1>1, <2>1 DEF IInv, ShownFits
<1>2. CASE Len(ledger') > Len(ledger)
  <2>1. Len(ledger) \in Nat /\ Len(ledger') \in Nat
    BY LenProperties DEF IInv, LedgerIsSequence
  <2>2. preview.basis[2] \in Nat /\ Len(ledger) >= preview.basis[2]
    BY DEF IInv, ShownFits
  <2>3. Len(ledger') > preview.basis[2]
    BY <1>2, <2>1, <2>2
  <2> QED
    BY <2>1, <2>2, <2>3
<1> QED
  BY <1>1, <1>2

-----------------------------------------------------------------------------
(* The steps.                                                               *)

LEMMA InitFits == Init => IInv
<1> SUFFICES ASSUME Init PROVE IInv
  OBVIOUS
<1>1. ledger \in Seq({})
  BY DEF Init
<1> QED
  BY <1>1 DEF Init, IInv, LedgerIsSequence, ShownFits

LEMMA ShowFits ==
    ASSUME IInv, NEW c, Show(c) PROVE IInv'
<1>1. LedgerIsSequence'
  BY DEF IInv, LedgerIsSequence, Show
<1>2. preview'.command = c /\ preview'.basis = Basis(c) /\ preview'.draws = Planned(c)
  BY DEF Show
<1>3. Basis(c)[2] = Len(ledger) /\ Len(ledger) \in Nat
  BY LenProperties DEF Basis, IInv, LedgerIsSequence
<1>4. PlanIn(preview.command, preview.basis)' = PlanIn(c, Basis(c))
  <2>1. PICK b : b = Basis(c)
    OBVIOUS
  <2>2. PlanIn(preview.command, preview.basis)' = PlanIn(c, b)
    BY <1>2, <2>1 DEF Show, PlanIn, Stock, Left, PlanningLayers, PreservesSources
  <2> QED
    BY <2>1, <2>2
<1>5. ShownFits'
  BY <1>2, <1>3, <1>4, PlanFromBasis DEF Show, ShownFits
<1> QED
  BY <1>1, <1>5 DEF IInv

LEMMA StepKeeps ==
    ASSUME IInv, [Next]_vars PROVE IInv'
<1>1. CASE UNCHANGED <<ledger, preview>>
  BY <1>1, ShownStays DEF IInv, LedgerIsSequence
<1>2. ASSUME NEW c, Post(c) PROVE IInv'
  BY <1>2, PersistEnds, ShownStays DEF Post, IInv
<1>3. ASSUME NEW c, Show(c) PROVE IInv'
  BY <1>3, ShowFits
<1>4. ASSUME PostShown PROVE IInv'
  BY <1>4, PersistEnds DEF PostShown, IInv, ShownFits
<1>5. ASSUME Dismiss PROVE IInv'
  BY <1>5 DEF Dismiss, IInv, LedgerIsSequence, ShownFits
<1>6. ASSUME NEW o, RemoveEntry(o) PROVE IInv'
  <2>1. PICK e : ledger' = Append(ledger, e) /\ preview' = preview
    BY <1>6 DEF RemoveEntry
  <2> QED
    BY <2>1, AppendGrows, ShownStays DEF IInv
<1>7. ASSUME NEW k, NEW at, Switch(k, at) PROVE IInv'
  <2>1. CASE UNCHANGED ledger
    BY <1>7, <2>1, ShownStays DEF Switch, IInv, LedgerIsSequence
  <2>2. CASE ledger' = Append(ledger, ModeChange(k, at))
    BY <1>7, <2>2, AppendGrows, ShownStays DEF Switch, IInv
  <2> QED
    BY <1>7, <2>1, <2>2 DEF Switch
<1>8. ASSUME NEW l, Place(l) PROVE IInv'
  BY <1>1, <1>8 DEF Place
<1>9. CASE UNCHANGED vars \/ ChangeDrawOrder \/ Tick
  BY <1>1, <1>9 DEF vars, ChangeDrawOrder, Tick
<1> QED
  BY <1>2, <1>3, <1>4, <1>5, <1>6, <1>7, <1>8, <1>9 DEF Next, Merge, SwitchToSplit

\* What is posted on a basis is what was shown: persistOutputStock plans again,
\* over whatever receipts, postings and settings came between, and the plan it
\* stores is the one of the preview.
THEOREM PreviewKept == Spec => PreviewIsKept
<1>1. ASSUME IInv, [Next]_vars
      PROVE  [preview # NoPreview /\ preview' = NoPreview /\ ledger' # ledger
                => ledger'[Len(ledger')].draws = preview.draws]_vars
  <2> SUFFICES ASSUME preview # NoPreview, preview' = NoPreview, ledger' # ledger
               PROVE  ledger'[Len(ledger')].draws = preview.draws
    OBVIOUS
  <2>1. PostShown
    BY <1>1 DEF Next, vars, Post, Show, Dismiss, RemoveEntry, Place,
                ChangeDrawOrder, Merge, SwitchToSplit, Switch, Tick
  <2>2. PICK c : c = preview.command
    OBVIOUS
  <2>3. Basis(c) = preview.basis /\ Persist(c)
    BY <2>1, <2>2 DEF PostShown
  <2>4. Len(ledger) = preview.basis[2]
    BY <2>3 DEF Basis
  <2>5. preview.draws = PlanIn(c, Basis(c))
    BY <1>1, <2>2, <2>3, <2>4 DEF IInv, ShownFits
  <2>6. ledger'[Len(ledger')] = Entry(c)
    BY <1>1, <2>3, PersistEnds DEF IInv
  <2>7. Entry(c).draws = Planned(c)
    BY DEF Entry
  <2> QED
    BY <2>5, <2>6, <2>7, PlanFromBasis
<1> QED
  BY <1>1, InitFits, StepKeeps, PTL DEF Spec, PreviewIsKept
-----------------------------------------------------------------------------
(* A bin that was switched back to split.  Nothing of a layer placed before *)
(* the switch is left, so no plan draws on it, and no correction reaches an *)
(* entry that did: the entries that drew on it stay the same ones.          *)

Old(i) == {l \in layers : Placed[l] < ledger[i].at}

\* An entry that draws on no layer placed before a switch to split.
SparesOld(e) ==
    \A i \in DOMAIN ledger : ledger[i].kind = "split" =>
        \A l \in Old(i) : l \notin DOMAIN e.draws

OldStaysUndrawn ==
    \A i, j \in DOMAIN ledger : ledger[i].kind = "split" /\ j > i =>
        \A l \in Old(i) : l \notin DOMAIN ledger[j].draws

PreviewIsDraw == preview # NoPreview => preview.command.kind \in DrawKinds

\* A switch to split is dated by the clock.
SwitchesAreDated ==
    /\ now \in Nat
    /\ \A i \in DOMAIN ledger : ledger[i].kind = "split" => ledger[i].at \in Nat

SplitInv ==
    /\ LedgerIsSequence /\ PreviewIsDraw /\ SwitchesAreDated
    /\ OldStaysUndrawn /\ NoMixedPileReturns

\* Loads, losses and counts come from layers that hold solids.
LEMMA DrawnAreHeld ==
    ASSUME NEW bin, NEW at, NEW request, NEW policy, Fits(bin, at, request, policy)
    PROVE  DOMAIN Draws(bin, at, request, policy) \subseteq Holding(bin, at)
<1> DEFINE asked == IF request.kind = "count"
                    THEN SolidsOf(bin, Eligible(bin, at)) - request.solids
                    ELSE request.solids
           inOrder == InOrder(bin, request)
           inTurn == InTurn(bin, at, asked, policy)
           proRata == ProRata(bin, at, asked)
<1>1. DOMAIN Draws(bin, at, request, policy) = DOMAIN Takings(bin, at, request, policy)
  BY DEF Draws, DrawsOf
<1>2. Takings(bin, at, request, policy)
        = CASE request.kind = "ordered" -> inOrder
            [] request.kind # "ordered" /\ asked <= 0 -> <<>>
            [] request.kind # "ordered" /\ asked > 0 /\ policy \in {"fifo", "lifo"} -> inTurn
            [] OTHER -> proRata
  BY Zenon DEF Takings
<1>3. request.kind = "ordered" => DOMAIN inOrder \subseteq Holding(bin, at)
  <2> SUFFICES ASSUME request.kind = "ordered"
               PROVE  DOMAIN inOrder \subseteq Holding(bin, at)
    OBVIOUS
  <2>1. OrderFits(bin, at, request)
    BY DEF Fits
  <2>2. DOMAIN inOrder = {request.sources[i].layer : i \in DOMAIN request.sources}
    BY DEF InOrder
  <2> QED
    BY <2>1, <2>2 DEF OrderFits
<1>4. DOMAIN inTurn \subseteq Holding(bin, at)
  BY DEF InTurn
<1>5. DOMAIN proRata \subseteq Holding(bin, at)
  BY DEF ProRata
<1> HIDE DEF asked, inOrder, inTurn, proRata
<1>6. \/ request.kind = "ordered" /\ Takings(bin, at, request, policy) = inOrder
      \/ Takings(bin, at, request, policy) \in {<<>>, inTurn, proRata}
  BY <1>2
<1> QED
  BY <1>1, <1>3, <1>4, <1>5, <1>6

\* An entry that did not draw from a layer is not missed in what is left of it.
LEMMA LeftWithout ==
    ASSUME NEW l, NEW A, NEW B \in SUBSET A,
           \A i \in A \ B : l \notin DOMAIN ledger[i].draws
    PROVE  Left(l, A) = Left(l, B)
<1>1. {i \in A : l \in DOMAIN ledger[i].draws} = {i \in B : l \in DOMAIN ledger[i].draws}
  OBVIOUS
<1> QED
  BY <1>1 DEF Left

\* Nothing of a layer changes when no entry that is added draws on it.
LEMMA LeftStays ==
    ASSUME NEW l, DOMAIN ledger \subseteq DOMAIN ledger',
           \A i \in DOMAIN ledger : ledger'[i] = ledger[i],
           \A i \in DOMAIN ledger' \ DOMAIN ledger : l \notin DOMAIN ledger'[i].draws
    PROVE  Left(l, DOMAIN ledger)' = Left(l, DOMAIN ledger)
<1> DEFINE now1 == {i \in DOMAIN ledger' : l \in DOMAIN ledger'[i].draws}
           drew == {i \in DOMAIN ledger : l \in DOMAIN ledger[i].draws}
<1>1. now1 = drew
  OBVIOUS
<1>2. \A i \in drew : ledger'[i] = ledger[i]
  OBVIOUS
<1>3. /\ [i \in now1 |-> ledger'[i].draws[l].solids] = [i \in drew |-> ledger[i].draws[l].solids]
      /\ [i \in now1 |-> ledger'[i].draws[l].dry] = [i \in drew |-> ledger[i].draws[l].dry]
      /\ \A k : [i \in now1 |-> ledger'[i].draws[l].runs[k]]
                    = [i \in drew |-> ledger[i].draws[l].runs[k]]
  BY <1>1, <1>2
<1> QED
  BY <1>3 DEF Left

\* What an entry would have drawn from a layer placed before the switch is
\* nothing, and so is what its reversal gives back.
LEMMA ReversalSparesOld ==
    ASSUME SplitInv, NEW o \in DOMAIN ledger, ledger[o].kind # "split",
           Independent(o, {}), NEW at
    PROVE  SparesOld(Reversal(o, at))
<1> SUFFICES ASSUME NEW i \in DOMAIN ledger, ledger[i].kind = "split", NEW l \in Old(i)
             PROVE  l \notin DOMAIN Reversal(o, at).draws
  BY DEF SparesOld
<1>1. i \in Nat /\ o \in Nat /\ i \in 1 .. Len(ledger) /\ Len(ledger) \in Nat
  BY LenProperties DEF SplitInv, LedgerIsSequence
<1>2. i \notin o + 1 .. Len(ledger)
  BY DEF Independent
<1>3. o > i
  BY <1>1, <1>2
<1>4. l \notin DOMAIN ledger[o].draws
  BY <1>3 DEF SplitInv, OldStaysUndrawn
<1> QED
  BY <1>4 DEF Reversal

LEMMA EntrySparesOld ==
    ASSUME SplitInv, NEW c, c.kind \in DrawKinds, Prepared(c)
    PROVE  SparesOld(Entry(c))
<1> SUFFICES ASSUME NEW i \in DOMAIN ledger, ledger[i].kind = "split", NEW l \in Old(i),
                    l \in DOMAIN Entry(c).draws
             PROVE  FALSE
  BY DEF SparesOld
<1> DEFINE rest == DOMAIN ledger \ {c.corrects}
           bin == Stock(PlanningLayers(c, layers), rest)
<1>1. l \in DOMAIN Planned(c)
  BY DEF Entry
<1>2. Fits(bin, c.at, c.request, PolicyOf(c))
  BY DEF Prepared, Plans
<1>3. l \in Holding(bin, c.at)
  BY <1>1, <1>2, DrawnAreHeld DEF Planned
<1>4. bin[l] = Left(l, rest) /\ bin[l].solids > 0
  BY <1>3 DEF Holding, Eligible, Stock
<1>5. \A j \in DOMAIN ledger \ rest : l \notin DOMAIN ledger[j].draws
  <2> SUFFICES ASSUME c.corrects \in DOMAIN ledger
               PROVE  l \notin DOMAIN ledger[c.corrects].draws
    OBVIOUS
  <2>1. c.corrects # 0
    BY LenProperties DEF SplitInv, LedgerIsSequence
  <2>2. Correctable(c)
    BY <2>1 DEF Prepared
  <2>3. ledger[c.corrects].kind # "split" /\ Independent(c.corrects, {})
    BY <2>2 DEF Correctable, DrawKinds
  <2>4. SparesOld(Reversal(c.corrects, 0))
    BY <2>3, ReversalSparesOld
  <2>5. l \notin DOMAIN Reversal(c.corrects, 0).draws
    BY <2>4 DEF SparesOld
  <2> QED
    BY <2>5 DEF Reversal
<1>6. Left(l, DOMAIN ledger) = Left(l, rest)
  BY <1>5, LeftWithout
<1>7. ~HoldsMaterial(Left(l, DOMAIN ledger))
  BY DEF SplitInv, NoMixedPileReturns, Old, Bin, Stock
<1> QED
  BY <1>4, <1>6, <1>7 DEF HoldsMaterial

\* The ledger grows by entries that spare the old layers, and a switch to
\* split is the last of them and finds nothing left.
LEMMA SparingEntriesKeep ==
    ASSUME SplitInv, PreviewIsDraw', LedgerIsSequence', layers' = layers, now' \in Nat,
           DOMAIN ledger \subseteq DOMAIN ledger',
           \A i \in DOMAIN ledger : ledger'[i] = ledger[i],
           \A j \in DOMAIN ledger' \ DOMAIN ledger :
              /\ SparesOld(ledger'[j])
              /\ ledger'[j].kind = "split" =>
                    /\ ledger'[j].at \in Nat /\ \A k \in DOMAIN ledger' : k <= j
                    /\ \A k \in DOMAIN ledger' \ DOMAIN ledger : ledger'[k].draws = <<>>
                    /\ \A l \in layers : ~HoldsMaterial(Bin[l])
    PROVE  SplitInv'
<1>1. OldStaysUndrawn'
  <2> SUFFICES ASSUME NEW i \in DOMAIN ledger', NEW j \in DOMAIN ledger',
                      ledger'[i].kind = "split", j > i, NEW l \in Old(i)'
               PROVE  l \notin DOMAIN ledger'[j].draws
    BY DEF OldStaysUndrawn
  <2>1. i \in Nat /\ j \in Nat
    BY LenProperties DEF LedgerIsSequence
  <2>2. i \in DOMAIN ledger
    BY <2>1
  <2>3. l \in Old(i) /\ ledger[i].kind = "split"
    BY <2>2 DEF Old
  <2>4. CASE j \in DOMAIN ledger
    BY <2>2, <2>3, <2>4 DEF SplitInv, OldStaysUndrawn
  <2>5. CASE j \notin DOMAIN ledger
    BY <2>2, <2>3, <2>5 DEF SparesOld
  <2> QED
    BY <2>4, <2>5
<1>2. NoMixedPileReturns'
  <2> SUFFICES ASSUME NEW i \in DOMAIN ledger', ledger'[i].kind = "split",
                      NEW l \in layers, Placed[l] < ledger'[i].at
               PROVE  ~HoldsMaterial(Left(l, DOMAIN ledger)')
    BY DEF NoMixedPileReturns, Bin, Stock, HoldsMaterial
  <2>1. CASE i \in DOMAIN ledger
    <3>1. l \in Old(i) /\ ledger[i].kind = "split" /\ Placed[l] < ledger[i].at
      BY <2>1 DEF Old
    <3>2. \A j \in DOMAIN ledger' \ DOMAIN ledger : l \notin DOMAIN ledger'[j].draws
      BY <2>1, <3>1 DEF SparesOld
    <3>3. Left(l, DOMAIN ledger)' = Left(l, DOMAIN ledger)
      BY <3>2, LeftStays
    <3>4. ~HoldsMaterial(Left(l, DOMAIN ledger))
      BY <2>1, <3>1 DEF SplitInv, NoMixedPileReturns, Bin, Stock
    <3> QED
      BY <3>3, <3>4
  <2>2. CASE i \notin DOMAIN ledger
    <3>1. \A j \in DOMAIN ledger' \ DOMAIN ledger : l \notin DOMAIN ledger'[j].draws
      BY <2>2
    <3>2. Left(l, DOMAIN ledger)' = Left(l, DOMAIN ledger)
      BY <3>1, LeftStays
    <3>3. ~HoldsMaterial(Left(l, DOMAIN ledger))
      BY <2>2 DEF Bin, Stock
    <3> QED
      BY <3>2, <3>3
  <2> QED
    BY <2>1, <2>2
<1>3. SwitchesAreDated'
  BY DEF SplitInv, SwitchesAreDated
<1> QED
  BY <1>1, <1>2, <1>3 DEF SplitInv

\* A sequence extended by one or two elements.
LEMMA ExtendedBy ==
    ASSUME NEW S, NEW s \in Seq(S), NEW r \in S, NEW e \in S,
           NEW t, t = <<e>> \/ t = <<r, e>>
    PROVE  /\ s \o t \in Seq(S) /\ DOMAIN s \subseteq DOMAIN (s \o t)
           /\ \A i \in DOMAIN s : (s \o t)[i] = s[i]
           /\ \A i \in DOMAIN (s \o t) \ DOMAIN s :
                 (s \o t)[i] = e \/ (t = <<r, e>> /\ (s \o t)[i] = r)
<1>1. t \in Seq(S) /\ Len(t) \in {1, 2}
      /\ \A i \in 1 .. Len(t) : t[i] = e \/ (t = <<r, e>> /\ t[i] = r)
  <2>1. CASE t = <<e>>
    BY <2>1
  <2>2. CASE t = <<r, e>>
    BY <2>2
  <2> QED
    BY <2>1, <2>2
<1>2. /\ s \o t \in Seq(S) /\ Len(s \o t) = Len(s) + Len(t)
      /\ \A i \in 1 .. Len(s) + Len(t) :
            (s \o t)[i] = IF i <= Len(s) THEN s[i] ELSE t[i - Len(s)]
  BY <1>1, ConcatProperties
<1>3. PICK m \in Nat, n \in {1, 2} : m = Len(s) /\ n = Len(t)
  BY <1>1, LenProperties
<1>4. DOMAIN s = 1 .. m /\ DOMAIN (s \o t) = 1 .. m + n
  BY <1>2, <1>3, LenProperties
<1>5. \A i \in 1 .. m : i \in 1 .. m + n /\ i <= m
  OBVIOUS
<1>6. \A i \in (1 .. m + n) \ (1 .. m) : ~(i <= m) /\ i - m \in 1 .. n
  OBVIOUS
<1>7. \A i \in 1 .. m : (s \o t)[i] = s[i]
  BY <1>2, <1>3, <1>5
<1>8. \A i \in (1 .. m + n) \ (1 .. m) : (s \o t)[i] = t[i - m]
  BY <1>2, <1>3, <1>6
<1>9. \A i \in (1 .. m + n) \ (1 .. m) : (s \o t)[i] = e \/ (t = <<r, e>> /\ (s \o t)[i] = r)
  BY <1>1, <1>3, <1>6, <1>8
<1> QED
  BY <1>2, <1>4, <1>5, <1>7, <1>9

LEMMA PersistKeepsSplit ==
    ASSUME SplitInv, PreviewIsDraw', layers' = layers, now' \in Nat,
           NEW c, c.kind \in DrawKinds, Persist(c)
    PROVE  SplitInv'
<1> DEFINE o == c.corrects
           at == IF c.kind = "delivery" THEN ledger[o].at ELSE c.at
<1>1. PICK r, e, t : /\ r = Reversal(o, at) /\ e = Entry(c)
                     /\ t = IF o = 0 THEN <<e>> ELSE <<r, e>>
                     /\ ledger' = ledger \o t
  BY Zenon DEF Persist
<1>2. PICK S : ledger \in Seq(S)
  BY DEF SplitInv, LedgerIsSequence
<1>3. PICK T : T = S \cup {r, e}
  OBVIOUS
<1>4. ledger \in Seq(T) /\ r \in T /\ e \in T
  BY <1>2, <1>3, SeqMonotonic
<1>5. /\ ledger' \in Seq(T) /\ DOMAIN ledger \subseteq DOMAIN ledger'
      /\ \A i \in DOMAIN ledger : ledger'[i] = ledger[i]
      /\ \A i \in DOMAIN ledger' \ DOMAIN ledger :
            ledger'[i] = e \/ (t = <<r, e>> /\ ledger'[i] = r)
  <2>1. t = <<e>> \/ t = <<r, e>>
    BY <1>1
  <2>2. /\ ledger \o t \in Seq(T) /\ DOMAIN ledger \subseteq DOMAIN (ledger \o t)
        /\ \A i \in DOMAIN ledger : (ledger \o t)[i] = ledger[i]
        /\ \A i \in DOMAIN (ledger \o t) \ DOMAIN ledger :
              (ledger \o t)[i] = e \/ (t = <<r, e>> /\ (ledger \o t)[i] = r)
    BY <1>4, <2>1, ExtendedBy
  <2>3. ledger' = ledger \o t
    BY <1>1
  <2> QED
    BY <2>2, <2>3
<1>6. SparesOld(e) /\ e.kind # "split"
  <2>1. Prepared(c)
    BY DEF Persist
  <2>2. SparesOld(Entry(c))
    BY <2>1, EntrySparesOld
  <2>3. Entry(c).kind = c.kind
    BY DEF Entry
  <2> QED
    BY <1>1, <2>2, <2>3 DEF DrawKinds
<1>7. ASSUME t = <<r, e>> PROVE SparesOld(r) /\ r.kind # "split"
  <2>1. o # 0
    <3>1. <<e>> # <<r, e>>
      BY Len(<<e>>) = 1, Len(<<r, e>>) = 2
    <3>2. t = IF o = 0 THEN <<e>> ELSE <<r, e>>
      BY <1>1
    <3> QED
      BY <1>7, <3>1, <3>2
  <2>2. Correctable(c)
    BY <2>1 DEF Persist, Prepared
  <2>3. o \in DOMAIN ledger /\ ledger[o].kind # "split" /\ Independent(o, {})
    BY <2>2 DEF Correctable, DrawKinds
  <2>4. SparesOld(Reversal(o, at))
    BY <2>3, ReversalSparesOld
  <2>5. Reversal(o, at).kind = "reversal"
    BY DEF Reversal
  <2> QED
    BY <1>1, <2>4, <2>5
<1>8. \A j \in DOMAIN ledger' \ DOMAIN ledger :
          SparesOld(ledger'[j]) /\ ledger'[j].kind # "split"
  BY <1>5, <1>6, <1>7
<1>9. LedgerIsSequence'
  BY <1>5 DEF LedgerIsSequence
<1> QED
  BY <1>5, <1>8, <1>9, SparingEntriesKeep

LEMMA AppendKeepsSplit ==
    ASSUME SplitInv, PreviewIsDraw', layers' = layers, now' \in Nat,
           NEW e, ledger' = Append(ledger, e), SparesOld(e),
           e.kind = "split" => /\ e.at \in Nat /\ e.draws = <<>>
                               /\ \A l \in layers : ~HoldsMaterial(Bin[l])
    PROVE  SplitInv'
<1>1. PICK S : ledger \in Seq(S)
  BY DEF SplitInv, LedgerIsSequence
<1>2. PICK n \in Nat : n = Len(ledger) /\ DOMAIN ledger = 1 .. n
  BY <1>1, LenProperties
<1>3. ledger \in Seq(S \cup {e})
  BY <1>1, SeqMonotonic
<1>4. /\ ledger' \in Seq(S \cup {e}) /\ DOMAIN ledger' = 1 .. n + 1
      /\ \A i \in 1 .. n : ledger'[i] = ledger[i]
      /\ ledger'[n + 1] = e
  BY <1>2, <1>3, AppendProperties
<1>5. \A j \in DOMAIN ledger' \ DOMAIN ledger : j = n + 1
  BY <1>2, <1>4
<1>6. \A k \in DOMAIN ledger' : k <= n + 1
  BY <1>4
<1>7. LedgerIsSequence'
  BY <1>4 DEF LedgerIsSequence
<1> QED
  BY <1>2, <1>4, <1>5, <1>6, <1>7, SparingEntriesKeep

\* A late receipt is not older than the switch.
LEMMA PlaceKeepsSplit ==
    ASSUME SplitInv, NEW l \in Layers, Place(l) PROVE SplitInv'
<1>1. layers' = layers \cup {l} /\ UNCHANGED <<ledger, preview, now>>
  BY DEF Place
<1>2. \A i \in DOMAIN ledger : ledger[i].kind = "split" => ~(Placed[l] < ledger[i].at)
  <2> SUFFICES ASSUME NEW i \in DOMAIN ledger, ledger[i].kind = "split"
               PROVE  ~(Placed[l] < ledger[i].at)
    OBVIOUS
  <2>1. ledger[i].at <= Placed[l]
    BY DEF Place
  <2>2. Placed[l] \in Nat /\ ledger[i].at \in Nat
    BY PlannerAssumption DEF SplitInv, SwitchesAreDated
  <2> QED
    BY <2>1, <2>2
<1>3. \A i \in DOMAIN ledger : ledger[i].kind = "split" => Old(i)' = Old(i)
  BY <1>1, <1>2 DEF Old
<1>4. \A m : Left(m, DOMAIN ledger)' = Left(m, DOMAIN ledger)
  BY <1>1 DEF Left
<1>5. OldStaysUndrawn'
  BY <1>1, <1>3 DEF SplitInv, OldStaysUndrawn
<1>6. NoMixedPileReturns'
  <2> SUFFICES ASSUME NEW i \in DOMAIN ledger, ledger[i].kind = "split",
                      NEW m \in layers', Placed[m] < ledger[i].at
               PROVE  ~HoldsMaterial(Left(m, DOMAIN ledger)')
    BY <1>1 DEF NoMixedPileReturns, Bin, Stock, HoldsMaterial
  <2>1. m \in layers
    BY <1>1, <1>2
  <2> QED
    BY <1>4, <2>1 DEF SplitInv, NoMixedPileReturns, Bin, Stock
<1> QED
  BY <1>1, <1>5, <1>6 DEF SplitInv, LedgerIsSequence, PreviewIsDraw, SwitchesAreDated

LEMMA StepKeepsSplit ==
    ASSUME SplitInv, [Next]_vars PROVE SplitInv'
<1>0. now \in Nat
  BY DEF SplitInv, SwitchesAreDated
<1>1. CASE UNCHANGED <<layers, ledger>> /\ PreviewIsDraw' /\ now' \in Nat
  <2>1. LedgerIsSequence'
    BY <1>1 DEF SplitInv, LedgerIsSequence
  <2> QED
    BY <1>1, <2>1, SparingEntriesKeep
<1>2. ASSUME NEW c \in Commands, Post(c) PROVE SplitInv'
  <2>1. c.kind \in DrawKinds
    BY DEF Commands
  <2> QED
    BY <1>0, <1>2, <2>1, PersistKeepsSplit DEF Post, SplitInv, PreviewIsDraw
<1>3. ASSUME NEW c \in Commands, Show(c) PROVE SplitInv'
  <2>1. c.kind \in DrawKinds
    BY DEF Commands
  <2>2. PreviewIsDraw'
    BY <1>3, <2>1 DEF Show, PreviewIsDraw
  <2> QED
    BY <1>0, <1>1, <1>3, <2>2 DEF Show
<1>4. ASSUME PostShown PROVE SplitInv'
  BY <1>0, <1>4, PersistKeepsSplit DEF PostShown, SplitInv, PreviewIsDraw
<1>5. ASSUME Dismiss PROVE SplitInv'
  BY <1>0, <1>1, <1>5 DEF Dismiss, PreviewIsDraw
<1>6. ASSUME NEW o \in DOMAIN ledger, RemoveEntry(o) PROVE SplitInv'
  <2>1. ledger[o].kind # "split" /\ Independent(o, {})
    BY <1>6 DEF RemoveEntry
  <2>2. PICK e : e = Reversal(o, ledger[o].at)
    OBVIOUS
  <2>3. SparesOld(e) /\ e.kind = "reversal"
    BY <2>1, <2>2, ReversalSparesOld DEF Reversal
  <2>4. PreviewIsDraw' /\ layers' = layers /\ now' \in Nat /\ ledger' = Append(ledger, e)
    BY <1>0, <1>6, <2>2 DEF RemoveEntry, SplitInv, PreviewIsDraw
  <2> QED
    BY <2>3, <2>4, AppendKeepsSplit
<1>7. ASSUME NEW k \in {"merge", "split"}, NEW at \in Nat, Switch(k, at), now' = now,
             k = "split" => \A l \in layers : ~HoldsMaterial(Bin[l])
      PROVE  SplitInv'
  <2>1. PreviewIsDraw' /\ layers' = layers /\ now' \in Nat
    BY <1>0, <1>7 DEF Switch, SplitInv, PreviewIsDraw
  <2>2. CASE UNCHANGED ledger
    BY <1>1, <2>1, <2>2
  <2>3. CASE ledger' = Append(ledger, ModeChange(k, at))
    <3>1. PICK e : e = ModeChange(k, at)
      OBVIOUS
    <3>2. e.kind = k /\ e.draws = <<>> /\ e.at = at
      BY <3>1 DEF ModeChange
    <3>3. SparesOld(e)
      BY <3>2 DEF SparesOld
    <3> QED
      BY <1>7, <2>1, <2>3, <3>1, <3>2, <3>3, AppendKeepsSplit
  <2> QED
    BY <1>7, <2>2, <2>3 DEF Switch
<1>8. ASSUME NEW at \in 1 .. now, Merge(at) PROVE SplitInv'
  BY <1>0, <1>7, <1>8 DEF Merge, Switch
<1>9. ASSUME SwitchToSplit PROVE SplitInv'
  BY <1>0, <1>7, <1>9 DEF SwitchToSplit, Switch
<1>10. ASSUME NEW l \in Layers, Place(l) PROVE SplitInv'
  BY <1>10, PlaceKeepsSplit
<1>11. CASE UNCHANGED vars \/ ChangeDrawOrder \/ Tick
  BY <1>0, <1>1, <1>11 DEF vars, ChangeDrawOrder, Tick, SplitInv, PreviewIsDraw
<1> QED
  BY <1>2, <1>3, <1>4, <1>5, <1>6, <1>8, <1>9, <1>10, <1>11 DEF Next

\* A mixed pile never comes back as sub-bins, whatever is posted, corrected or
\* removed: assertOutputCorrectionDependencies keeps corrections from reaching
\* behind the switch, assertAdditionAfterSplit late receipts.
THEOREM MixedPilesStayGone == Spec => []NoMixedPileReturns
<1>1. Init => SplitInv
  BY DEF Init, SplitInv, LedgerIsSequence, PreviewIsDraw, SwitchesAreDated, OldStaysUndrawn, NoMixedPileReturns
<1>2. SplitInv /\ [Next]_vars => SplitInv'
  BY StepKeepsSplit
<1>3. SplitInv => NoMixedPileReturns
  BY DEF SplitInv
<1> QED
  BY <1>1, <1>2, <1>3, PTL DEF Spec

-----------------------------------------------------------------------------
(* What a ledger leaves of a layer.  The ledger is a parameter here: a      *)
(* correction appends two movements, and what holds between them matters.   *)

LeftIn(led, l, movements) ==
    LET drew == {i \in movements : l \in DOMAIN led[i].draws}
    IN  [solids |-> Whole[l]
                    - SumFunction([i \in drew |-> led[i].draws[l].solids]),
         dry    |-> Established[l]
                    - SumFunction([i \in drew |-> led[i].draws[l].dry]),
         runs   |-> [k \in DOMAIN Provenance[l] |-> Provenance[l][k]
                    - SumFunction([i \in drew |-> led[i].draws[l].runs[k]])]]

IsDraw(l, draw) ==
    draw.solids \in Int /\ draw.dry \in Int /\ draw.runs \in [DOMAIN Provenance[l] -> Int]

IsRest(l, stock) ==
    /\ stock.solids \in Int /\ stock.dry \in Int
    /\ stock = [solids |-> stock.solids, dry |-> stock.dry,
                runs |-> [k \in DOMAIN Provenance[l] |-> stock.runs[k]]]
    /\ \A k \in DOMAIN Provenance[l] : stock.runs[k] \in Int

\* Movements that draw, if at all, numbers from a layer.
DrawWell(led, l, movements) ==
    /\ IsFiniteSet(movements)
    /\ \A i \in movements : l \in DOMAIN led[i].draws => IsDraw(l, led[i].draws[l])

LEMMA LeftIsRest ==
    ASSUME NEW led, NEW l \in Layers, NEW A, DrawWell(led, l, A)
    PROVE  IsRest(l, LeftIn(led, l, A))
<1> DEFINE drew == {i \in A : l \in DOMAIN led[i].draws}
           solids == [i \in drew |-> led[i].draws[l].solids]
           dry == [i \in drew |-> led[i].draws[l].dry]
           run(k) == [i \in drew |-> led[i].draws[l].runs[k]]
<1>1. IsFiniteSet(drew)
  BY FS_Subset DEF DrawWell
<1>2. /\ solids \in [drew -> Int] /\ dry \in [drew -> Int]
      /\ \A k \in DOMAIN Provenance[l] : run(k) \in [drew -> Int]
  BY DEF DrawWell, IsDraw
<1>3. Whole[l] \in Int /\ Established[l] \in Int /\ \A k \in DOMAIN Provenance[l] : Provenance[l][k] \in Int
  <2>1. Provenance[l] \in [DOMAIN Provenance[l] -> Nat]
    BY LayerIs
  <2> QED
    BY <2>1, LayerIs
<1>4. LeftIn(led, l, A) = [solids |-> Whole[l] - SumFunction(solids),
                           dry |-> Established[l] - SumFunction(dry),
                           runs |-> [k \in DOMAIN Provenance[l] |->
                                        Provenance[l][k] - SumFunction(run(k))]]
  BY DEF LeftIn
<1> HIDE DEF drew, solids, dry, run
<1>5. ASSUME NEW f \in [drew -> Int] PROVE SumFunction(f) \in Int
  <2>1. \A i \in drew : f[i] \in Int
    OBVIOUS
  <2> QED
    BY <1>1, <2>1, TotalIsSum, TotalSplit
<1>6. /\ SumFunction(solids) \in Int /\ SumFunction(dry) \in Int
      /\ \A k \in DOMAIN Provenance[l] : SumFunction(run(k)) \in Int
  BY <1>2, <1>5
<1>7. \A k \in DOMAIN Provenance[l] : Provenance[l][k] - SumFunction(run(k)) \in Int
  BY <1>3, <1>6
<1>a. PICK x \in Int : x = Whole[l] - SumFunction(solids)
  BY <1>3, <1>6
<1>b. PICK y \in Int : y = Established[l] - SumFunction(dry)
  BY <1>3, <1>6
<1>8. PICK r : r = [k \in DOMAIN Provenance[l] |-> Provenance[l][k] - SumFunction(run(k))]
  OBVIOUS
<1>9. /\ r = [k \in DOMAIN Provenance[l] |-> r[k]]
      /\ \A k \in DOMAIN Provenance[l] : r[k] \in Int
  BY <1>7, <1>8
<1>10. LeftIn(led, l, A) = [solids |-> x, dry |-> y, runs |-> r]
  BY <1>4, <1>8, <1>a, <1>b
<1> QED
  BY <1>9, <1>10 DEF IsRest

\* A movement that is counted too takes what it drew.
LEMMA LeftWithOne ==
    ASSUME NEW led, NEW l \in Layers, NEW A, NEW n, n \notin A, DrawWell(led, l, A \cup {n})
    PROVE  /\ DrawWell(led, l, A)
           /\ l \notin DOMAIN led[n].draws => LeftIn(led, l, A \cup {n}) = LeftIn(led, l, A)
           /\ l \in DOMAIN led[n].draws =>
                 LeftIn(led, l, A \cup {n}) = After(l, LeftIn(led, l, A), led[n].draws[l])
<1> DEFINE drew(B) == {i \in B : l \in DOMAIN led[i].draws}
           solids(B) == [i \in drew(B) |-> led[i].draws[l].solids]
           dry(B) == [i \in drew(B) |-> led[i].draws[l].dry]
           run(B, k) == [i \in drew(B) |-> led[i].draws[l].runs[k]]
           more == A \cup {n}
<1>1. DrawWell(led, l, A)
  <2>1. IsFiniteSet(A)
    BY FS_Subset DEF DrawWell
  <2> QED
    BY <2>1 DEF DrawWell
<1>2. \A B : LeftIn(led, l, B) =
                [solids |-> Whole[l] - SumFunction(solids(B)),
                 dry |-> Established[l] - SumFunction(dry(B)),
                 runs |-> [k \in DOMAIN Provenance[l] |->
                              Provenance[l][k] - SumFunction(run(B, k))]]
  BY DEF LeftIn
<1>3. ASSUME l \notin DOMAIN led[n].draws PROVE LeftIn(led, l, more) = LeftIn(led, l, A)
  <2>1. drew(more) = drew(A)
    BY <1>3
  <2> QED
    BY <2>1 DEF LeftIn
<1>4. ASSUME l \in DOMAIN led[n].draws
      PROVE  LeftIn(led, l, more) = After(l, LeftIn(led, l, A), led[n].draws[l])
  <2>1. drew(more) = drew(A) \cup {n} /\ n \notin drew(A) /\ drew(more) \ {n} = drew(A)
    BY <1>4
  <2>2. IsFiniteSet(drew(more)) /\ IsFiniteSet(drew(A))
    BY <1>1, FS_Subset DEF DrawWell
  <2>3. \A i \in drew(more) : IsDraw(l, led[i].draws[l])
    BY DEF DrawWell
  <2>4. ASSUME NEW f \in [drew(more) -> Int]
        PROVE  /\ SumFunction(f) = f[n] + SumFunction([i \in drew(A) |-> f[i]])
               /\ SumFunction([i \in drew(A) |-> f[i]]) \in Int
    <3>1. SumFunction(f) = Total(f, drew(more))
      BY TotalIsSum
    <3>2. \A i \in drew(more) : f[i] \in Int
      OBVIOUS
    <3>3. n \in drew(more)
      BY <2>1
    <3>4. Total(f, drew(more)) = f[n] + Total(f, drew(more) \ {n})
      BY <2>2, <3>2, <3>3, TotalSplit
    <3>5. Total(f, drew(A)) \in Int
      BY <2>1, <2>2, <3>2, TotalSplit
    <3> QED
      BY <2>1, <3>1, <3>4, <3>5 DEF Total
  <2>5. /\ solids(more) \in [drew(more) -> Int] /\ dry(more) \in [drew(more) -> Int]
        /\ \A k \in DOMAIN Provenance[l] : run(more, k) \in [drew(more) -> Int]
    BY <2>3 DEF IsDraw
  <2>6. /\ [i \in drew(A) |-> solids(more)[i]] = solids(A)
        /\ [i \in drew(A) |-> dry(more)[i]] = dry(A)
        /\ \A k : [i \in drew(A) |-> run(more, k)[i]] = run(A, k)
    BY <2>1
  <2>7. /\ solids(more)[n] = led[n].draws[l].solids /\ dry(more)[n] = led[n].draws[l].dry
        /\ \A k : run(more, k)[n] = led[n].draws[l].runs[k]
    BY <2>1
  <2>8. IsDraw(l, led[n].draws[l])
    BY <2>1, <2>3
  <2>9. Whole[l] \in Int /\ Established[l] \in Int /\ \A k \in DOMAIN Provenance[l] : Provenance[l][k] \in Int
    <3>1. Provenance[l] \in [DOMAIN Provenance[l] -> Nat]
      BY LayerIs
    <3> QED
      BY <3>1, LayerIs
  <2> HIDE DEF drew, solids, dry, run, more
  <2>10. Whole[l] - SumFunction(solids(more)) = (Whole[l] - SumFunction(solids(A))) - led[n].draws[l].solids
    <3>1. /\ SumFunction(solids(more)) = solids(more)[n] + SumFunction([i \in drew(A) |-> solids(more)[i]])
          /\ SumFunction([i \in drew(A) |-> solids(more)[i]]) \in Int
      BY <2>4, <2>5
    <3>2. led[n].draws[l].solids \in Int
      BY <2>8 DEF IsDraw
    <3> QED
      BY <2>6, <2>7, <2>9, <3>1, <3>2
  <2>11. Established[l] - SumFunction(dry(more)) = (Established[l] - SumFunction(dry(A))) - led[n].draws[l].dry
    <3>1. /\ SumFunction(dry(more)) = dry(more)[n] + SumFunction([i \in drew(A) |-> dry(more)[i]])
          /\ SumFunction([i \in drew(A) |-> dry(more)[i]]) \in Int
      BY <2>4, <2>5
    <3>2. led[n].draws[l].dry \in Int
      BY <2>8 DEF IsDraw
    <3> QED
      BY <2>6, <2>7, <2>9, <3>1, <3>2
  <2>12. ASSUME NEW k \in DOMAIN Provenance[l]
         PROVE  Provenance[l][k] - SumFunction(run(more, k))
                  = (Provenance[l][k] - SumFunction(run(A, k))) - led[n].draws[l].runs[k]
    <3>1. /\ SumFunction(run(more, k)) = run(more, k)[n] + SumFunction([i \in drew(A) |-> run(more, k)[i]])
          /\ SumFunction([i \in drew(A) |-> run(more, k)[i]]) \in Int
      BY <2>4, <2>5
    <3>2. led[n].draws[l].runs[k] \in Int
      BY <2>8 DEF IsDraw
    <3> QED
      BY <2>6, <2>7, <2>9, <3>1, <3>2
  <2>13. PICK s : s = LeftIn(led, l, A)
    OBVIOUS
  <2>14. /\ s.solids = Whole[l] - SumFunction(solids(A))
         /\ s.dry = Established[l] - SumFunction(dry(A))
         /\ \A k \in DOMAIN Provenance[l] : s.runs[k] = Provenance[l][k] - SumFunction(run(A, k))
    BY <1>2, <2>13
  <2>15. [k \in DOMAIN Provenance[l] |-> Provenance[l][k] - SumFunction(run(more, k))]
           = [k \in DOMAIN Provenance[l] |-> s.runs[k] - led[n].draws[l].runs[k]]
    BY <2>12, <2>14
  <2> QED
    BY <1>2, <2>10, <2>11, <2>13, <2>14, <2>15 DEF After
<1> QED
  BY <1>1, <1>3, <1>4

\* Movements that draw nothing from a layer do not count for it.
LEMMA LeftOfThese ==
    ASSUME NEW led, NEW l, NEW A, NEW B \in SUBSET A,
           \A i \in A \ B : l \notin DOMAIN led[i].draws
    PROVE  LeftIn(led, l, A) = LeftIn(led, l, B)
<1>1. {i \in A : l \in DOMAIN led[i].draws} = {i \in B : l \in DOMAIN led[i].draws}
  OBVIOUS
<1> QED
  BY <1>1 DEF LeftIn

Agree(led, more, movements) == \A i \in movements : more[i] = led[i]

LEMMA LeftBySame ==
    ASSUME NEW led, NEW more, NEW l, NEW A, Agree(led, more, A)
    PROVE  LeftIn(more, l, A) = LeftIn(led, l, A)
<1> DEFINE drew == {i \in A : l \in DOMAIN led[i].draws}
           drew2 == {i \in A : l \in DOMAIN more[i].draws}
<1>1. drew2 = drew
  BY DEF Agree
<1>2. \A i \in drew : more[i] = led[i]
  BY DEF Agree
<1>3. /\ [i \in drew2 |-> more[i].draws[l].solids] = [i \in drew |-> led[i].draws[l].solids]
      /\ [i \in drew2 |-> more[i].draws[l].dry] = [i \in drew |-> led[i].draws[l].dry]
      /\ \A k : [i \in drew2 |-> more[i].draws[l].runs[k]] = [i \in drew |-> led[i].draws[l].runs[k]]
  BY <1>1, <1>2
<1> QED
  BY <1>3 DEF LeftIn

\* What was drawn and given back is there again.
LEMMA GivenBack ==
    ASSUME NEW l \in Layers, NEW stock, IsRest(l, stock), NEW draw, IsDraw(l, draw), NEW back,
           back.solids = -draw.solids, back.dry = -draw.dry,
           \A k \in DOMAIN Provenance[l] : back.runs[k] = -draw.runs[k]
    PROVE  After(l, After(l, stock, draw), back) = stock
<1>1. PICK a : a = After(l, stock, draw)
  OBVIOUS
<1>2. /\ a.solids = stock.solids - draw.solids /\ a.dry = stock.dry - draw.dry
      /\ \A k \in DOMAIN Provenance[l] : a.runs[k] = stock.runs[k] - draw.runs[k]
  BY <1>1 DEF After
<1>3. a.solids - back.solids = stock.solids /\ a.dry - back.dry = stock.dry
  BY <1>2 DEF IsRest, IsDraw
<1>4. ASSUME NEW k \in DOMAIN Provenance[l] PROVE a.runs[k] - back.runs[k] = stock.runs[k]
  <2>1. stock.runs[k] \in Int /\ draw.runs[k] \in Int
    BY DEF IsRest, IsDraw
  <2> QED
    BY <1>2, <2>1
<1>5. [k \in DOMAIN Provenance[l] |-> a.runs[k] - back.runs[k]]
        = [k \in DOMAIN Provenance[l] |-> stock.runs[k]]
  BY <1>4
<1> QED
  BY <1>1, <1>3, <1>5 DEF After, IsRest

\* A layer nothing was drawn from is whole.
LEMMA UndrawnIsWhole ==
    ASSUME NEW led, NEW l \in Layers, NEW A, \A i \in A : l \notin DOMAIN led[i].draws
    PROVE  OnCurve(l, LeftIn(led, l, A))
<1>1. LeftIn(led, l, A) = LeftIn(led, l, {})
  BY LeftOfThese
<1>2. PICK s : s = LeftIn(led, l, {})
  OBVIOUS
<1>3. \A f : SumFunction([i \in {} |-> f[i]]) = 0
  BY TotalEmpty DEF Total
<1>4. SumFunction([i \in {} |-> 0]) = 0
  <2>1. PICK f : f = [i \in {} |-> 0]
    OBVIOUS
  <2>2. [i \in {} |-> f[i]] = [i \in {} |-> 0]
    OBVIOUS
  <2> QED
    BY <1>3, <2>2
<1>5. {i \in {} : l \in DOMAIN led[i].draws} = {}
  OBVIOUS
<1>6. /\ [i \in {} |-> led[i].draws[l].solids] = [i \in {} |-> 0]
      /\ [i \in {} |-> led[i].draws[l].dry] = [i \in {} |-> 0]
      /\ \A k : [i \in {} |-> led[i].draws[l].runs[k]] = [i \in {} |-> 0]
  OBVIOUS
<1>7. s = [solids |-> Whole[l] - 0, dry |-> Established[l] - 0,
           runs |-> [k \in DOMAIN Provenance[l] |-> Provenance[l][k] - 0]]
  BY <1>2, <1>4, <1>5, <1>6 DEF LeftIn
<1>8. Whole[l] \in Int /\ Established[l] \in Int /\ \A k \in DOMAIN Provenance[l] : Provenance[l][k] \in Int
  <2>1. Provenance[l] \in [DOMAIN Provenance[l] -> Nat]
    BY LayerIs
  <2> QED
    BY <2>1, LayerIs
<1>9. s.solids = Whole[l] /\ s.dry = Established[l]
      /\ s.runs = [k \in DOMAIN Provenance[l] |-> Provenance[l][k]]
  BY <1>7, <1>8
<1> QED
  BY <1>1, <1>2, <1>9, WholeIsOnCurve

-----------------------------------------------------------------------------
(* What a plan depends on.                                                  *)

\* A measured load or a count sees the layers that were there at its time.
LEMMA PlanOfEligible ==
    ASSUME NEW bin, NEW bin2, NEW at, DOMAIN bin = DOMAIN bin2,
           \A l \in Eligible(bin, at) : bin[l] = bin2[l],
           NEW request, request.kind # "ordered", NEW policy
    PROVE  Draws(bin, at, request, policy) = Draws(bin2, at, request, policy)
<1> DEFINE all == Eligible(bin, at)
           held == Holding(bin, at)
<1>1. Eligible(bin2, at) = all
  BY DEF Eligible
<1>2. Holding(bin2, at) = held /\ held \in SUBSET all
  BY <1>1 DEF Holding
<1>3. ASSUME NEW s \in SUBSET all
      PROVE  CapOf(bin, s) = CapOf(bin2, s) /\ SolidsOf(bin, s) = SolidsOf(bin2, s)
  <2>1. \A l \in s : bin[l] = bin2[l]
    OBVIOUS
  <2>2. CapOf(bin, s) = CapOf(bin2, s)
    BY <2>1 DEF CapOf
  <2> QED
    BY <2>2 DEF SolidsOf
<1>4. \A l \in held : bin[l] = bin2[l]
  BY <1>2
<1>5. ASSUME NEW solids PROVE InTurn(bin, at, solids, policy) = InTurn(bin2, at, solids, policy)
  <2> DEFINE ahead(l) == {m \in held : IF policy = "lifo" THEN Older(l, m) ELSE Older(m, l)}
             asked(l) == solids - SolidsOf(bin, ahead(l))
             asked2(l) == solids - SolidsOf(bin2, ahead(l))
             reached == {l \in held : asked(l) > 0}
             reached2 == {l \in held : asked2(l) > 0}
  <2>1. InTurn(bin, at, solids, policy) = [l \in reached |-> Least(asked(l), bin[l].solids)]
    BY Zenon DEF InTurn
  <2>2. InTurn(bin2, at, solids, policy) = [l \in reached2 |-> Least(asked2(l), bin2[l].solids)]
    BY <1>2, Zenon DEF InTurn
  <2>3. ASSUME NEW l PROVE asked(l) = asked2(l)
    <3>1. ahead(l) \in SUBSET all
      BY <1>2
    <3> HIDE DEF ahead
    <3> QED
      BY <1>3, <3>1
  <2> HIDE DEF asked, asked2, held
  <2>4. reached = reached2
    BY <2>3
  <2>5. \A l \in reached : Least(asked(l), bin[l].solids) = Least(asked2(l), bin2[l].solids)
    BY <1>4, <2>3
  <2> HIDE DEF reached, reached2
  <2>6. [l \in reached |-> Least(asked(l), bin[l].solids)] = [l \in reached2 |-> Least(asked2(l), bin2[l].solids)]
    BY <2>4, <2>5
  <2> QED
    BY <2>1, <2>2, <2>6
<1>6. ASSUME NEW solids PROVE ProRata(bin, at, solids) = ProRata(bin2, at, solids)
  <2>1. CapOf(bin, held) = CapOf(bin2, held) /\ SolidsOf(bin, held) = SolidsOf(bin2, held)
    BY <1>2, <1>3
  <2>2. GramShares(bin, held, solids) = GramShares(bin2, held, solids)
    <3>1. /\ [l \in held |-> Least(bin[l].solids \div (Ratio[l] * Parts), bin[l].dry)]
               = [l \in held |-> Least(bin2[l].solids \div (Ratio[l] * Parts), bin2[l].dry)]
          /\ [l \in held |-> bin[l].solids \div (Ratio[l] * Grid)]
               = [l \in held |-> bin2[l].solids \div (Ratio[l] * Grid)]
      BY <1>4
    <3> HIDE DEF held
    <3> QED
      BY <2>1, <3>1, Zenon DEF GramShares
  <2>3. SharesOf(bin, held, solids) = SharesOf(bin2, held, solids)
    BY <2>1, <2>2 DEF SharesOf, SharesOfPile
  <2> QED
    BY <1>2, <2>3 DEF ProRata
<1>7. Takings(bin, at, request, policy) = Takings(bin2, at, request, policy)
  <2>1. PICK pile : pile = SolidsOf(bin, Eligible(bin, at)) /\ pile = SolidsOf(bin2, Eligible(bin2, at))
    BY <1>1, <1>3
  <2>2. PICK asked : asked = IF request.kind = "count" THEN pile - request.solids ELSE request.solids
    OBVIOUS
  <2>3. Takings(bin, at, request, policy)
          = CASE request.kind = "ordered" -> InOrder(bin, request)
              [] request.kind # "ordered" /\ asked <= 0 -> <<>>
              [] request.kind # "ordered" /\ asked > 0 /\ policy \in {"fifo", "lifo"} ->
                    InTurn(bin, at, asked, policy)
              [] OTHER -> ProRata(bin, at, asked)
    BY <2>1, <2>2, Zenon DEF Takings
  <2>4. Takings(bin2, at, request, policy)
          = CASE request.kind = "ordered" -> InOrder(bin2, request)
              [] request.kind # "ordered" /\ asked <= 0 -> <<>>
              [] request.kind # "ordered" /\ asked > 0 /\ policy \in {"fifo", "lifo"} ->
                    InTurn(bin2, at, asked, policy)
              [] OTHER -> ProRata(bin2, at, asked)
    BY <2>1, <2>2, Zenon DEF Takings
  <2>5. CASE asked <= 0
    <3>1. CASE asked > 0
      BY <1>5, <2>3, <2>4, <2>5, <3>1
    <3>2. CASE ~(asked > 0)
      BY <2>3, <2>4, <2>5, <3>2, Zenon
    <3> QED
      BY <3>1, <3>2
  <2>6. CASE ~(asked <= 0) /\ asked > 0 /\ policy \in {"fifo", "lifo"}
    BY <1>5, <2>3, <2>4, <2>6, Zenon
  <2>7. CASE ~(asked <= 0) /\ ~(asked > 0 /\ policy \in {"fifo", "lifo"})
    BY <1>6, <2>3, <2>4, <2>7, Zenon
  <2> QED
    BY <2>5, <2>6, <2>7
<1>8. DOMAIN Takings(bin, at, request, policy) \in SUBSET held
  <2> DEFINE asked == IF request.kind = "count" THEN SolidsOf(bin, Eligible(bin, at)) - request.solids
                      ELSE request.solids
             inTurn == InTurn(bin, at, asked, policy)
             proRata == ProRata(bin, at, asked)
  <2>1. DOMAIN inTurn \in SUBSET held /\ DOMAIN proRata \in SUBSET held
    BY DEF InTurn, ProRata
  <2>2. Takings(bin, at, request, policy)
          = CASE request.kind = "ordered" -> InOrder(bin, request)
              [] request.kind # "ordered" /\ asked <= 0 -> <<>>
              [] request.kind # "ordered" /\ asked > 0 /\ policy \in {"fifo", "lifo"} -> inTurn
              [] OTHER -> proRata
    BY Zenon DEF Takings
  <2> HIDE DEF asked, inTurn, proRata, held
  <2>3. Takings(bin, at, request, policy) \in {<<>>, inTurn, proRata}
    BY <2>2
  <2> QED
    BY <2>1, <2>3
<1>9. PICK taken : taken = Takings(bin, at, request, policy) /\ taken = Takings(bin2, at, request, policy)
  BY <1>7
<1>10. \A l \in DOMAIN taken : Take(l, bin[l], taken[l]) = Take(l, bin2[l], taken[l])
  BY <1>4, <1>8, <1>9
<1>11. DrawsOf(bin, taken) = DrawsOf(bin2, taken)
  BY <1>10 DEF DrawsOf
<1> QED
  BY <1>9, <1>11 DEF Draws

\* An ordered load sees its sources.
SameSources(bin, bin2, request) ==
    \A i \in DOMAIN request.sources :
        bin[request.sources[i].layer] = bin2[request.sources[i].layer]

ListsSources(request) ==
    request.kind = "ordered" /\ \E S : request.sources \in Seq(S)

LEMMA PlanOfSources ==
    ASSUME NEW bin, NEW bin2, NEW at, NEW request, NEW policy,
           ListsSources(request), SameSources(bin, bin2, request)
    PROVE  Draws(bin, at, request, policy) = Draws(bin2, at, request, policy)
<1>1. PICK sources : sources = request.sources
  OBVIOUS
<1>2. request.kind = "ordered" /\ \E n \in Nat : DOMAIN sources = 1 .. n /\ n = Len(sources)
  <2>1. request.kind = "ordered" /\ \E S : sources \in Seq(S)
    BY <1>1 DEF ListsSources
  <2> QED
    BY <2>1
<1>2a. PICK n \in Nat : DOMAIN sources = 1 .. n /\ n = Len(sources)
  BY <1>2
<1>3. \A i \in 1 .. n : bin[sources[i].layer] = bin2[sources[i].layer]
  BY <1>1, <1>2a DEF SameSources
<1>4. ASSUME NEW i \in 1 .. n PROVE TakenFrom(bin, request, i) = TakenFrom(bin2, request, i)
  <2>1. \A j \in 1 .. i - 1 : bin[sources[j].layer] = bin2[sources[j].layer]
    BY <1>3
  <2>2. [j \in 1 .. i - 1 |-> bin[sources[j].layer].solids * sources[j].reading]
          = [j \in 1 .. i - 1 |-> bin2[sources[j].layer].solids * sources[j].reading]
    BY <2>1
  <2>3. WetLeft(bin, request, i) = WetLeft(bin2, request, i)
    BY <1>1, <2>2 DEF WetLeft
  <2> QED
    BY <1>1, <1>3, <2>3 DEF TakenFrom
<1> DEFINE from == {sources[i].layer : i \in 1 .. n}
           source(l) == CHOOSE i \in 1 .. n : sources[i].layer = l
<1>5. /\ InOrder(bin, request) = [l \in from |-> TakenFrom(bin, request, source(l))]
      /\ InOrder(bin2, request) = [l \in from |-> TakenFrom(bin2, request, source(l))]
  BY <1>1, <1>2a DEF InOrder
<1>6. \A l \in from : source(l) \in 1 .. n /\ bin[l] = bin2[l]
  BY <1>3
<1> HIDE DEF from, source
<1>7. \A l \in from : TakenFrom(bin, request, source(l)) = TakenFrom(bin2, request, source(l))
  BY <1>4, <1>6
<1>8. InOrder(bin, request) = InOrder(bin2, request)
  BY <1>5, <1>7
<1>9. \A b : Takings(b, at, request, policy) = InOrder(b, request)
  <2> TAKE b
  <2> DEFINE pile == SolidsOf(b, Eligible(b, at))
             asked == IF request.kind = "count" THEN pile - request.solids ELSE request.solids
  <2>1. Takings(b, at, request, policy)
          = CASE request.kind = "ordered" -> InOrder(b, request)
              [] request.kind # "ordered" /\ asked <= 0 -> <<>>
              [] request.kind # "ordered" /\ asked > 0 /\ policy \in {"fifo", "lifo"} ->
                    InTurn(b, at, asked, policy)
              [] OTHER -> ProRata(b, at, asked)
    BY Zenon DEF Takings
  <2> HIDE DEF asked
  <2> QED
    BY <1>2, <2>1
<1>10. PICK taken : taken = InOrder(bin, request)
  OBVIOUS
<1>11. DOMAIN taken = from
  BY <1>5, <1>10
<1>12. \A l \in DOMAIN taken : Take(l, bin[l], taken[l]) = Take(l, bin2[l], taken[l])
  BY <1>6, <1>11
<1>13. DrawsOf(bin, taken) = DrawsOf(bin2, taken)
  BY <1>12 DEF DrawsOf
<1> QED
  BY <1>8, <1>9, <1>10, <1>13 DEF Draws

-----------------------------------------------------------------------------
(* A ledger that holds together.                                            *)

LiveIn(led, i) ==
    /\ led[i].kind \in DrawKinds
    /\ \A j \in DOMAIN led : led[j].kind = "reversal" => led[j].corrects # i

LiveBefore(led, i) == {j \in 1 .. i - 1 : LiveIn(led, j)}

PreservesIn(led, m) ==
    /\ m.corrects # 0 /\ m.kind = "loss" /\ m.request.kind = "wet"
    /\ LET draws == led[m.corrects].draws
       IN  m.request.solids
              <= SumFunction([l \in DOMAIN draws |-> draws[l].solids])

PlannedOver(led, m) ==
    IF PreservesIn(led, m) THEN DOMAIN led[m.corrects].draws ELSE m.known

\* The stock an entry is planned over, of what these movements leave.
StockIn(led, m, movements) == [l \in PlannedOver(led, m) |-> LeftIn(led, l, movements)]

\* The draws of an entry are numbers.
IsEntry(m) ==
    /\ m.at \in Nat /\ m.corrects \in Nat
    /\ DOMAIN m.draws \in SUBSET Layers
    /\ \A l \in DOMAIN m.draws : IsDraw(l, m.draws[l])
    /\ m.kind \in DrawKinds =>
          /\ IsRequest(m.request)
          /\ m.policy = "operator_order" <=> m.request.kind = "ordered"

\* Corrected entries and their reversals leave a layer as if they had not been.
LiveTells(led) ==
    \A l \in Layers : LeftIn(led, l, DOMAIN led) = LeftIn(led, l, LiveBefore(led, Len(led) + 1))

\* At every point of the history that is in force, what is left of a layer is
\* what its solids say.
HistoryOnCurve(led) ==
    \A l \in Layers : \A i \in 1 .. Len(led) + 1 : OnCurve(l, LeftIn(led, l, LiveBefore(led, i)))

HistoryStands(led) ==
    \A i \in DOMAIN led : LiveIn(led, i) =>
        /\ led[i].draws = Draws(StockIn(led, led[i], LiveBefore(led, i)),
                                led[i].at, led[i].request, led[i].policy)
        /\ DOMAIN led[i].draws \in SUBSET PlannedOver(led, led[i])

IsLedger(led) ==
    /\ \E S : led \in Seq(S)
    /\ \A i \in DOMAIN led : IsEntry(led[i]) /\ led[i].corrects \in 0 .. Len(led)

Kept(led) == IsLedger(led) /\ LiveTells(led) /\ HistoryOnCurve(led) /\ HistoryStands(led)

\* The ledger with one more entry.
GrowsBy(led, more, n, e) ==
    /\ n \in Nat /\ Len(led) = n /\ DOMAIN led = 1 .. n
    /\ Len(more) = n + 1 /\ DOMAIN more = 1 .. n + 1
    /\ \A i \in 1 .. n : more[i] = led[i]
    /\ more[n + 1] = e

Appends(led, e, more) == more = Append(led, e)

LEMMA AppendedGrows ==
    ASSUME NEW led, IsLedger(led), NEW e, IsEntry(e), e.corrects \in 0 .. Len(led),
           NEW more, Appends(led, e, more)
    PROVE  GrowsBy(led, more, Len(led), e) /\ IsLedger(more)
<1>1. PICK S : led \in Seq(S)
  BY DEF IsLedger
<1>2. led \in Seq(S \cup {e}) /\ e \in S \cup {e}
  BY <1>1
<1>3. PICK n \in Nat : n = Len(led) /\ DOMAIN led = 1 .. n
  BY <1>1
<1>4. /\ more \in Seq(S \cup {e}) /\ Len(more) = n + 1 /\ DOMAIN more = 1 .. n + 1
      /\ \A i \in 1 .. n : more[i] = led[i]
      /\ more[n + 1] = e
  BY <1>2, <1>3, AppendProperties DEF Appends
<1>5. GrowsBy(led, more, n, e)
  BY <1>3, <1>4 DEF GrowsBy
<1>6. ASSUME NEW i \in DOMAIN more PROVE IsEntry(more[i]) /\ more[i].corrects \in 0 .. Len(more)
  <2>1. CASE i = n + 1
    BY <1>3, <1>4, <2>1
  <2>2. CASE i \in 1 .. n
    BY <1>3, <1>4, <2>2 DEF IsLedger
  <2> QED
    BY <1>4, <2>1, <2>2
<1> QED
  BY <1>3, <1>4, <1>5, <1>6 DEF IsLedger

\* What an older ledger says of its entries the longer one says too.
LEMMA OlderSame ==
    ASSUME NEW led, NEW more, NEW n, NEW e, GrowsBy(led, more, n, e), IsLedger(led)
    PROVE  /\ \A l : \A A \in SUBSET (1 .. n) : LeftIn(more, l, A) = LeftIn(led, l, A)
           /\ \A m : m.corrects \in 0 .. n => PlannedOver(more, m) = PlannedOver(led, m)
           /\ \A i \in 1 .. n :
                 LiveIn(more, i) <=> LiveIn(led, i) /\ ~(e.kind = "reversal" /\ e.corrects = i)
           /\ e.kind \in DrawKinds => LiveIn(more, n + 1)
<1>1. /\ n \in Nat /\ DOMAIN led = 1 .. n /\ DOMAIN more = 1 .. n + 1
      /\ \A i \in 1 .. n : more[i] = led[i]
      /\ more[n + 1] = e /\ Len(led) = n
  BY DEF GrowsBy
<1>2. ASSUME NEW l, NEW A \in SUBSET (1 .. n) PROVE LeftIn(more, l, A) = LeftIn(led, l, A)
  <2>1. Agree(led, more, A)
    BY <1>1 DEF Agree
  <2> QED
    BY <2>1, LeftBySame
<1>3. ASSUME NEW m, m.corrects \in 0 .. n PROVE PlannedOver(more, m) = PlannedOver(led, m)
  <2>1. m.corrects = 0 \/ more[m.corrects] = led[m.corrects]
    BY <1>1, <1>3
  <2>2. PreservesIn(more, m) <=> PreservesIn(led, m)
    BY <2>1 DEF PreservesIn
  <2>3. PreservesIn(led, m) => m.corrects # 0
    BY DEF PreservesIn
  <2> QED
    BY <2>1, <2>2, <2>3 DEF PlannedOver
<1>4. ASSUME NEW i \in 1 .. n
      PROVE  LiveIn(more, i) <=> LiveIn(led, i) /\ ~(e.kind = "reversal" /\ e.corrects = i)
  <2>1. \A j \in DOMAIN more : j \in DOMAIN led \/ j = n + 1
    BY <1>1
  <2>2. DOMAIN led \in SUBSET DOMAIN more /\ n + 1 \in DOMAIN more
    BY <1>1
  <2> QED
    BY <1>1, <2>1, <2>2 DEF LiveIn
<1>5. ASSUME e.kind \in DrawKinds PROVE LiveIn(more, n + 1)
  <2>1. ASSUME NEW j \in DOMAIN more, more[j].kind = "reversal" PROVE more[j].corrects # n + 1
    <3>0. more[n + 1].kind \in DrawKinds
      BY <1>1, <1>5
    <3>1. j # n + 1
      BY <2>1, <3>0 DEF DrawKinds
    <3>2. j \in 1 .. n
      BY <1>1, <3>1
    <3>3. led[j].corrects \in 0 .. n
      BY <1>1, <3>2 DEF IsLedger
    <3> QED
      BY <1>1, <3>2, <3>3
  <2>2. more[n + 1].kind \in DrawKinds
    BY <1>1, <1>5
  <2> QED
    BY <2>1, <2>2 DEF LiveIn
<1> QED
  BY <1>2, <1>3, <1>4, <1>5

\* The entries of a ledger draw numbers.
LEMMA LedgerDraws ==
    ASSUME NEW led, IsLedger(led), NEW l \in Layers, NEW A \in SUBSET DOMAIN led
    PROVE  DrawWell(led, l, A)
<1>1. PICK n \in Nat : DOMAIN led = 1 .. n
  BY DEF IsLedger
<1>2. IsFiniteSet(1 .. n)
  <2>1. 1 \in Int /\ n \in Int
    OBVIOUS
  <2> QED
    BY <2>1, FS_Interval
<1>3. IsFiniteSet(A)
  BY <1>1, <1>2, FS_Subset
<1> QED
  BY <1>3 DEF DrawWell, IsLedger, IsEntry

\* What an appended entry does to the entries before it.
LEMMA BeforeGrows ==
    ASSUME NEW led, NEW more, NEW n, NEW e, GrowsBy(led, more, n, e), IsLedger(led)
    PROVE  /\ \A i \in 1 .. n + 1 :
                 /\ LiveBefore(led, i) \in SUBSET (1 .. n)
                 /\ e.kind # "reversal" => LiveBefore(more, i) = LiveBefore(led, i)
                 /\ e.kind = "reversal" => LiveBefore(more, i) = LiveBefore(led, i) \ {e.corrects}
           /\ e.kind = "reversal" =>
                 LiveBefore(more, n + 2) = LiveBefore(led, n + 1) \ {e.corrects}
           /\ e.kind \in DrawKinds => LiveBefore(more, n + 2) = LiveBefore(led, n + 1) \cup {n + 1}
           /\ e.kind \notin DrawKinds \cup {"reversal"} => LiveBefore(more, n + 2) = LiveBefore(led, n + 1)
<1>1. n \in Nat /\ more[n + 1] = e
  BY DEF GrowsBy
<1>2. /\ \A i \in 1 .. n :
            LiveIn(more, i) <=> LiveIn(led, i) /\ ~(e.kind = "reversal" /\ e.corrects = i)
      /\ e.kind \in DrawKinds => LiveIn(more, n + 1)
  BY OlderSame
<1>3. e.kind \notin DrawKinds => ~LiveIn(more, n + 1)
  BY <1>1 DEF LiveIn
<1>4. ASSUME NEW i \in 1 .. n + 1
      PROVE  /\ LiveBefore(led, i) \in SUBSET (1 .. n)
             /\ e.kind # "reversal" => LiveBefore(more, i) = LiveBefore(led, i)
             /\ e.kind = "reversal" => LiveBefore(more, i) = LiveBefore(led, i) \ {e.corrects}
  <2>1. 1 .. i - 1 \in SUBSET (1 .. n)
    BY <1>1
  <2> QED
    BY <1>2, <2>1 DEF LiveBefore
<1>5. (n + 2) - 1 = n + 1 /\ (n + 1) - 1 = n /\ 1 .. n + 1 = (1 .. n) \cup {n + 1} /\ n + 1 \notin 1 .. n
  BY <1>1
<1>6. LiveBefore(more, n + 2) = {j \in (1 .. n) \cup {n + 1} : LiveIn(more, j)}
      /\ LiveBefore(led, n + 1) = {j \in 1 .. n : LiveIn(led, j)}
  BY <1>5 DEF LiveBefore
<1>7. e.kind = "reversal" => e.kind \notin DrawKinds
  BY DEF DrawKinds
<1>8. e.kind = "reversal" => LiveBefore(more, n + 2) = LiveBefore(led, n + 1) \ {e.corrects}
  BY <1>2, <1>3, <1>6, <1>7
<1>9. e.kind \in DrawKinds => LiveBefore(more, n + 2) = LiveBefore(led, n + 1) \cup {n + 1}
  BY <1>2, <1>6, <1>7
<1>10. e.kind \notin DrawKinds \cup {"reversal"} => LiveBefore(more, n + 2) = LiveBefore(led, n + 1)
  BY <1>2, <1>3, <1>6
<1> QED
  BY <1>4, <1>8, <1>9, <1>10

-----------------------------------------------------------------------------
(* Appending an entry.                                                      *)

\* The reversal of an entry gives back what the entry drew.
Undoes(e, m, o) ==
    /\ e.kind = "reversal" /\ e.corrects = o
    /\ DOMAIN e.draws = DOMAIN m.draws
    /\ \A l \in DOMAIN m.draws :
          /\ e.draws[l].solids = -m.draws[l].solids
          /\ e.draws[l].dry = -m.draws[l].dry
          /\ \A k \in DOMAIN Provenance[l] : e.draws[l].runs[k] = -m.draws[l].runs[k]

\* No later entry in force drew on the layers of this one or, unless it was
\* ordered, saw them.
Unseen(led, o) ==
    \A i \in o + 1 .. Len(led) : LiveIn(led, i) =>
        /\ DOMAIN led[i].draws \cap DOMAIN led[o].draws = {}
        /\ led[i].policy # "operator_order" =>
              \A l \in DOMAIN led[o].draws : Placed[l] > led[i].at

\* What is left without an entry, at any point of the history.
LEMMA LeftWithoutEntry ==
    ASSUME NEW led, Kept(led), NEW o \in DOMAIN led, LiveIn(led, o), Unseen(led, o),
           NEW l \in Layers, NEW i \in 1 .. Len(led) + 1
    PROVE  /\ LeftIn(led, l, LiveBefore(led, i) \ {o}) =
                IF l \in DOMAIN led[o].draws /\ o < i THEN LeftIn(led, l, LiveBefore(led, o))
                ELSE LeftIn(led, l, LiveBefore(led, i))
           /\ OnCurve(l, LeftIn(led, l, LiveBefore(led, i) \ {o}))
<1>1. PICK n \in Nat : n = Len(led) /\ DOMAIN led = 1 .. n
  BY DEF Kept, IsLedger
<1>2. \A j \in 1 .. n + 1 : OnCurve(l, LeftIn(led, l, LiveBefore(led, j)))
  BY <1>1 DEF Kept, HistoryOnCurve
<1>3. CASE l \in DOMAIN led[o].draws /\ o < i
  <2>1. ASSUME NEW j \in (LiveBefore(led, i) \ {o}) \ LiveBefore(led, o)
        PROVE  l \notin DOMAIN led[j].draws
    <3>1. j \in 1 .. i - 1 /\ LiveIn(led, j) /\ j # o /\ ~(j \in 1 .. o - 1)
      BY DEF LiveBefore
    <3>2. j \in o + 1 .. n
      BY <1>1, <3>1
    <3>3. DOMAIN led[j].draws \cap DOMAIN led[o].draws = {}
      BY <1>1, <3>1, <3>2 DEF Unseen
    <3> QED
      BY <1>3, <3>3
  <2>2. LiveBefore(led, o) \in SUBSET (LiveBefore(led, i) \ {o})
    BY <1>1, <1>3 DEF LiveBefore
  <2>3. LeftIn(led, l, LiveBefore(led, i) \ {o}) = LeftIn(led, l, LiveBefore(led, o))
    BY <2>1, <2>2, LeftOfThese
  <2>4. o \in 1 .. n + 1
    BY <1>1
  <2> QED
    BY <1>2, <1>3, <2>3, <2>4
<1>4. CASE ~(l \in DOMAIN led[o].draws /\ o < i)
  <2>1. \A j \in LiveBefore(led, i) \ (LiveBefore(led, i) \ {o}) : l \notin DOMAIN led[j].draws
    <3> SUFFICES ASSUME o \in LiveBefore(led, i) PROVE l \notin DOMAIN led[o].draws
      OBVIOUS
    <3>1. o < i
      BY <1>1 DEF LiveBefore
    <3> QED
      BY <1>4, <3>1
  <2>2. LeftIn(led, l, LiveBefore(led, i)) = LeftIn(led, l, LiveBefore(led, i) \ {o})
    BY <2>1, LeftOfThese
  <2> QED
    BY <1>1, <1>2, <1>4, <2>2
<1> QED
  BY <1>3, <1>4

\* A correction leaves the plans of later entries as they were.
LEMMA LaterPlansStay ==
    ASSUME NEW led, Kept(led), NEW o \in DOMAIN led, LiveIn(led, o), Unseen(led, o),
           NEW i \in DOMAIN led, LiveIn(led, i), i # o
    PROVE  led[i].draws = Draws(StockIn(led, led[i], LiveBefore(led, i) \ {o}),
                                led[i].at, led[i].request, led[i].policy)
<1>1. PICK n \in Nat : n = Len(led) /\ DOMAIN led = 1 .. n
  BY DEF Kept, IsLedger
<1>2. PICK m : m = led[i]
  OBVIOUS
<1>3. PICK bin, bin2 : /\ bin = StockIn(led, m, LiveBefore(led, i))
                       /\ bin2 = StockIn(led, m, LiveBefore(led, i) \ {o})
  OBVIOUS
<1>4. m.draws = Draws(bin, m.at, m.request, m.policy) /\ DOMAIN m.draws \in SUBSET DOMAIN bin
  BY <1>2, <1>3 DEF Kept, HistoryStands, StockIn
<1>5. /\ IsEntry(m) /\ m.kind \in DrawKinds
      /\ IsRequest(m.request) /\ m.at \in Nat
      /\ m.policy = "operator_order" <=> m.request.kind = "ordered"
      /\ DOMAIN m.draws \in SUBSET Layers
  BY <1>2 DEF Kept, IsLedger, IsEntry, LiveIn
<1>6. CASE i < o
  <2>1. LiveBefore(led, i) \ {o} = LiveBefore(led, i)
    BY <1>1, <1>6 DEF LiveBefore
  <2> QED
    BY <1>2, <1>3, <1>4, <2>1
<1>7. CASE o < i
  <2>1. i \in o + 1 .. Len(led)
    BY <1>1, <1>7
  <2>2. /\ DOMAIN m.draws \cap DOMAIN led[o].draws = {}
        /\ m.policy # "operator_order" => \A l \in DOMAIN led[o].draws : Placed[l] > m.at
    BY <1>2, <2>1 DEF Unseen
  <2>3. DOMAIN led[o].draws \in SUBSET Layers
    BY DEF Kept, IsLedger, IsEntry
  <2>4. ASSUME NEW l, l \notin DOMAIN led[o].draws
        PROVE  LeftIn(led, l, LiveBefore(led, i)) = LeftIn(led, l, LiveBefore(led, i) \ {o})
    <3>1. \A j \in LiveBefore(led, i) \ (LiveBefore(led, i) \ {o}) : l \notin DOMAIN led[j].draws
      BY <2>4
    <3>2. LiveBefore(led, i) \ {o} \in SUBSET LiveBefore(led, i)
      OBVIOUS
    <3> QED
      BY <3>1, <3>2, LeftOfThese
  <2>5. DOMAIN bin = DOMAIN bin2
    BY <1>3 DEF StockIn
  <2>6. \A l \in DOMAIN bin : l \notin DOMAIN led[o].draws => bin[l] = bin2[l]
    BY <1>3, <2>4 DEF StockIn
  <2>7. CASE m.request.kind = "ordered"
    <3>1. m.request.sources \in Seq([layer : Layers, reading : Nat \ {0}])
      BY <1>5, <2>7 DEF IsRequest
    <3>2. DOMAIN m.draws = {m.request.sources[j].layer : j \in DOMAIN m.request.sources}
      <4>1. DOMAIN m.draws = DOMAIN Takings(bin, m.at, m.request, m.policy)
        BY <1>4 DEF Draws, DrawsOf
      <4>2. Takings(bin, m.at, m.request, m.policy) = InOrder(bin, m.request)
        <5> DEFINE asked == IF m.request.kind = "count"
                            THEN SolidsOf(bin, Eligible(bin, m.at)) - m.request.solids
                            ELSE m.request.solids
        <5>1. Takings(bin, m.at, m.request, m.policy)
                = CASE m.request.kind = "ordered" -> InOrder(bin, m.request)
                    [] m.request.kind # "ordered" /\ asked <= 0 -> <<>>
                    [] m.request.kind # "ordered" /\ asked > 0 /\ m.policy \in {"fifo", "lifo"} ->
                          InTurn(bin, m.at, asked, m.policy)
                    [] OTHER -> ProRata(bin, m.at, asked)
          BY Zenon DEF Takings
        <5> HIDE DEF asked
        <5> QED
          BY <2>7, <5>1
      <4>3. DOMAIN InOrder(bin, m.request) = {m.request.sources[j].layer : j \in DOMAIN m.request.sources}
        BY DEF InOrder
      <4> QED
        BY <4>1, <4>2, <4>3
    <3>3. ASSUME NEW j \in DOMAIN m.request.sources
          PROVE  bin[m.request.sources[j].layer] = bin2[m.request.sources[j].layer]
      <4>1. PICK l : l = m.request.sources[j].layer
        OBVIOUS
      <4>2. l \in DOMAIN m.draws
        BY <3>2, <4>1
      <4>3. l \notin DOMAIN led[o].draws
        BY <2>2, <4>2
      <4> QED
        BY <1>4, <2>6, <4>1, <4>2, <4>3
    <3>4. Draws(bin, m.at, m.request, m.policy) = Draws(bin2, m.at, m.request, m.policy)
      <4>1. SameSources(bin, bin2, m.request)
        BY <3>3 DEF SameSources
      <4>2. PICK S : S = [layer : Layers, reading : Nat \ {0}]
        OBVIOUS
      <4>3. m.request.sources \in Seq(S)
        BY <3>1, <4>2
      <4>4. PICK r, at, p : r = m.request /\ at = m.at /\ p = m.policy
        OBVIOUS
      <4>5. ListsSources(r) /\ SameSources(bin, bin2, r)
        <5>1. r.kind = "ordered" /\ r.sources \in Seq(S)
          BY <2>7, <4>3, <4>4
        <5> QED
          BY <4>1, <4>4, <5>1 DEF ListsSources
      <4>6. Draws(bin, at, r, p) = Draws(bin2, at, r, p)
        BY <4>5, PlanOfSources
      <4> QED
        BY <4>4, <4>6
    <3> QED
      BY <1>2, <1>3, <1>4, <3>4
  <2>8. CASE m.request.kind # "ordered"
    <3>1. ASSUME NEW l \in Eligible(bin, m.at) PROVE bin[l] = bin2[l]
      <4>1. l \in DOMAIN bin /\ Placed[l] <= m.at
        BY DEF Eligible
      <4>2. ASSUME l \in DOMAIN led[o].draws PROVE FALSE
        <5>1. Placed[l] > m.at
          BY <1>5, <2>2, <2>8, <4>2
        <5>2. Placed[l] \in Nat
          BY <2>3, <4>2, PlannerAssumption
        <5> QED
          BY <1>5, <4>1, <5>1, <5>2
      <4> QED
        BY <2>6, <4>1, <4>2
    <3>2. Draws(bin, m.at, m.request, m.policy) = Draws(bin2, m.at, m.request, m.policy)
      BY <2>5, <2>8, <3>1, PlanOfEligible
    <3> QED
      BY <1>2, <1>3, <1>4, <3>2
  <2> QED
    BY <2>7, <2>8
<1> QED
  BY <1>1, <1>6, <1>7

\* Leaving an entry out is the same as counting its reversal.
LEMMA LeftOutIsUndone ==
    ASSUME NEW led, IsLedger(led), NEW o \in DOMAIN led, NEW e, Undoes(e, led[o], o),
           NEW l \in Layers, NEW A \in SUBSET DOMAIN led, o \in A
    PROVE  LeftIn(led, l, A \ {o}) =
             IF l \in DOMAIN e.draws THEN After(l, LeftIn(led, l, A), e.draws[l])
             ELSE LeftIn(led, l, A)
<1>0. PICK B : B = A \ {o}
  OBVIOUS
<1>1. B = A \ {o} /\ o \notin B /\ B \cup {o} = A
  BY <1>0
<1>2. DrawWell(led, l, B \cup {o})
  BY <1>1, LedgerDraws
<1>3. /\ DrawWell(led, l, B)
      /\ l \notin DOMAIN led[o].draws => LeftIn(led, l, B \cup {o}) = LeftIn(led, l, B)
      /\ l \in DOMAIN led[o].draws =>
            LeftIn(led, l, B \cup {o}) = After(l, LeftIn(led, l, B), led[o].draws[l])
  BY <1>1, <1>2, LeftWithOne
<1>4. DOMAIN e.draws = DOMAIN led[o].draws
  BY DEF Undoes
<1>5. CASE l \notin DOMAIN led[o].draws
  BY <1>1, <1>3, <1>4, <1>5
<1>6. CASE l \in DOMAIN led[o].draws
  <2>1. IsDraw(l, led[o].draws[l])
    BY <1>6 DEF IsLedger, IsEntry
  <2>2. IsRest(l, LeftIn(led, l, B))
    BY <1>3, LeftIsRest
  <2>3. PICK s, d, b : s = LeftIn(led, l, B) /\ d = led[o].draws[l] /\ b = e.draws[l]
    OBVIOUS
  <2>4. /\ b.solids = -d.solids /\ b.dry = -d.dry
        /\ \A k \in DOMAIN Provenance[l] : b.runs[k] = -d.runs[k]
    BY <1>6, <2>3 DEF Undoes
  <2>5. After(l, After(l, s, d), b) = s
    BY <2>1, <2>2, <2>3, <2>4, GivenBack
  <2> QED
    BY <1>1, <1>3, <1>4, <1>6, <2>3, <2>5
<1> QED
  BY <1>5, <1>6

\* A reversal undoes its entry, and the history without it holds together.
LEMMA ReversalKeeps ==
    ASSUME NEW led, Kept(led), NEW o \in DOMAIN led, LiveIn(led, o), Unseen(led, o),
           NEW e, IsEntry(e), Undoes(e, led[o], o), NEW more, Appends(led, e, more)
    PROVE  /\ Kept(more)
           /\ \A l \in Layers : LeftIn(more, l, DOMAIN more) = LeftIn(led, l, DOMAIN led \ {o})
<1>1. PICK n \in Nat : n = Len(led) /\ DOMAIN led = 1 .. n
  BY DEF Kept, IsLedger
<1>2. IsLedger(led) /\ e.kind = "reversal" /\ e.corrects = o /\ o \in 1 .. n
  BY <1>1 DEF Kept, Undoes
<1>3. GrowsBy(led, more, n, e) /\ IsLedger(more)
  <2>1. e.corrects \in 0 .. Len(led)
    BY <1>1, <1>2
  <2> QED
    BY <1>1, <1>2, <2>1, AppendedGrows
<1>4. /\ DOMAIN more = 1 .. n + 1 /\ Len(more) = n + 1 /\ more[n + 1] = e
      /\ \A i \in 1 .. n : more[i] = led[i]
  BY <1>3 DEF GrowsBy
<1>5. /\ \A l : \A A \in SUBSET (1 .. n) : LeftIn(more, l, A) = LeftIn(led, l, A)
      /\ \A m : m.corrects \in 0 .. n => PlannedOver(more, m) = PlannedOver(led, m)
      /\ \A i \in 1 .. n : LiveIn(more, i) <=> LiveIn(led, i) /\ i # o
  BY <1>2, <1>3, OlderSame
<1>6. /\ \A i \in 1 .. n + 1 : /\ LiveBefore(led, i) \in SUBSET (1 .. n)
                               /\ LiveBefore(more, i) = LiveBefore(led, i) \ {o}
      /\ LiveBefore(more, n + 2) = LiveBefore(led, n + 1) \ {o}
  BY <1>2, <1>3, BeforeGrows
<1>7. n + 1 \in 1 .. n + 1 /\ n + 1 \notin 1 .. n /\ 1 .. n + 1 = (1 .. n) \cup {n + 1}
  OBVIOUS
<1>8. o \in LiveBefore(led, n + 1)
  BY <1>1 DEF LiveBefore
<1>9. ASSUME NEW l \in Layers
      PROVE  /\ LeftIn(more, l, DOMAIN more) = LeftIn(led, l, DOMAIN led \ {o})
             /\ LeftIn(more, l, DOMAIN more) = LeftIn(more, l, LiveBefore(more, Len(more) + 1))
  <2>1. DrawWell(more, l, (1 .. n) \cup {n + 1})
    BY <1>3, <1>4, <1>7, LedgerDraws
  <2>2. /\ l \notin DOMAIN e.draws => LeftIn(more, l, DOMAIN more) = LeftIn(more, l, 1 .. n)
        /\ l \in DOMAIN e.draws =>
              LeftIn(more, l, DOMAIN more) = After(l, LeftIn(more, l, 1 .. n), e.draws[l])
    <3>1. PICK D, k : D = 1 .. n /\ k = n + 1
      OBVIOUS
    <3>2. DrawWell(more, l, D \cup {k}) /\ k \notin D /\ DOMAIN more = D \cup {k} /\ more[k] = e
      BY <1>4, <1>7, <2>1, <3>1
    <3>3. /\ l \notin DOMAIN more[k].draws => LeftIn(more, l, D \cup {k}) = LeftIn(more, l, D)
          /\ l \in DOMAIN more[k].draws =>
                LeftIn(more, l, D \cup {k}) = After(l, LeftIn(more, l, D), more[k].draws[l])
      BY <3>2, LeftWithOne
    <3> QED
      BY <3>1, <3>2, <3>3
  <2>3. LeftIn(more, l, 1 .. n) = LeftIn(led, l, 1 .. n)
    BY <1>5
  <2>4. LeftIn(led, l, (1 .. n) \ {o}) =
          IF l \in DOMAIN e.draws THEN After(l, LeftIn(led, l, 1 .. n), e.draws[l])
          ELSE LeftIn(led, l, 1 .. n)
    BY <1>1, <1>2, LeftOutIsUndone
  <2>5. LeftIn(led, l, LiveBefore(led, n + 1) \ {o}) =
          IF l \in DOMAIN e.draws THEN After(l, LeftIn(led, l, LiveBefore(led, n + 1)), e.draws[l])
          ELSE LeftIn(led, l, LiveBefore(led, n + 1))
    <3>1. LiveBefore(led, n + 1) \in SUBSET DOMAIN led
      BY <1>1, <1>6, <1>7
    <3> QED
      BY <1>2, <1>8, <3>1, LeftOutIsUndone
  <2>6. LeftIn(led, l, 1 .. n) = LeftIn(led, l, LiveBefore(led, n + 1))
    BY <1>1 DEF Kept, LiveTells
  <2>7. LeftIn(more, l, LiveBefore(more, n + 2)) = LeftIn(led, l, LiveBefore(led, n + 1) \ {o})
    <3>1. LiveBefore(led, n + 1) \ {o} \in SUBSET (1 .. n)
      BY <1>6, <1>7
    <3> QED
      BY <1>5, <1>6, <3>1
  <2>8. Len(more) + 1 = n + 2
    BY <1>4
  <2> QED
    BY <1>1, <2>2, <2>3, <2>4, <2>5, <2>6, <2>7, <2>8
<1>10. LiveTells(more)
  BY <1>9 DEF LiveTells
<1>11. HistoryOnCurve(more)
  <2> SUFFICES ASSUME NEW l \in Layers, NEW i \in 1 .. n + 2
               PROVE  OnCurve(l, LeftIn(more, l, LiveBefore(more, i)))
    <3>1. Len(more) + 1 = n + 2
      BY <1>4
    <3> QED
      BY <3>1 DEF HistoryOnCurve
  <2>1. PICK k \in 1 .. n + 1 : LiveBefore(more, i) = LiveBefore(led, k) \ {o}
    <3>1. i \in 1 .. n + 1 \/ i = n + 2
      OBVIOUS
    <3> QED
      BY <1>6, <1>7, <3>1
  <2>2. LiveBefore(led, k) \ {o} \in SUBSET (1 .. n)
    BY <1>6
  <2>3. LeftIn(more, l, LiveBefore(more, i)) = LeftIn(led, l, LiveBefore(led, k) \ {o})
    BY <1>5, <2>1, <2>2
  <2> QED
    BY <1>1, <2>3, LeftWithoutEntry
<1>12. HistoryStands(more)
  <2> SUFFICES ASSUME NEW i \in DOMAIN more, LiveIn(more, i)
               PROVE  /\ more[i].draws = Draws(StockIn(more, more[i], LiveBefore(more, i)),
                                               more[i].at, more[i].request, more[i].policy)
                      /\ DOMAIN more[i].draws \in SUBSET PlannedOver(more, more[i])
    BY DEF HistoryStands
  <2>1. i \in 1 .. n
    <3>1. i # n + 1
      BY <1>2, <1>4 DEF LiveIn, DrawKinds
    <3> QED
      BY <1>4, <1>7, <3>1
  <2>2. LiveIn(led, i) /\ i # o /\ more[i] = led[i] /\ i \in DOMAIN led
    BY <1>1, <1>4, <1>5, <2>1
  <2>3. PlannedOver(more, led[i]) = PlannedOver(led, led[i])
    BY <1>1, <1>2, <1>5, <2>2 DEF IsLedger
  <2>4. LiveBefore(more, i) = LiveBefore(led, i) \ {o} /\ LiveBefore(led, i) \ {o} \in SUBSET (1 .. n)
    <3>1. i \in 1 .. n + 1
      BY <2>1
    <3> QED
      BY <1>6, <3>1
  <2>5. \A l : LeftIn(more, l, LiveBefore(more, i)) = LeftIn(led, l, LiveBefore(led, i) \ {o})
    BY <1>5, <2>4
  <2>6. StockIn(more, led[i], LiveBefore(more, i)) = StockIn(led, led[i], LiveBefore(led, i) \ {o})
    BY <2>3, <2>5 DEF StockIn
  <2>7. led[i].draws = Draws(StockIn(led, led[i], LiveBefore(led, i) \ {o}),
                             led[i].at, led[i].request, led[i].policy)
    BY <2>2, LaterPlansStay
  <2>8. DOMAIN led[i].draws \in SUBSET PlannedOver(led, led[i])
    BY <2>2 DEF Kept, HistoryStands
  <2> QED
    BY <2>2, <2>3, <2>6, <2>7, <2>8
<1> QED
  BY <1>3, <1>9, <1>10, <1>11, <1>12 DEF Kept

\* What is planned from layers on their curve is there for every run, leaves
\* them on it, and is what was measured.
LEMMA PlanIsGood ==
    ASSUME NEW bin, DOMAIN bin \in SUBSET Layers, \A l \in DOMAIN bin : OnCurve(l, bin[l]),
           NEW at, NEW request, IsRequest(request), NEW policy, Fits(bin, at, request, policy),
           NEW draws, draws = Draws(bin, at, request, policy)
    PROVE  /\ DOMAIN draws \in SUBSET DOMAIN bin
           /\ \A l \in DOMAIN draws :
                 IsDraw(l, draws[l]) /\ OnCurve(l, After(l, bin[l], draws[l]))
           /\ request.kind = "wet" =>
                 OnTheGrid(request.solids, SumFunction([l \in DOMAIN draws |-> draws[l].solids]),
                           Cardinality(Layers))
<1>1. IsStock(bin)
  <2>1. \A l \in DOMAIN bin : bin[l].solids \in Nat /\ bin[l].dry \in Nat
    BY CurveIsSound
  <2> QED
    BY <2>1 DEF IsStock
<1>2. PICK taken, held : taken = Takings(bin, at, request, policy) /\ held = Holding(bin, at)
  OBVIOUS
<1>3. /\ TakesHeld(bin, at, taken)
      /\ request.kind = "wet" =>
            OnTheGrid(request.solids, Total(taken, DOMAIN taken), Cardinality(held))
  BY <1>1, <1>2, TakingsFit
<1>4. held \in SUBSET DOMAIN bin /\ held \in SUBSET Layers
  BY <1>2 DEF Holding, Eligible
<1>5. draws = [l \in DOMAIN taken |-> Take(l, bin[l], taken[l])]
  BY <1>2 DEF Draws, DrawsOf
<1>6. ASSUME NEW l \in DOMAIN taken
      PROVE  /\ l \in DOMAIN bin
             /\ IsDraw(l, draws[l]) /\ OnCurve(l, After(l, bin[l], draws[l]))
             /\ draws[l].solids = taken[l] /\ taken[l] \in Int
  <2>1. l \in DOMAIN bin /\ l \in Layers /\ taken[l] \in 0 .. bin[l].solids
    BY <1>2, <1>3, <1>4 DEF TakesHeld
  <2>2. OnCurve(l, bin[l]) /\ bin[l].solids \in Nat
    BY <1>1, <2>1 DEF IsStock
  <2>3. PICK s, x : s = bin[l] /\ x = taken[l]
    OBVIOUS
  <2>4. /\ OnCurve(l, After(l, s, Take(l, s, x)))
        /\ Take(l, s, x).solids = x /\ Take(l, s, x).dry \in Nat
        /\ Take(l, s, x).runs \in [DOMAIN Provenance[l] -> Nat]
    <3>1. OnCurve(l, s) /\ x \in 0 .. s.solids
      BY <2>1, <2>2, <2>3
    <3> QED
      BY <2>1, <3>1, CurveTake
  <2>5. draws[l] = Take(l, s, x)
    BY <1>5, <2>3
  <2>6. x \in Int
    BY <2>1, <2>2, <2>3
  <2>7. IsDraw(l, draws[l])
    BY <2>4, <2>5, <2>6 DEF IsDraw
  <2> QED
    BY <2>1, <2>3, <2>4, <2>5, <2>6, <2>7
<1>7. DOMAIN draws = DOMAIN taken
  BY <1>5
<1>8. ASSUME request.kind = "wet"
      PROVE  OnTheGrid(request.solids, SumFunction([l \in DOMAIN draws |-> draws[l].solids]),
                       Cardinality(Layers))
  <2>1. [l \in DOMAIN draws |-> draws[l].solids] = [l \in DOMAIN taken |-> taken[l]]
    BY <1>6, <1>7
  <2>2. SumFunction([l \in DOMAIN draws |-> draws[l].solids]) = Total(taken, DOMAIN taken)
    BY <2>1 DEF Total
  <2>3. DOMAIN taken \in SUBSET Layers /\ IsFiniteSet(DOMAIN taken)
    <3>1. DOMAIN taken \in SUBSET Layers
      BY <1>2, <1>3, <1>4 DEF TakesHeld
    <3> QED
      BY <3>1, PlannerAssumption, FS_Subset
  <2>4. Total(taken, DOMAIN taken) \in Int
    <3>1. \A l \in DOMAIN taken : taken[l] \in Int
      BY <1>6
    <3> QED
      BY <2>3, <3>1, TotalSplit
  <2>5. Cardinality(held) <= Cardinality(Layers) /\ Cardinality(held) \in Nat /\ Cardinality(Layers) \in Nat
    <3>1. IsFiniteSet(Layers) /\ IsFiniteSet(held)
      BY <1>4, PlannerAssumption, FS_Subset
    <3> QED
      BY <1>4, <3>1, FS_Subset, FS_CardinalityType
  <2>6. Grid \in Nat
    BY PlannerAssumption
  <2>7. PICK g, m, n \in Nat : g = Grid /\ m = Cardinality(held) /\ n = Cardinality(Layers)
    BY <2>5, <2>6
  <2>8. g * m <= g * n /\ g * m \in Int /\ g * n \in Int
    <3>1. m <= n
      BY <2>5, <2>7
    <3> QED
      BY <3>1, Scale
  <2>9. PICK t, s \in Int : t = Total(taken, DOMAIN taken) /\ s = request.solids
    BY <1>8, <2>4 DEF IsRequest
  <2>10. t - s < g /\ s - t < g * m
    BY <1>3, <1>8, <2>7, <2>9 DEF OnTheGrid
  <2>11. s - t < g * n
    <3>1. PICK u, v \in Int : u = g * m /\ v = g * n
      OBVIOUS
    <3> QED
      BY <2>8, <2>10, <3>1
  <2>12. OnTheGrid(s, t, n)
    BY <2>7, <2>10, <2>11 DEF OnTheGrid
  <2> QED
    BY <2>2, <2>7, <2>9, <2>12
<1> QED
  BY <1>6, <1>7, <1>8

\* An entry is planned over what the history in force leaves, and extends it.
LEMMA EntryKeeps ==
    ASSUME NEW led, Kept(led), NEW e, e.kind \in DrawKinds, e.at \in Nat,
           e.corrects \in 0 .. Len(led), IsRequest(e.request),
           e.policy = "operator_order" <=> e.request.kind = "ordered",
           PlannedOver(led, e) \in SUBSET Layers,
           Fits(StockIn(led, e, DOMAIN led), e.at, e.request, e.policy),
           e.draws = Draws(StockIn(led, e, DOMAIN led), e.at, e.request, e.policy),
           NEW more, Appends(led, e, more)
    PROVE  /\ Kept(more) /\ IsEntry(e) /\ DOMAIN e.draws \in SUBSET PlannedOver(led, e)
           /\ e.request.kind = "wet" =>
                 OnTheGrid(e.request.solids, SumFunction([l \in DOMAIN e.draws |-> e.draws[l].solids]),
                           Cardinality(Layers))
<1>1. PICK n \in Nat : n = Len(led) /\ DOMAIN led = 1 .. n
  BY DEF Kept, IsLedger
<1>2. PICK bin : bin = StockIn(led, e, DOMAIN led)
  OBVIOUS
<1>3. DOMAIN bin = PlannedOver(led, e) /\ \A l \in DOMAIN bin : bin[l] = LeftIn(led, l, DOMAIN led)
  BY <1>2 DEF StockIn
<1>4. \A l \in Layers : /\ LeftIn(led, l, DOMAIN led) = LeftIn(led, l, LiveBefore(led, n + 1))
                        /\ OnCurve(l, LeftIn(led, l, DOMAIN led))
  <2>1. n + 1 \in 1 .. Len(led) + 1
    BY <1>1
  <2> QED
    BY <1>1, <2>1 DEF Kept, LiveTells, HistoryOnCurve
<1>5. /\ DOMAIN e.draws \in SUBSET DOMAIN bin
      /\ \A l \in DOMAIN e.draws :
            IsDraw(l, e.draws[l]) /\ OnCurve(l, After(l, bin[l], e.draws[l]))
      /\ e.request.kind = "wet" =>
            OnTheGrid(e.request.solids, SumFunction([l \in DOMAIN e.draws |-> e.draws[l].solids]),
                      Cardinality(Layers))
  <2>1. PICK at, request, policy, draws :
            /\ at = e.at /\ request = e.request /\ policy = e.policy /\ draws = e.draws
    OBVIOUS
  <2>2. /\ DOMAIN bin \in SUBSET Layers /\ IsRequest(request)
        /\ Fits(bin, at, request, policy) /\ draws = Draws(bin, at, request, policy)
    BY <1>2, <1>3, <2>1
  <2>3. \A l \in DOMAIN bin : OnCurve(l, bin[l])
    BY <1>3, <1>4, <2>2
  <2>4. /\ DOMAIN draws \in SUBSET DOMAIN bin
        /\ \A l \in DOMAIN draws :
              IsDraw(l, draws[l]) /\ OnCurve(l, After(l, bin[l], draws[l]))
        /\ request.kind = "wet" =>
              OnTheGrid(request.solids, SumFunction([l \in DOMAIN draws |-> draws[l].solids]),
                        Cardinality(Layers))
    BY <2>2, <2>3, PlanIsGood
  <2> QED
    BY <2>1, <2>4
<1>6. IsEntry(e)
  <2>1. DOMAIN e.draws \in SUBSET Layers
    BY <1>3, <1>5
  <2>2. e.corrects \in Nat
    BY <1>1
  <2> QED
    BY <1>5, <2>1, <2>2 DEF IsEntry
<1>7. IsLedger(led) /\ GrowsBy(led, more, n, e) /\ IsLedger(more)
  BY <1>1, <1>6, AppendedGrows DEF Kept
<1>8. /\ DOMAIN more = 1 .. n + 1 /\ Len(more) = n + 1 /\ more[n + 1] = e
      /\ \A i \in 1 .. n : more[i] = led[i]
  BY <1>7 DEF GrowsBy
<1>9. e.kind # "reversal"
  BY DEF DrawKinds
<1>10. /\ \A l : \A A \in SUBSET (1 .. n) : LeftIn(more, l, A) = LeftIn(led, l, A)
       /\ \A m : m.corrects \in 0 .. n => PlannedOver(more, m) = PlannedOver(led, m)
       /\ \A i \in 1 .. n : LiveIn(more, i) <=> LiveIn(led, i)
       /\ LiveIn(more, n + 1)
  BY <1>7, <1>9, OlderSame
<1>11. /\ \A i \in 1 .. n + 1 : /\ LiveBefore(led, i) \in SUBSET (1 .. n)
                                /\ LiveBefore(more, i) = LiveBefore(led, i)
       /\ LiveBefore(more, n + 2) = LiveBefore(led, n + 1) \cup {n + 1}
  BY <1>7, <1>9, BeforeGrows
<1>12. n + 1 \in 1 .. n + 1 /\ n + 1 \notin 1 .. n /\ 1 .. n + 1 = (1 .. n) \cup {n + 1}
       /\ Len(more) + 1 = n + 2
  BY <1>8
<1>13. ASSUME NEW l \in Layers, NEW A \in SUBSET (1 .. n)
       PROVE  LeftIn(more, l, A \cup {n + 1}) =
                IF l \in DOMAIN e.draws THEN After(l, LeftIn(led, l, A), e.draws[l])
                ELSE LeftIn(led, l, A)
  <2>1. PICK k, B : k = n + 1 /\ B = A
    OBVIOUS
  <2>2. DrawWell(more, l, B \cup {k})
    <3>1. B \cup {k} \in SUBSET DOMAIN more
      BY <1>8, <1>12, <2>1
    <3> QED
      BY <1>7, <3>1, LedgerDraws
  <2>3. k \notin B /\ more[k] = e
    BY <1>8, <1>12, <2>1
  <2>4. /\ l \notin DOMAIN more[k].draws => LeftIn(more, l, B \cup {k}) = LeftIn(more, l, B)
        /\ l \in DOMAIN more[k].draws =>
              LeftIn(more, l, B \cup {k}) = After(l, LeftIn(more, l, B), more[k].draws[l])
    BY <2>2, <2>3, LeftWithOne
  <2>5. LeftIn(more, l, A) = LeftIn(led, l, A)
    BY <1>10
  <2> QED
    BY <2>1, <2>3, <2>4, <2>5
<1>14. LiveTells(more)
  <2> SUFFICES ASSUME NEW l \in Layers
               PROVE  LeftIn(more, l, DOMAIN more) = LeftIn(more, l, LiveBefore(more, n + 2))
    BY <1>12 DEF LiveTells
  <2>1. LeftIn(led, l, 1 .. n) = LeftIn(led, l, LiveBefore(led, n + 1))
    BY <1>1, <1>4
  <2>2. 1 .. n \in SUBSET (1 .. n) /\ LiveBefore(led, n + 1) \in SUBSET (1 .. n)
    BY <1>11, <1>12
  <2>3. LeftIn(more, l, (1 .. n) \cup {n + 1}) = LeftIn(more, l, LiveBefore(led, n + 1) \cup {n + 1})
    BY <1>13, <2>1, <2>2
  <2> QED
    BY <1>8, <1>11, <1>12, <2>3
<1>15. HistoryOnCurve(more)
  <2> SUFFICES ASSUME NEW l \in Layers, NEW i \in 1 .. n + 2
               PROVE  OnCurve(l, LeftIn(more, l, LiveBefore(more, i)))
    BY <1>12 DEF HistoryOnCurve
  <2>1. CASE i \in 1 .. n + 1
    <3>1. LeftIn(more, l, LiveBefore(more, i)) = LeftIn(led, l, LiveBefore(led, i))
      BY <1>10, <1>11, <2>1
    <3> QED
      BY <1>1, <2>1, <3>1 DEF Kept, HistoryOnCurve
  <2>2. CASE i = n + 2
    <3>1. LiveBefore(led, n + 1) \in SUBSET (1 .. n)
      BY <1>11, <1>12
    <3>2. LeftIn(more, l, LiveBefore(more, i)) =
            IF l \in DOMAIN e.draws THEN After(l, LeftIn(led, l, LiveBefore(led, n + 1)), e.draws[l])
            ELSE LeftIn(led, l, LiveBefore(led, n + 1))
      BY <1>11, <1>13, <2>2, <3>1
    <3>3. OnCurve(l, LeftIn(led, l, LiveBefore(led, n + 1)))
      BY <1>4
    <3>4. ASSUME l \in DOMAIN e.draws
          PROVE  OnCurve(l, After(l, LeftIn(led, l, LiveBefore(led, n + 1)), e.draws[l]))
      <4>1. bin[l] = LeftIn(led, l, LiveBefore(led, n + 1))
        BY <1>3, <1>4, <1>5, <3>4
      <4> QED
        BY <1>5, <3>4, <4>1
    <3> QED
      BY <3>2, <3>3, <3>4
  <2> QED
    BY <2>1, <2>2
<1>16. HistoryStands(more)
  <2> SUFFICES ASSUME NEW i \in DOMAIN more, LiveIn(more, i)
               PROVE  /\ more[i].draws = Draws(StockIn(more, more[i], LiveBefore(more, i)),
                                               more[i].at, more[i].request, more[i].policy)
                      /\ DOMAIN more[i].draws \in SUBSET PlannedOver(more, more[i])
    BY DEF HistoryStands
  <2>1. ASSUME NEW m, m.corrects \in 0 .. n
        PROVE  /\ PlannedOver(more, m) = PlannedOver(led, m)
               /\ StockIn(more, m, LiveBefore(more, i)) = StockIn(led, m, LiveBefore(led, i))
    <3>1. PlannedOver(more, m) = PlannedOver(led, m)
      BY <1>10, <2>1
    <3>2. \A l : LeftIn(more, l, LiveBefore(more, i)) = LeftIn(led, l, LiveBefore(led, i))
      BY <1>8, <1>10, <1>11
    <3> QED
      BY <3>1, <3>2 DEF StockIn
  <2>2. CASE i \in 1 .. n
    <3>1. more[i] = led[i] /\ LiveIn(led, i) /\ i \in DOMAIN led /\ led[i].corrects \in 0 .. n
      BY <1>1, <1>7, <1>8, <1>10, <2>2 DEF IsLedger
    <3>2. /\ led[i].draws = Draws(StockIn(led, led[i], LiveBefore(led, i)),
                                  led[i].at, led[i].request, led[i].policy)
          /\ DOMAIN led[i].draws \in SUBSET PlannedOver(led, led[i])
      BY <3>1 DEF Kept, HistoryStands
    <3> QED
      BY <2>1, <3>1, <3>2
  <2>3. CASE i = n + 1
    <3>1. e.corrects \in 0 .. n /\ more[i] = e
      BY <1>1, <1>8, <2>3
    <3>2. StockIn(led, e, LiveBefore(led, i)) = bin
      <4>1. \A l \in PlannedOver(led, e) :
                LeftIn(led, l, LiveBefore(led, n + 1)) = LeftIn(led, l, DOMAIN led)
        BY <1>4
      <4> QED
        BY <1>2, <2>3, <4>1 DEF StockIn
    <3> QED
      BY <1>2, <1>3, <1>5, <2>1, <3>1, <3>2
  <2> QED
    BY <1>8, <1>12, <2>2, <2>3
<1> QED
  BY <1>3, <1>5, <1>6, <1>7, <1>14, <1>15, <1>16 DEF Kept

\* A switch draws nothing.
LEMMA SwitchKeeps ==
    ASSUME NEW led, Kept(led), NEW e, IsEntry(e), e.corrects = 0, DOMAIN e.draws = {},
           e.kind \notin DrawKinds \cup {"reversal"}, NEW more, Appends(led, e, more)
    PROVE  Kept(more)
<1>1. PICK n \in Nat : n = Len(led) /\ DOMAIN led = 1 .. n
  BY DEF Kept, IsLedger
<1>7. IsLedger(led) /\ GrowsBy(led, more, n, e) /\ IsLedger(more)
  <2>1. e.corrects \in 0 .. Len(led)
    BY <1>1
  <2> QED
    BY <1>1, <2>1, AppendedGrows DEF Kept
<1>8. /\ DOMAIN more = 1 .. n + 1 /\ Len(more) = n + 1 /\ more[n + 1] = e
      /\ \A i \in 1 .. n : more[i] = led[i]
  BY <1>7 DEF GrowsBy
<1>10. /\ \A l : \A A \in SUBSET (1 .. n) : LeftIn(more, l, A) = LeftIn(led, l, A)
       /\ \A m : m.corrects \in 0 .. n => PlannedOver(more, m) = PlannedOver(led, m)
       /\ \A i \in 1 .. n : LiveIn(more, i) <=> LiveIn(led, i)
  BY <1>7, OlderSame
<1>11. /\ \A i \in 1 .. n + 1 : /\ LiveBefore(led, i) \in SUBSET (1 .. n)
                                /\ LiveBefore(more, i) = LiveBefore(led, i)
       /\ LiveBefore(more, n + 2) = LiveBefore(led, n + 1)
  BY <1>7, BeforeGrows
<1>12. n + 1 \in 1 .. n + 1 /\ n + 1 \notin 1 .. n /\ 1 .. n + 1 = (1 .. n) \cup {n + 1}
       /\ Len(more) + 1 = n + 2
  BY <1>8
<1>13. ~LiveIn(more, n + 1)
  BY <1>8 DEF LiveIn
<1>14. LiveTells(more)
  <2> SUFFICES ASSUME NEW l \in Layers
               PROVE  LeftIn(more, l, DOMAIN more) = LeftIn(more, l, LiveBefore(more, n + 2))
    BY <1>12 DEF LiveTells
  <2>1. LeftIn(led, l, 1 .. n) = LeftIn(led, l, LiveBefore(led, n + 1))
    BY <1>1 DEF Kept, LiveTells
  <2>2. 1 .. n \in SUBSET (1 .. n) /\ LiveBefore(led, n + 1) \in SUBSET (1 .. n)
    BY <1>11, <1>12
  <2>3. LeftIn(more, l, DOMAIN more) = LeftIn(more, l, 1 .. n)
    <3>1. \A i \in DOMAIN more \ (1 .. n) : l \notin DOMAIN more[i].draws
      BY <1>8, <1>12
    <3>2. 1 .. n \in SUBSET DOMAIN more
      BY <1>8, <1>12
    <3> QED
      BY <3>1, <3>2, LeftOfThese
  <2> QED
    BY <1>10, <1>11, <2>1, <2>2, <2>3
<1>15. HistoryOnCurve(more)
  <2> SUFFICES ASSUME NEW l \in Layers, NEW i \in 1 .. n + 2
               PROVE  OnCurve(l, LeftIn(more, l, LiveBefore(more, i)))
    BY <1>12 DEF HistoryOnCurve
  <2>1. PICK k \in 1 .. n + 1 : LiveBefore(more, i) = LiveBefore(led, k)
    <3>1. i \in 1 .. n + 1 \/ i = n + 2
      OBVIOUS
    <3> QED
      BY <1>11, <1>12, <3>1
  <2>2. LeftIn(more, l, LiveBefore(more, i)) = LeftIn(led, l, LiveBefore(led, k))
    BY <1>10, <1>11, <2>1
  <2> QED
    BY <1>1, <2>2 DEF Kept, HistoryOnCurve
<1>16. HistoryStands(more)
  <2> SUFFICES ASSUME NEW i \in DOMAIN more, LiveIn(more, i)
               PROVE  /\ more[i].draws = Draws(StockIn(more, more[i], LiveBefore(more, i)),
                                               more[i].at, more[i].request, more[i].policy)
                      /\ DOMAIN more[i].draws \in SUBSET PlannedOver(more, more[i])
    BY DEF HistoryStands
  <2>1. i \in 1 .. n
    BY <1>8, <1>12, <1>13
  <2>2. more[i] = led[i] /\ LiveIn(led, i) /\ i \in DOMAIN led /\ led[i].corrects \in 0 .. n
    BY <1>1, <1>7, <1>8, <1>10, <2>1 DEF IsLedger
  <2>3. PlannedOver(more, led[i]) = PlannedOver(led, led[i])
    BY <1>10, <2>2
  <2>4. \A l : LeftIn(more, l, LiveBefore(more, i)) = LeftIn(led, l, LiveBefore(led, i))
    BY <1>10, <1>11, <2>1
  <2>5. StockIn(more, led[i], LiveBefore(more, i)) = StockIn(led, led[i], LiveBefore(led, i))
    BY <2>3, <2>4 DEF StockIn
  <2>6. /\ led[i].draws = Draws(StockIn(led, led[i], LiveBefore(led, i)),
                                led[i].at, led[i].request, led[i].policy)
        /\ DOMAIN led[i].draws \in SUBSET PlannedOver(led, led[i])
    BY <2>2 DEF Kept, HistoryStands
  <2> QED
    BY <2>2, <2>3, <2>5, <2>6
<1> QED
  BY <1>7, <1>14, <1>15, <1>16 DEF Kept

-----------------------------------------------------------------------------
(* The bin's ledger.                                                        *)

IsCommand(c) ==
    /\ c = [kind |-> c.kind, at |-> c.at, request |-> c.request, corrects |-> c.corrects]
    /\ c.kind \in DrawKinds /\ c.at \in 1 .. MaxTime
    /\ c.request \in Requests[c.kind] /\ c.corrects \in Nat

IsDrawOf(ls, draws) ==
    \A l \in DOMAIN draws : l \in ls /\ IsDraw(l, draws[l])

\* A movement of a ledger of n entries, with these layers, at this time.
IsMovementOf(m, ls, t, n) ==
    /\ m.kind \in DrawKinds \cup {"reversal", "merge", "split"}
    /\ m.at \in 1 .. t
    /\ m.corrects \in 0 .. n
    /\ m.policy \in Policies \cup {"none"}
    /\ m.request \in AllRequests \cup {NoRequest}
    /\ IsDrawOf(ls, m.draws)
    /\ m.known \subseteq ls /\ m.seen \subseteq m.known
    /\ m.request.kind = "wet" => Measured(m)

ShownIsPlan ==
    preview # NoPreview => IsCommand(preview.command) /\ IsDrawOf(layers, preview.draws)

BinTyped ==
    /\ layers \subseteq Layers
    /\ mode \in Modes /\ drawOrder \in DrawOrders /\ now \in 1 .. MaxTime

LedgerTyped == \A i \in DOMAIN ledger : IsMovementOf(ledger[i], layers, now, Len(ledger))

\* The invariant.
StockInv == BinTyped /\ LedgerTyped /\ ShownIsPlan /\ Kept(ledger)

\* The operators of the model are those of its ledger.
LEMMA OfLedger ==
    /\ \A l, A : Left(l, A) = LeftIn(ledger, l, A)
    /\ \A i : Live(i) <=> LiveIn(ledger, i)
    /\ \A i : EarlierLive(i) = LiveBefore(ledger, i)
    /\ \A m : PlanningLayers(m, m.known) = PlannedOver(ledger, m)
    /\ \A m, A : Stock(PlanningLayers(m, m.known), A) = StockIn(ledger, m, A)
<1>1. \A l, A : Left(l, A) = LeftIn(ledger, l, A)
  BY DEF Left, LeftIn
<1>2. \A i : Live(i) <=> LiveIn(ledger, i)
  BY DEF Live, LiveIn
<1>3. \A i : EarlierLive(i) = LiveBefore(ledger, i)
  BY <1>2 DEF EarlierLive, LiveBefore
<1>4. \A m : PlanningLayers(m, m.known) = PlannedOver(ledger, m)
  <2> TAKE m
  <2>1. PreservesSources(m) <=> PreservesIn(ledger, m)
    BY DEF PreservesSources, PreservesIn
  <2> QED
    BY <2>1 DEF PlanningLayers, PlannedOver
<1>5. \A m, A : Stock(PlanningLayers(m, m.known), A) = StockIn(ledger, m, A)
  BY <1>1, <1>4 DEF Stock, StockIn
<1> QED
  BY <1>1, <1>2, <1>3, <1>4, <1>5

LEMMA RequestsAreTyped ==
    ASSUME NEW c, IsCommand(c) PROVE c.request \in AllRequests /\ IsRequest(c.request)
<1>1. c.request \in Deliveries \cup Losses \/ c.request \in Counts
  BY DEF IsCommand, Requests, DrawKinds
<1>2. c.request \in Deliveries \cup Losses => IsWet(c.request) \/ IsOrdered(c.request)
  BY StockAssumption
<1>3. c.request \in Counts => c.request.kind = "count" /\ c.request.solids \in Nat
  BY StockAssumption
<1> QED
  BY <1>1, <1>2, <1>3 DEF AllRequests, IsRequest, IsWet, IsOrdered

LEMMA PolicyIs ==
    ASSUME NEW c
    PROVE  /\ PolicyOf(c) \in Policies
           /\ PolicyOf(c) = "operator_order" <=> c.request.kind = "ordered"
<1>1. Policy(c.at) \in {"pro_rata", "lifo", "fifo"}
  <2> DEFINE m == ModeAt(c.at)
  <2>1. Policy(c.at) = CASE m = "mix" -> "pro_rata"
                         [] m = "split" /\ drawOrder = "newest_first" -> "lifo"
                         [] OTHER -> "fifo"
    BY DEF Policy
  <2> HIDE DEF m
  <2> QED
    BY <2>1
<1> QED
  BY <1>1 DEF PolicyOf, Policies

\* An entry that may be corrected is in force, and nobody saw what it drew.
LEMMA CorrectedIsUnseen ==
    ASSUME NEW o \in DOMAIN ledger, ledger[o].kind \in DrawKinds,
           \A j \in DOMAIN ledger : ledger[j].corrects # o, NEW drawn, Independent(o, drawn)
    PROVE  LiveIn(ledger, o) /\ Unseen(ledger, o)
<1>1. LiveIn(ledger, o)
  BY DEF LiveIn
<1>2. \A i : Live(i) <=> LiveIn(ledger, i)
  BY OfLedger
<1>3. ASSUME NEW i \in o + 1 .. Len(ledger), LiveIn(ledger, i)
      PROVE  /\ DOMAIN ledger[i].draws \cap DOMAIN ledger[o].draws = {}
             /\ ledger[i].policy # "operator_order" =>
                   \A l \in DOMAIN ledger[o].draws : Placed[l] > ledger[i].at
  <2>1. /\ DOMAIN ledger[i].draws \cap Affected(o, drawn) = {}
        /\ ledger[i].policy # "operator_order" =>
              \A l \in Affected(o, drawn) : Placed[l] > ledger[i].at
    BY <1>2, <1>3 DEF Independent
  <2>2. DOMAIN ledger[o].draws \in SUBSET Affected(o, drawn)
    BY DEF Affected
  <2> QED
    BY <2>1, <2>2
<1> QED
  BY <1>1, <1>3 DEF Unseen

\* The reversal of an entry in force.
LEMMA ReversalIs ==
    ASSUME StockInv, NEW o \in DOMAIN ledger, LiveIn(ledger, o), NEW at \in 1 .. now,
           NEW e, e = Reversal(o, at)
    PROVE  /\ IsEntry(e) /\ Undoes(e, ledger[o], o) /\ e.corrects = o
           /\ IsMovementOf(e, layers, now, Len(ledger))
<1>1. PICK d : d = ledger[o].draws
  OBVIOUS
<1>2. IsDrawOf(layers, d) /\ layers \subseteq Layers
  BY <1>1 DEF StockInv, LedgerTyped, IsMovementOf, BinTyped
<1>3. /\ e.kind = "reversal" /\ e.at = at /\ e.corrects = o /\ e.request = NoRequest
      /\ e.policy = "none" /\ e.known = layers /\ e.seen = {}
      /\ e.draws = [l \in DOMAIN d |->
            [solids |-> -d[l].solids, dry |-> -d[l].dry,
             runs |-> [k \in DOMAIN d[l].runs |-> -d[l].runs[k]]]]
  BY <1>1 DEF Reversal
<1>4. ASSUME NEW l \in DOMAIN d
      PROVE  /\ l \in layers /\ IsDraw(l, e.draws[l])
             /\ e.draws[l].solids = -d[l].solids /\ e.draws[l].dry = -d[l].dry
             /\ \A k \in DOMAIN Provenance[l] : e.draws[l].runs[k] = -d[l].runs[k]
  <2>1. IsDraw(l, d[l]) /\ l \in layers
    BY <1>2 DEF IsDrawOf
  <2>2. DOMAIN d[l].runs = DOMAIN Provenance[l] /\ \A k \in DOMAIN Provenance[l] : d[l].runs[k] \in Int
    BY <2>1 DEF IsDraw
  <2>3. PICK x, y \in Int : x = d[l].solids /\ y = d[l].dry
    BY <2>1 DEF IsDraw
  <2>4. PICK r : r = [k \in DOMAIN Provenance[l] |-> -d[l].runs[k]]
    OBVIOUS
  <2>5. r \in [DOMAIN Provenance[l] -> Int]
    BY <2>2, <2>4
  <2>6. e.draws[l] = [solids |-> -x, dry |-> -y, runs |-> r]
    BY <1>3, <2>2, <2>3, <2>4
  <2> QED
    BY <2>1, <2>3, <2>4, <2>5, <2>6 DEF IsDraw
<1>5. DOMAIN e.draws = DOMAIN d
  BY <1>3
<1>6. PICK n \in Nat : n = Len(ledger) /\ DOMAIN ledger = 1 .. n
  BY DEF StockInv, Kept, IsLedger
<1>7. o \in 1 .. n /\ at \in Nat
  BY <1>6 DEF StockInv, BinTyped
<1>8. IsEntry(e)
  <2>1. e.at \in Nat /\ e.corrects \in Nat
    BY <1>3, <1>6, <1>7
  <2>2. DOMAIN e.draws \in SUBSET Layers
    BY <1>2, <1>5 DEF IsDrawOf
  <2>3. \A l \in DOMAIN e.draws : IsDraw(l, e.draws[l])
    BY <1>4, <1>5
  <2>4. e.kind \notin DrawKinds
    BY <1>3 DEF DrawKinds
  <2> QED
    BY <2>1, <2>2, <2>3, <2>4 DEF IsEntry
<1>9. Undoes(e, ledger[o], o)
  BY <1>1, <1>3, <1>4, <1>5 DEF Undoes
<1>10. IsDrawOf(layers, e.draws)
  BY <1>4, <1>5 DEF IsDrawOf
<1>11. e.request.kind # "wet"
  BY <1>3 DEF NoRequest
<1>12. IsMovementOf(e, layers, now, Len(ledger))
  BY <1>3, <1>6, <1>7, <1>10, <1>11 DEF IsMovementOf
<1> QED
  BY <1>3, <1>8, <1>9, <1>12

\* The ledger a command finds: its own, or with the reversal of what it corrects.
Found(c, mid) ==
    \/ c.corrects = 0 /\ mid = ledger
    \/ /\ c.corrects # 0
       /\ \E at \in 1 .. now : Appends(ledger, Reversal(c.corrects, at), mid)

\* What is prepared can be appended.
LEMMA PreparedKeeps ==
    ASSUME StockInv, NEW c, IsCommand(c), Prepared(c), NEW mid, Found(c, mid),
           NEW e, e = Entry(c), NEW more, Appends(mid, e, more)
    PROVE  /\ Kept(mid) /\ Kept(more)
           /\ IsMovementOf(e, layers, now, Len(ledger))
<1>1. PICK n \in Nat : n = Len(ledger) /\ DOMAIN ledger = 1 .. n
  BY DEF StockInv, Kept, IsLedger
<1>2. PICK o : o = c.corrects
  OBVIOUS
<1>3. /\ e.kind = c.kind /\ e.at = c.at /\ e.corrects = o /\ e.request = c.request
      /\ e.policy = PolicyOf(c) /\ e.draws = Planned(c) /\ e.known = layers
      /\ e.seen = {l \in layers : Placed[l] <= c.at}
  BY <1>2 DEF Entry
<1>4. /\ c.at <= now /\ c.at \in 1 .. MaxTime /\ now \in 1 .. MaxTime /\ MaxTime \in Nat
      /\ c.kind \in DrawKinds /\ c.request \in AllRequests /\ IsRequest(c.request)
  BY RequestsAreTyped, StockAssumption DEF Prepared, Occurred, IsCommand, StockInv, BinTyped
<1>5. o # 0 => /\ o \in DOMAIN ledger /\ ledger[o].kind \in DrawKinds
               /\ \A j \in DOMAIN ledger : ledger[j].corrects # o
               /\ Independent(o, DOMAIN Planned(c))
  BY <1>2, <1>4 DEF Prepared, Correctable
<1>6. o \in 0 .. n
  BY <1>1, <1>5
<1>7. PlanningLayers(c, layers) = PlannedOver(ledger, e)
  <2>1. PreservesSources(c) <=> PreservesIn(ledger, e)
    BY <1>2, <1>3 DEF PreservesSources, PreservesIn
  <2> QED
    BY <1>2, <1>3, <2>1 DEF PlanningLayers, PlannedOver
<1>8. PlannedOver(ledger, e) \in SUBSET layers /\ layers \in SUBSET Layers
  <2>1. layers \in SUBSET Layers
    BY DEF StockInv, BinTyped
  <2>2. PreservesIn(ledger, e) => DOMAIN ledger[o].draws \in SUBSET layers
    <3>1. PreservesIn(ledger, e) => o # 0
      BY <1>3 DEF PreservesIn
    <3>2. o # 0 => IsDrawOf(layers, ledger[o].draws)
      BY <1>5 DEF StockInv, LedgerTyped, IsMovementOf
    <3> QED
      BY <3>1, <3>2 DEF IsDrawOf
  <2> QED
    BY <1>3, <2>1, <2>2 DEF PlannedOver
<1>9. PICK bin : bin = StockIn(ledger, e, DOMAIN ledger \ {o})
  OBVIOUS
<1>10. bin = Stock(PlanningLayers(c, layers), DOMAIN ledger \ {c.corrects})
  <2>1. \A l, A : Left(l, A) = LeftIn(ledger, l, A)
    BY OfLedger
  <2> QED
    BY <1>2, <1>7, <1>9, <2>1 DEF Stock, StockIn
<1>11. Planned(c) = Draws(bin, c.at, c.request, PolicyOf(c)) /\ Fits(bin, c.at, c.request, PolicyOf(c))
  BY <1>10 DEF Planned, Prepared, Plans
<1>12. /\ Kept(mid) /\ o \in 0 .. Len(mid) /\ PlannedOver(mid, e) = PlannedOver(ledger, e)
       /\ \A l \in Layers : LeftIn(mid, l, DOMAIN mid) = LeftIn(ledger, l, DOMAIN ledger \ {o})
  <2>1. CASE o = 0
    <3>1. mid = ledger
      BY <1>2, <2>1 DEF Found
    <3>2. DOMAIN ledger \ {0} = DOMAIN ledger
      BY <1>1
    <3> QED
      BY <1>1, <1>6, <2>1, <3>1, <3>2 DEF StockInv
  <2>2. CASE o # 0
    <3>1. PICK at \in 1 .. now : Appends(ledger, Reversal(o, at), mid)
      BY <1>2, <2>2 DEF Found
    <3>2. PICK r : r = Reversal(o, at)
      OBVIOUS
    <3>3. o \in DOMAIN ledger /\ LiveIn(ledger, o) /\ Unseen(ledger, o)
      BY <1>5, <2>2, CorrectedIsUnseen
    <3>4. IsEntry(r) /\ Undoes(r, ledger[o], o) /\ r.corrects = o
      BY <3>2, <3>3, ReversalIs
    <3>5. Kept(mid) /\ \A l \in Layers : LeftIn(mid, l, DOMAIN mid) = LeftIn(ledger, l, DOMAIN ledger \ {o})
      <4>1. Kept(ledger) /\ Appends(ledger, r, mid)
        BY <3>1, <3>2 DEF StockInv
      <4> QED
        BY <3>3, <3>4, <4>1, ReversalKeeps
    <3>6. IsLedger(ledger) /\ GrowsBy(ledger, mid, n, r)
      <4>1. IsLedger(ledger) /\ r.corrects \in 0 .. Len(ledger) /\ Appends(ledger, r, mid)
        BY <1>1, <1>6, <3>1, <3>2, <3>4 DEF StockInv, Kept
      <4> QED
        BY <1>1, <3>4, <4>1, AppendedGrows
    <3>7. PlannedOver(mid, e) = PlannedOver(ledger, e)
      BY <1>3, <1>6, <3>6, OlderSame
    <3>8. o \in 0 .. Len(mid)
      BY <1>6, <3>6 DEF GrowsBy
    <3> QED
      BY <3>5, <3>7, <3>8
  <2> QED
    BY <2>1, <2>2
<1>13. StockIn(mid, e, DOMAIN mid) = bin
  <2>1. \A l \in PlannedOver(ledger, e) : LeftIn(mid, l, DOMAIN mid) = LeftIn(ledger, l, DOMAIN ledger \ {o})
    BY <1>8, <1>12
  <2> QED
    BY <1>9, <1>12, <2>1 DEF StockIn
<1>14. /\ Kept(more) /\ IsEntry(e) /\ DOMAIN e.draws \in SUBSET PlannedOver(mid, e)
       /\ e.request.kind = "wet" =>
             OnTheGrid(e.request.solids, SumFunction([l \in DOMAIN e.draws |-> e.draws[l].solids]),
                       Cardinality(Layers))
  <2>1. e.kind \in DrawKinds /\ e.at \in Nat /\ e.corrects \in 0 .. Len(mid) /\ IsRequest(e.request)
    BY <1>3, <1>4, <1>12
  <2>2. e.policy = "operator_order" <=> e.request.kind = "ordered"
    BY <1>3, PolicyIs
  <2>3. PlannedOver(mid, e) \in SUBSET Layers
    BY <1>8, <1>12
  <2>4. /\ Fits(StockIn(mid, e, DOMAIN mid), e.at, e.request, e.policy)
        /\ e.draws = Draws(StockIn(mid, e, DOMAIN mid), e.at, e.request, e.policy)
    BY <1>3, <1>11, <1>13
  <2> QED
    BY <1>12, <2>1, <2>2, <2>3, <2>4, EntryKeeps
<1>15. IsMovementOf(e, layers, now, Len(ledger))
  <2>1. IsDrawOf(layers, e.draws)
    BY <1>8, <1>12, <1>14 DEF IsDrawOf, IsEntry
  <2>2. e.request.kind = "wet" => Measured(e)
    BY <1>14 DEF OnTheGrid, Measured, SolidsTaken
  <2>3. e.at \in 1 .. now
    BY <1>3, <1>4
  <2>4. e.policy \in Policies
    BY <1>3, PolicyIs
  <2> QED
    BY <1>1, <1>3, <1>4, <1>6, <2>1, <2>2, <2>3, <2>4 DEF IsMovementOf
<1> QED
  BY <1>12, <1>14, <1>15

-----------------------------------------------------------------------------
(* The steps.                                                               *)

LEMMA AppendIs ==
    ASSUME NEW led, IsLedger(led), NEW e, NEW more, Appends(led, e, more)
    PROVE  GrowsBy(led, more, Len(led), e)
<1>1. PICK S : led \in Seq(S)
  BY DEF IsLedger
<1>2. led \in Seq(S \cup {e}) /\ e \in S \cup {e}
  BY <1>1
<1>3. PICK n \in Nat : n = Len(led) /\ DOMAIN led = 1 .. n
  BY <1>1
<1>4. /\ more \in Seq(S \cup {e}) /\ Len(more) = n + 1 /\ DOMAIN more = 1 .. n + 1
      /\ \A i \in 1 .. n : more[i] = led[i]
      /\ more[n + 1] = e
  BY <1>2, <1>3, AppendProperties DEF Appends
<1> QED
  BY <1>3, <1>4 DEF GrowsBy

TypedAs(led, ls, t) == \A i \in DOMAIN led : IsMovementOf(led[i], ls, t, Len(led))

LEMMA MovementLasts ==
    ASSUME NEW m, NEW ls, NEW more, ls \in SUBSET more, NEW t \in Nat, NEW u \in Nat, t <= u,
           NEW n \in Nat, NEW k \in Nat, n <= k, IsMovementOf(m, ls, t, n)
    PROVE  IsMovementOf(m, more, u, k)
<1>1. m.at \in 1 .. u
  <2>1. m.at \in 1 .. t
    BY DEF IsMovementOf
  <2> QED
    BY <2>1
<1>2. m.corrects \in 0 .. k
  <2>1. m.corrects \in 0 .. n
    BY DEF IsMovementOf
  <2> QED
    BY <2>1
<1>3. IsDrawOf(more, m.draws) /\ m.known \in SUBSET more
  BY DEF IsMovementOf, IsDrawOf
<1> QED
  BY <1>1, <1>2, <1>3 DEF IsMovementOf

LEMMA TypedGrows ==
    ASSUME NEW led, IsLedger(led), NEW ls, NEW t \in Nat, TypedAs(led, ls, t), NEW e,
           IsMovementOf(e, ls, t, Len(led)), NEW more, Appends(led, e, more)
    PROVE  TypedAs(more, ls, t)
<1>1. PICK n \in Nat : n = Len(led) /\ DOMAIN led = 1 .. n
  BY DEF IsLedger
<1>2. GrowsBy(led, more, n, e)
  BY <1>1, AppendIs
<1>3. /\ Len(more) = n + 1 /\ DOMAIN more = 1 .. n + 1 /\ more[n + 1] = e
      /\ \A i \in 1 .. n : more[i] = led[i]
  BY <1>2 DEF GrowsBy
<1>4. ASSUME NEW m, IsMovementOf(m, ls, t, n) PROVE IsMovementOf(m, ls, t, n + 1)
  <2>1. n + 1 \in Nat /\ n <= n + 1 /\ t <= t /\ ls \in SUBSET ls
    OBVIOUS
  <2> QED
    BY <1>4, <2>1, MovementLasts
<1>5. ASSUME NEW i \in 1 .. n PROVE IsMovementOf(more[i], ls, t, n)
  BY <1>1, <1>3, <1>5 DEF TypedAs
<1>6. ASSUME NEW i \in 1 .. n + 1 PROVE IsMovementOf(more[i], ls, t, n)
  <2>1. i \in 1 .. n \/ i = n + 1
    BY <1>1
  <2> QED
    BY <1>1, <1>3, <1>5, <2>1
<1> QED
  BY <1>3, <1>4, <1>6 DEF TypedAs

\* An entry that may follow keeps the ledger and its types.
LEMMA GrownIsTyped ==
    ASSUME StockInv, NEW e, IsMovementOf(e, layers, now, Len(ledger)), NEW more,
           Appends(ledger, e, more)
    PROVE  TypedAs(more, layers, now)
<1>1. IsLedger(ledger) /\ now \in Nat /\ TypedAs(ledger, layers, now)
  BY StockAssumption DEF StockInv, Kept, BinTyped, LedgerTyped, TypedAs
<1> QED
  BY <1>1, TypedGrows

LEMMA TwoMore ==
    ASSUME NEW S, NEW s \in Seq(S), NEW r \in S, NEW e \in S
    PROVE  s \o <<e>> = Append(s, e) /\ s \o <<r, e>> = Append(Append(s, r), e)
<1>1. \A q \in Seq(S) : q \o <<e>> = Append(q, e)
  BY AppendIsConcat
<1>2. s \o <<r>> = Append(s, r) /\ Append(s, r) \in Seq(S)
  BY AppendIsConcat, AppendProperties
<1>3. <<r, e>> = <<r>> \o <<e>> /\ <<r>> \in Seq(S) /\ <<e>> \in Seq(S)
  <2>1. PICK p, q : p = <<r>> /\ q = <<e>>
    OBVIOUS
  <2>2. p \in Seq(S) /\ q \in Seq(S) /\ Len(p) = 1 /\ Len(q) = 1 /\ p[1] = r /\ q[1] = e
    BY <2>1
  <2>3. /\ p \o q \in Seq(S) /\ Len(p \o q) = 2
        /\ \A i \in 1 .. 2 : (p \o q)[i] = IF i <= 1 THEN p[i] ELSE q[i - 1]
    BY <2>2, ConcatProperties
  <2>4. (p \o q)[1] = r /\ (p \o q)[2] = e
    BY <2>2, <2>3
  <2>5. <<r, e>> \in Seq(S) /\ Len(<<r, e>>) = 2 /\ <<r, e>>[1] = r /\ <<r, e>>[2] = e
    OBVIOUS
  <2>6. p \o q = <<r, e>>
    <3>1. \A i \in 1 .. Len(p \o q) : (p \o q)[i] = <<r, e>>[i]
      BY <2>3, <2>4, <2>5
    <3> QED
      BY <2>3, <2>5, <3>1, SeqEqual
  <2> QED
    BY <2>1, <2>2, <2>6
<1>4. s \o <<r, e>> = (s \o <<r>>) \o <<e>>
  BY <1>3, ConcatAssociative
<1> QED
  BY <1>1, <1>2, <1>4

\* The ledger a command finds is there to be found, and typed.
LEMMA FoundIs ==
    ASSUME StockInv, NEW c, IsCommand(c), Prepared(c), NEW at \in 1 .. now, NEW mid,
           IF c.corrects = 0 THEN mid = ledger ELSE Appends(ledger, Reversal(c.corrects, at), mid)
    PROVE  Found(c, mid) /\ TypedAs(mid, layers, now)
<1>1. CASE c.corrects = 0
  BY <1>1 DEF Found, StockInv, LedgerTyped, TypedAs
<1>2. CASE c.corrects # 0
  <2>1. Appends(ledger, Reversal(c.corrects, at), mid)
    BY <1>2
  <2>2. PICK o, r : o = c.corrects /\ r = Reversal(o, at)
    OBVIOUS
  <2>3. /\ o \in DOMAIN ledger /\ ledger[o].kind \in DrawKinds
        /\ \A j \in DOMAIN ledger : ledger[j].corrects # o
        /\ Independent(o, DOMAIN Planned(c))
    BY <1>2, <2>2 DEF Prepared, Correctable, IsCommand
  <2>4. LiveIn(ledger, o)
    BY <2>3, CorrectedIsUnseen
  <2>5. IsMovementOf(r, layers, now, Len(ledger))
    BY <2>2, <2>3, <2>4, ReversalIs
  <2>6. TypedAs(mid, layers, now)
    BY <2>1, <2>2, <2>5, GrownIsTyped
  <2> QED
    BY <1>2, <2>1, <2>6 DEF Found
<1> QED
  BY <1>1, <1>2

LEMMA PersistKeeps ==
    ASSUME StockInv, NEW c, IsCommand(c), Persist(c)
    PROVE  Kept(ledger') /\ TypedAs(ledger', layers, now)
<1> DEFINE at == IF c.corrects # 0 /\ c.kind = "delivery" THEN ledger[c.corrects].at ELSE c.at
           r == Reversal(c.corrects, at)
           e == Entry(c)
           mid == IF c.corrects = 0 THEN ledger ELSE Append(ledger, r)
<1>1. Prepared(c)
  BY DEF Persist
<1>2. ledger' = Append(mid, e)
  <2>1. PICK S : ledger \in Seq(S)
    BY DEF StockInv, Kept, IsLedger
  <2>2. ledger \in Seq(S \cup {r, e}) /\ r \in S \cup {r, e} /\ e \in S \cup {r, e}
    BY <2>1
  <2>3. ledger \o <<e>> = Append(ledger, e) /\ ledger \o <<r, e>> = Append(Append(ledger, r), e)
    BY <2>2, TwoMore
  <2>4. c.corrects = 0 => ledger' = ledger \o <<e>>
    BY DEF Persist
  <2>5. c.corrects # 0 => ledger' = ledger \o <<r, e>>
    BY DEF Persist
  <2> HIDE DEF r, e
  <2> QED
    BY <2>3, <2>4, <2>5
<1>3. at \in 1 .. now
  <2>1. c.at \in 1 .. now
    <3>1. c.at <= now /\ c.at \in 1 .. MaxTime /\ now \in 1 .. MaxTime
      BY <1>1 DEF Prepared, Occurred, IsCommand, StockInv, BinTyped
    <3> QED
      BY <3>1, StockAssumption
  <2>2. c.corrects # 0 => ledger[c.corrects].at \in 1 .. now
    <3>1. c.corrects # 0 => c.corrects \in DOMAIN ledger
      BY <1>1 DEF Prepared, Correctable
    <3> QED
      BY <3>1 DEF StockInv, LedgerTyped, IsMovementOf
  <2> QED
    BY <2>1, <2>2
<1>4. IF c.corrects = 0 THEN mid = ledger ELSE Appends(ledger, Reversal(c.corrects, at), mid)
  BY DEF Appends
<1>5. PICK x, m, n : x = at /\ m = mid /\ n = e
  OBVIOUS
<1>6. /\ x \in 1 .. now /\ n = Entry(c) /\ ledger' = Append(m, n)
      /\ IF c.corrects = 0 THEN m = ledger ELSE Appends(ledger, Reversal(c.corrects, x), m)
  BY <1>2, <1>3, <1>4, <1>5
<1> HIDE DEF at, r, e, mid
<1>7. Found(c, m) /\ TypedAs(m, layers, now)
  BY <1>1, <1>6, FoundIs
<1>8. PICK more : more = ledger'
  OBVIOUS
<1>9. Appends(m, n, more)
  BY <1>6, <1>8 DEF Appends
<1>10. Kept(m) /\ Kept(more) /\ IsMovementOf(n, layers, now, Len(ledger))
  BY <1>1, <1>6, <1>7, <1>9, PreparedKeeps
<1>11. PICK k, h \in Nat : k = Len(ledger) /\ h = Len(m)
  BY <1>10 DEF StockInv, Kept, IsLedger
<1>12. k <= h
  <2>1. CASE c.corrects = 0
    BY <1>6, <1>11, <2>1
  <2>2. CASE c.corrects # 0
    <3>1. GrowsBy(ledger, m, k, Reversal(c.corrects, x))
      BY <1>6, <1>11, <2>2, AppendIs DEF StockInv, Kept
    <3> QED
      BY <1>11, <3>1 DEF GrowsBy
  <2> QED
    BY <2>1, <2>2
<1>13. now \in Nat
  BY StockAssumption DEF StockInv, BinTyped
<1>14. IsMovementOf(n, layers, now, h)
  <2>1. now <= now /\ layers \in SUBSET layers
    BY <1>13
  <2> QED
    BY <1>10, <1>11, <1>12, <1>13, <2>1, MovementLasts
<1>15. TypedAs(more, layers, now)
  BY <1>7, <1>9, <1>10, <1>11, <1>13, <1>14, TypedGrows DEF Kept
<1> QED
  BY <1>8, <1>10, <1>15

\* The bin's layers and clock only grow.
LEMMA EntriesLast ==
    ASSUME StockInv, NEW led, TypedAs(led, layers, now), IsLedger(led), layers \in SUBSET layers',
           now' \in Nat, now <= now', ledger' = led
    PROVE  LedgerTyped'
<1>1. PICK n \in Nat : n = Len(led) /\ DOMAIN led = 1 .. n
  BY DEF IsLedger
<1>2. now \in Nat /\ n <= n
  BY <1>1, StockAssumption DEF StockInv, BinTyped
<1>3. PICK ls, t : ls = layers' /\ t = now'
  OBVIOUS
<1>4. ASSUME NEW i \in DOMAIN led PROVE IsMovementOf(led[i], ls, t, n)
  <2>1. IsMovementOf(led[i], layers, now, n)
    BY <1>1 DEF TypedAs
  <2> QED
    BY <1>1, <1>2, <1>3, <2>1, MovementLasts
<1>5. \A i \in DOMAIN led : IsMovementOf(led[i], layers', now', Len(led))
  BY <1>1, <1>3, <1>4
<1> QED
  BY <1>5 DEF LedgerTyped

\* What leaves the ledger as it is.
LEMMA QuietKeeps ==
    ASSUME StockInv, ledger' = ledger, BinTyped', layers \in SUBSET layers', now <= now',
           ShownIsPlan'
    PROVE  StockInv'
<1>1. TypedAs(ledger, layers, now) /\ IsLedger(ledger) /\ now' \in Nat
  BY StockAssumption DEF StockInv, LedgerTyped, TypedAs, Kept, BinTyped
<1>2. LedgerTyped'
  BY <1>1, EntriesLast
<1>3. Kept(ledger')
  BY DEF StockInv
<1> QED
  BY <1>2, <1>3 DEF StockInv

\* What extends it.
LEMMA PostedKeeps ==
    ASSUME StockInv, NEW led, ledger' = led, Kept(led), TypedAs(led, layers, now),
           layers' = layers, now' = now, BinTyped', ShownIsPlan'
    PROVE  StockInv'
<1>1. IsLedger(led) /\ now \in Nat
  BY StockAssumption DEF StockInv, Kept, BinTyped
<1>2. now' \in Nat /\ now <= now' /\ layers \in SUBSET layers'
  BY <1>1
<1>3. LedgerTyped'
  BY <1>1, <1>2, EntriesLast
<1> QED
  BY <1>3 DEF StockInv

LEMMA CommandsAre ==
    ASSUME StockInv, NEW c \in Commands PROVE IsCommand(c)
<1>1. PICK k \in DrawKinds : c \in [kind : {k}, at : 1 .. MaxTime, request : Requests[k],
                                    corrects : {0} \cup DOMAIN ledger]
  BY DEF Commands
<1>2. DOMAIN ledger \in SUBSET Nat
  <2>1. PICK S : ledger \in Seq(S)
    BY DEF StockInv, Kept, IsLedger
  <2> QED
    BY <2>1
<1> QED
  BY <1>1, <1>2 DEF IsCommand

\* The command of a preview would draw from layers that are there.
LEMMA ShownIs ==
    ASSUME StockInv, NEW c, IsCommand(c), Prepared(c)
    PROVE  IsDrawOf(layers, Planned(c))
<1> DEFINE r == Reversal(c.corrects, now)
<1>1. PICK mid : mid = IF c.corrects = 0 THEN ledger ELSE Append(ledger, r)
  OBVIOUS
<1>2. IF c.corrects = 0 THEN mid = ledger ELSE Appends(ledger, Reversal(c.corrects, now), mid)
  BY <1>1 DEF Appends
<1>3. now \in 1 .. now
  BY StockAssumption DEF StockInv, BinTyped
<1> HIDE DEF r
<1>4. Found(c, mid)
  BY <1>2, <1>3, FoundIs
<1>5. PICK e, more : e = Entry(c) /\ Appends(mid, e, more)
  BY DEF Appends
<1>6. IsMovementOf(e, layers, now, Len(ledger))
  BY <1>4, <1>5, PreparedKeeps
<1> QED
  BY <1>5, <1>6 DEF IsMovementOf, Entry

\* A delivery or loss is removed.
LEMMA RemovalKeeps ==
    ASSUME StockInv, NEW o \in DOMAIN ledger, RemoveEntry(o) PROVE StockInv'
<1>1. PICK at, r : at = ledger[o].at /\ r = Reversal(o, at)
  OBVIOUS
<1>2. at \in 1 .. now
  BY <1>1 DEF StockInv, LedgerTyped, IsMovementOf
<1>3. /\ ledger[o].kind \in DrawKinds /\ \A j \in DOMAIN ledger : ledger[j].corrects # o
      /\ Independent(o, {})
  BY DEF RemoveEntry, DrawKinds
<1>4. LiveIn(ledger, o) /\ Unseen(ledger, o)
  BY <1>3, CorrectedIsUnseen
<1>5. /\ IsEntry(r) /\ Undoes(r, ledger[o], o)
      /\ IsMovementOf(r, layers, now, Len(ledger))
  BY <1>1, <1>2, <1>4, ReversalIs
<1>6. PICK more : more = ledger'
  OBVIOUS
<1>7. Appends(ledger, r, more) /\ Kept(ledger)
  BY <1>1, <1>6 DEF RemoveEntry, Appends, StockInv
<1>8. Kept(more)
  BY <1>4, <1>5, <1>7, ReversalKeeps
<1>9. TypedAs(more, layers, now)
  BY <1>5, <1>7, GrownIsTyped
<1>10. UNCHANGED <<layers, mode, drawOrder, now, preview>>
  BY DEF RemoveEntry
<1>11. BinTyped' /\ ShownIsPlan'
  BY <1>10 DEF StockInv, BinTyped, ShownIsPlan
<1> QED
  BY <1>6, <1>8, <1>9, <1>10, <1>11, PostedKeeps

\* The bin is merged or split.
LEMMA SwitchedKeeps ==
    ASSUME StockInv, NEW kind \in {"merge", "split"}, NEW at \in 1 .. now, Switch(kind, at), now' = now
    PROVE  StockInv'
<1>1. UNCHANGED <<layers, drawOrder, now, preview>> /\ mode' \in Modes
  BY DEF Switch, Modes
<1>2. BinTyped' /\ ShownIsPlan'
  BY <1>1 DEF StockInv, BinTyped, ShownIsPlan
<1>3. now \in Nat
  BY StockAssumption DEF StockInv, BinTyped
<1>4. CASE UNCHANGED ledger
  BY <1>1, <1>2, <1>3, <1>4, QuietKeeps
<1>5. CASE ledger' = Append(ledger, ModeChange(kind, at))
  <2>1. PICK e, more : e = ModeChange(kind, at) /\ more = ledger'
    OBVIOUS
  <2>2. /\ e.kind = kind /\ e.at = at /\ e.corrects = 0 /\ e.request = NoRequest
        /\ e.policy = "none" /\ e.draws = <<>> /\ e.known = layers /\ e.seen = {}
    BY <2>1 DEF ModeChange
  <2>3. DOMAIN e.draws = {} /\ e.kind \notin DrawKinds \cup {"reversal"} /\ e.at \in Nat
    BY <1>3, <2>2 DEF DrawKinds
  <2>4. IsEntry(e)
    BY <2>2, <2>3 DEF IsEntry
  <2>5. IsMovementOf(e, layers, now, Len(ledger))
    <3>1. PICK n \in Nat : n = Len(ledger)
      BY DEF StockInv, Kept, IsLedger
    <3>2. e.request.kind # "wet" /\ IsDrawOf(layers, e.draws) /\ e.corrects \in 0 .. n
      BY <2>2, <2>3, <3>1 DEF NoRequest, IsDrawOf
    <3> QED
      BY <2>2, <3>1, <3>2 DEF IsMovementOf
  <2>6. Appends(ledger, e, more) /\ Kept(ledger)
    BY <1>5, <2>1 DEF Appends, StockInv
  <2>7. Kept(more)
    BY <2>2, <2>3, <2>4, <2>6, SwitchKeeps
  <2>8. TypedAs(more, layers, now)
    BY <2>5, <2>6, GrownIsTyped
  <2> QED
    BY <1>1, <1>2, <2>1, <2>7, <2>8, PostedKeeps
<1> QED
  BY <1>4, <1>5 DEF Switch

LEMMA StepKeepsStock ==
    ASSUME StockInv, [Next]_vars PROVE StockInv'
<1>0. now \in Nat /\ now <= now /\ layers \in SUBSET layers
  BY StockAssumption DEF StockInv, BinTyped
<1>1. ASSUME NEW c, IsCommand(c), Persist(c), ShownIsPlan',
             UNCHANGED <<layers, mode, drawOrder, now>>
      PROVE  StockInv'
  <2>1. Kept(ledger') /\ TypedAs(ledger', layers, now)
    BY <1>1, PersistKeeps
  <2>2. BinTyped'
    BY <1>1 DEF StockInv, BinTyped
  <2>3. PICK led : led = ledger'
    OBVIOUS
  <2> QED
    BY <1>1, <2>1, <2>2, <2>3, PostedKeeps
<1>2. ASSUME NEW c \in Commands, Post(c) PROVE StockInv'
  <2>1. IsCommand(c) /\ Persist(c) /\ UNCHANGED <<layers, mode, drawOrder, now, preview>>
    BY <1>2, CommandsAre DEF Post
  <2>2. ShownIsPlan'
    BY <2>1 DEF StockInv, ShownIsPlan
  <2> QED
    BY <1>1, <2>1, <2>2
<1>3. ASSUME NEW c \in Commands, Show(c) PROVE StockInv'
  <2>1. IsCommand(c) /\ Prepared(c) /\ UNCHANGED <<layers, ledger, mode, drawOrder, now>>
    BY <1>3, CommandsAre DEF Show
  <2>2. preview'.command = c /\ preview'.draws = Planned(c)
    BY <1>3 DEF Show
  <2>3. ShownIsPlan'
    BY <2>1, <2>2, ShownIs DEF ShownIsPlan
  <2>4. BinTyped'
    BY <2>1 DEF StockInv, BinTyped
  <2> QED
    BY <1>0, <2>1, <2>3, <2>4, QuietKeeps
<1>4. ASSUME PostShown PROVE StockInv'
  <2>1. /\ IsCommand(preview.command) /\ Persist(preview.command) /\ preview' = NoPreview
        /\ UNCHANGED <<layers, mode, drawOrder, now>>
    BY <1>4 DEF PostShown, StockInv, ShownIsPlan
  <2>2. ShownIsPlan'
    BY <2>1 DEF ShownIsPlan
  <2> QED
    BY <1>1, <2>1, <2>2
<1>5. ASSUME Dismiss PROVE StockInv'
  <2>1. UNCHANGED <<layers, ledger, mode, drawOrder, now>> /\ preview' = NoPreview
    BY <1>5 DEF Dismiss
  <2>2. BinTyped' /\ ShownIsPlan'
    BY <2>1 DEF StockInv, BinTyped, ShownIsPlan
  <2> QED
    BY <1>0, <2>1, <2>2, QuietKeeps
<1>6. ASSUME NEW o \in DOMAIN ledger, RemoveEntry(o) PROVE StockInv'
  BY <1>6, RemovalKeeps
<1>7. ASSUME NEW at \in 1 .. now, Merge(at) PROVE StockInv'
  <2>1. Switch("merge", at) /\ now' = now
    BY <1>7 DEF Merge, Switch
  <2> QED
    BY <2>1, SwitchedKeeps
<1>8. ASSUME SwitchToSplit PROVE StockInv'
  <2>1. Switch("split", now) /\ now' = now
    BY <1>8 DEF SwitchToSplit, Switch
  <2>2. now \in 1 .. now
    BY StockAssumption DEF StockInv, BinTyped
  <2> QED
    BY <2>1, <2>2, SwitchedKeeps
<1>9. ASSUME NEW l \in Layers, Place(l) PROVE StockInv'
  <2>1. layers' = layers \cup {l} /\ UNCHANGED <<ledger, mode, drawOrder, now, preview>>
    BY <1>9 DEF Place
  <2>2. BinTyped' /\ ShownIsPlan' /\ layers \in SUBSET layers'
    BY <2>1 DEF StockInv, BinTyped, ShownIsPlan, IsDrawOf
  <2> QED
    BY <1>0, <2>1, <2>2, QuietKeeps
<1>10. ASSUME ChangeDrawOrder PROVE StockInv'
  <2>1. UNCHANGED <<layers, ledger, mode, now, preview>> /\ drawOrder' \in DrawOrders
    BY <1>10 DEF ChangeDrawOrder
  <2>2. BinTyped' /\ ShownIsPlan'
    BY <2>1 DEF StockInv, BinTyped, ShownIsPlan
  <2> QED
    BY <1>0, <2>1, <2>2, QuietKeeps
<1>11. ASSUME Tick PROVE StockInv'
  <2>1. UNCHANGED <<layers, ledger, mode, drawOrder, preview>> /\ now' = now + 1 /\ now < MaxTime
    BY <1>11 DEF Tick
  <2>2. now' \in 1 .. MaxTime /\ now <= now'
    BY <2>1, StockAssumption DEF StockInv, BinTyped
  <2>3. BinTyped' /\ ShownIsPlan'
    BY <2>1, <2>2 DEF StockInv, BinTyped, ShownIsPlan
  <2> QED
    BY <1>0, <2>1, <2>2, <2>3, QuietKeeps
<1>12. ASSUME UNCHANGED vars PROVE StockInv'
  <2>1. UNCHANGED <<layers, ledger, mode, drawOrder, now, preview>>
    BY <1>12 DEF vars
  <2>2. BinTyped' /\ ShownIsPlan'
    BY <2>1 DEF StockInv, BinTyped, ShownIsPlan
  <2> QED
    BY <1>0, <2>1, <2>2, QuietKeeps
<1> QED
  BY <1>2, <1>3, <1>4, <1>5, <1>6, <1>7, <1>8, <1>9, <1>10, <1>11, <1>12 DEF Next

LEMMA InitIsStock == Init => StockInv
<1> SUFFICES ASSUME Init PROVE StockInv
  OBVIOUS
<1>1. layers = {} /\ ledger = <<>> /\ preview = NoPreview /\ BinTyped
  BY StockAssumption DEF Init, BinTyped, Modes, DrawOrders
<1>2. ledger \in Seq({}) /\ DOMAIN ledger = {} /\ Len(ledger) = 0
  BY <1>1
<1>3. IsLedger(ledger)
  BY <1>2 DEF IsLedger
<1>4. LiveBefore(ledger, 1) = {} /\ \A i \in 1 .. Len(ledger) + 1 : i = 1
  BY <1>2 DEF LiveBefore
<1>5. LiveTells(ledger)
  <2>1. Len(ledger) + 1 = 1
    BY <1>2
  <2> QED
    BY <1>2, <1>4, <2>1 DEF LiveTells
<1>6. HistoryOnCurve(ledger)
  <2>1. \A l \in Layers : OnCurve(l, LeftIn(ledger, l, {}))
    BY UndrawnIsWhole
  <2> QED
    BY <1>4, <2>1 DEF HistoryOnCurve
<1>7. HistoryStands(ledger)
  BY <1>2 DEF HistoryStands
<1> QED
  BY <1>1, <1>2, <1>3, <1>5, <1>6, <1>7 DEF StockInv, LedgerTyped, ShownIsPlan, Kept

\* Every step of the bin keeps the invariant: postings, corrections, removals,
\* receipts and switches leave a ledger that holds together.
THEOREM StockIsKept == Spec => []StockInv
<1>1. StockInv /\ [Next]_vars => StockInv'
  BY StepKeepsStock
<1> QED
  BY <1>1, InitIsStock, PTL DEF Spec

\* What is recorded and shown is typed: draws name layers that are there and all
\* their runs, movements and corrections are dated and numbered in the past.
THEOREM StockTyped == Spec => []TypeOK
<1>1. StockInv => TypeOK
  <2> SUFFICES ASSUME StockInv PROVE TypeOK
    OBVIOUS
  <2>1. \A d : IsDrawOf(layers, d) => AreDraws(d)
    BY DEF IsDrawOf, IsDraw, AreDraws
  <2>2. ASSUME NEW i \in DOMAIN ledger PROVE IsMovement(ledger[i])
    <3>1. IsMovementOf(ledger[i], layers, now, Len(ledger))
      BY DEF StockInv, LedgerTyped
    <3> QED
      BY <2>1, <3>1 DEF IsMovementOf, IsMovement
  <2>3. ASSUME preview # NoPreview PROVE preview.command \in Command /\ AreDraws(preview.draws)
    <3>1. IsCommand(preview.command) /\ AreDraws(preview.draws)
      BY <2>1, <2>3 DEF StockInv, ShownIsPlan
    <3>2. preview.command.request \in AllRequests
      BY <3>1, RequestsAreTyped
    <3>3. MaxTime \in Nat /\ preview.command.at \in Nat
      BY <3>1, StockAssumption DEF IsCommand
    <3> QED
      BY <3>1, <3>2, <3>3 DEF IsCommand, Command
  <2> QED
    BY <2>2, <2>3 DEF StockInv, BinTyped, TypeOK
<1> QED
  BY <1>1, StockIsKept, PTL

\* The planner can always go on: after any postings, corrections and removals
\* the stock passes planOutputStock's own checks, and each run has the grams
\* that the next draw's cumulative share asks of it.
THEOREM StockPlannable == Spec => []StockStaysPlannable
<1>1. StockInv => StockStaysPlannable
  <2> SUFFICES ASSUME StockInv, NEW l \in layers, NEW stock, stock = Left(l, DOMAIN ledger)
               PROVE  /\ Sound(l, stock)
                      /\ \A grams \in 0 .. stock.dry :
                            LET left == Least(grams * Ratio[l] * Parts, stock.solids)
                            IN  Covered(l, stock, Take(l, stock, stock.solids - left))
    BY DEF StockStaysPlannable
  <2>1. l \in Layers
    BY DEF StockInv, BinTyped
  <2>2. PICK n \in Nat : n = Len(ledger)
    BY DEF StockInv, Kept, IsLedger
  <2>3. n + 1 \in 1 .. n + 1
    BY <2>2
  <2>4. OnCurve(l, stock)
    <3>1. Left(l, DOMAIN ledger) = LeftIn(ledger, l, DOMAIN ledger)
      BY OfLedger
    <3>2. LeftIn(ledger, l, DOMAIN ledger) = LeftIn(ledger, l, LiveBefore(ledger, n + 1))
      BY <2>1, <2>2 DEF StockInv, Kept, LiveTells
    <3>3. OnCurve(l, LeftIn(ledger, l, LiveBefore(ledger, n + 1)))
      BY <2>1, <2>2, <2>3 DEF StockInv, Kept, HistoryOnCurve
    <3> QED
      BY <3>1, <3>2, <3>3
  <2>5. Sound(l, stock) /\ stock.solids \in Nat /\ stock.dry \in Nat
    BY <2>1, <2>4, CurveIsSound
  <2>6. ASSUME NEW grams \in 0 .. stock.dry
        PROVE  Covered(l, stock, Take(l, stock, stock.solids - Least(grams * Ratio[l] * Parts, stock.solids)))
    <3>1. PICK r, p, g, s \in Nat : r = Ratio[l] /\ p = Parts /\ g = grams /\ s = stock.solids
      <4>1. Ratio[l] \in Nat /\ Parts \in Nat
        BY <2>1, PlannerAssumption
      <4>2. grams \in Nat /\ stock.solids \in Nat
        BY <2>5
      <4> QED
        BY <4>1, <4>2
    <3>2. g * r * p \in Nat
      OBVIOUS
    <3>3. PICK m \in Nat : m = g * r * p
      BY <3>2
    <3>4. s - Least(m, s) \in 0 .. s
      BY DEF Least
    <3>5. PICK solids : solids = stock.solids - Least(grams * Ratio[l] * Parts, stock.solids)
      OBVIOUS
    <3>6. solids \in 0 .. stock.solids
      BY <3>1, <3>3, <3>4, <3>5
    <3>7. Covered(l, stock, Take(l, stock, solids))
      BY <2>1, <2>4, <3>6, CurveTake
    <3> QED
      BY <3>5, <3>7
  <2> QED
    BY <2>5, <2>6
<1> QED
  BY <1>1, StockIsKept, PTL

\* assertOutputCorrectionDependencies lets no correction or removal change what
\* another entry in force was planned to draw.
THEOREM CorrectionsRewriteNothing == Spec => []LaterDrawsStand
<1>1. StockInv => LaterDrawsStand
  <2> SUFFICES ASSUME StockInv, NEW i \in DOMAIN ledger, Live(i)
               PROVE  ledger[i].draws =
                        Draws(Stock(PlanningLayers(ledger[i], ledger[i].known), EarlierLive(i)),
                              ledger[i].at, ledger[i].request, ledger[i].policy)
    BY DEF LaterDrawsStand
  <2>1. LiveIn(ledger, i) /\ EarlierLive(i) = LiveBefore(ledger, i)
    BY OfLedger
  <2>2. \A A : Stock(PlanningLayers(ledger[i], ledger[i].known), A) = StockIn(ledger, ledger[i], A)
    BY OfLedger
  <2>3. ledger[i].draws = Draws(StockIn(ledger, ledger[i], LiveBefore(ledger, i)),
                                ledger[i].at, ledger[i].request, ledger[i].policy)
    BY <2>1 DEF StockInv, Kept, HistoryStands
  <2> QED
    BY <2>1, <2>2, <2>3
<1> QED
  BY <1>1, StockIsKept, PTL

\* Every measured load on record took its solids, to the steps of the grid.
THEOREM LoadsAreMeasured == Spec => []MeasuredIsTaken
<1>1. StockInv => MeasuredIsTaken
  BY DEF StockInv, LedgerTyped, IsMovementOf, MeasuredIsTaken
<1> QED
  BY <1>1, StockIsKept, PTL
=============================================================================
