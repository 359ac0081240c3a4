----------------------------- MODULE OutputStock -----------------------------
(***************************************************************************)
(* The stock of one output bin.  Layers of biochar or product are placed;  *)
(* deliveries, losses and counts are planned over them and posted to an    *)
(* append-only ledger with the allocations they were given; a correction   *)
(* appends the reversal of an entry and its replacement.  What is left of  *)
(* a layer is what the ledger leaves of it.  Every posting runs under the  *)
(* lock of its bin; previews are read without it.                          *)
(***************************************************************************)
EXTENDS StockPlanner

CONSTANTS
    Deliveries,     \* loads, measured or from sub-bins in a given order
    Losses,         \* the same
    Counts,         \* measured counts
    Previewed,      \* the commands whose previews are followed
    MaxTime,        \* bound on the clock
    MaxEntries,     \* bound on the ledger's entries that reverse nothing
    MaxShown        \* the same while a preview is open

IsWet(r) == r.kind = "wet" /\ r.solids \in Nat
IsOrdered(r) ==
    /\ r.kind = "ordered" /\ r.wet \in Nat
    /\ r.sources \in Seq([layer : Layers, reading : Nat \ {0}])

ASSUME StockAssumption ==
    /\ \A r \in Deliveries \cup Losses : IsWet(r) \/ IsOrdered(r)
    /\ \A r \in Counts : r.kind = "count" /\ r.solids \in Nat
    /\ MaxTime \in Nat \ {0} /\ MaxEntries \in Nat /\ MaxShown \in Nat

VARIABLES
    layers,     \* the layers recorded so far
    ledger,     \* bin_movements and their allocations, in posting order
    mode,       \* storage_locations.stock_mode
    drawOrder,  \* storage_locations.draw_order
    now,
    preview     \* what an operator was shown and has not posted yet

vars == <<layers, ledger, mode, drawOrder, now, preview>>

Modes == {"split", "mix"}
DrawOrders == {"oldest_first", "newest_first"}
Policies == {"fifo", "lifo", "pro_rata", "operator_order"}
DrawKinds == {"delivery", "loss", "count"}

NoRequest == [kind |-> "none"]
NoPreview == [kind |-> "none"]
Requests == [delivery |-> Deliveries, loss |-> Losses, count |-> Counts]

Init ==
    /\ layers = {} /\ ledger = <<>>
    /\ mode \in Modes /\ drawOrder = "oldest_first"
    /\ now = 1
    /\ preview = NoPreview

-----------------------------------------------------------------------------
(* What the ledger says.                                                    *)

\* layer-projection.ts: what these movements leave of a layer.
Left(l, movements) ==
    LET drew == {i \in movements : l \in DOMAIN ledger[i].draws}
    IN  [solids |-> Whole[l]
                    - SumFunction([i \in drew |-> ledger[i].draws[l].solids]),
         dry    |-> Established[l]
                    - SumFunction([i \in drew |-> ledger[i].draws[l].dry]),
         runs   |-> [k \in DOMAIN Provenance[l] |-> Provenance[l][k]
                    - SumFunction([i \in drew |-> ledger[i].draws[l].runs[k]])]]

Stock(ls, movements) == [l \in ls |-> Left(l, movements)]
Bin == Stock(layers, DOMAIN ledger)

\* liveOutputMovementPredicate, of the entries that draw or count.
Live(i) ==
    /\ ledger[i].kind \in DrawKinds
    /\ \A j \in DOMAIN ledger :
          ledger[j].kind = "reversal" => ledger[j].corrects # i

\* stockModeAt: an entry is planned in the mode in force at its own time.
ModeAt(at) ==
    LET changes == {i \in DOMAIN ledger : ledger[i].kind \in {"merge", "split"}}
        inForce == {i \in changes : ledger[i].at <= at}
        before(i, j) == \/ ledger[i].at < ledger[j].at
                        \/ ledger[i].at = ledger[j].at /\ i <= j
        first == CHOOSE i \in changes : \A j \in changes : before(i, j)
        latest == CHOOSE i \in inForce : \A j \in inForce : before(j, i)
    IN  CASE changes = {} -> mode
          [] inForce # {} ->
                IF ledger[latest].kind = "merge" THEN "mix" ELSE "split"
          [] OTHER -> IF ledger[first].kind = "merge" THEN "split" ELSE "mix"

\* resolveDrawPolicy
Policy(at) ==
    CASE ModeAt(at) = "mix" -> "pro_rata"
      [] ModeAt(at) = "split" /\ drawOrder = "newest_first" -> "lifo"
      [] OTHER -> "fifo"

-----------------------------------------------------------------------------
(* Corrections.                                                             *)

\* What a correction would change: what the entry drew, what its
\* replacement draws, and what a count weighed.
Affected(o, drawn) ==
    DOMAIN ledger[o].draws \cup drawn
        \cup (IF ledger[o].kind = "count" THEN ledger[o].seen ELSE {})

\* Mutant: an entry is in the way only if it drew from the same layers.
IndependentOfSameLayers(o, drawn) ==
    \A i \in o + 1 .. Len(ledger) :
        /\ Live(i) => DOMAIN ledger[i].draws \cap Affected(o, drawn) = {}
        /\ ledger[i].kind # "split"

\* Mutant: the switch to split is not looked for.
IndependentAcrossSplit(o, drawn) ==
    \A i \in o + 1 .. Len(ledger) :
        Live(i) =>
            /\ DOMAIN ledger[i].draws \cap Affected(o, drawn) = {}
            /\ ledger[i].policy # "operator_order" =>
                  \A l \in Affected(o, drawn) : Placed[l] > ledger[i].at

\* assertOutputCorrectionDependencies: no later entry drew on what changes
\* or would have been planned otherwise, and the bin was not emptied since.
Independent(o, drawn) ==
    \A i \in o + 1 .. Len(ledger) :
        /\ Live(i) =>
              /\ DOMAIN ledger[i].draws \cap Affected(o, drawn) = {}
              /\ ledger[i].policy # "operator_order" =>
                    \A l \in Affected(o, drawn) : Placed[l] > ledger[i].at
        /\ ledger[i].kind # "split"

\* An entry is corrected once, by one of its kind, and stays a load by
\* sub-bin if it was one.
Correctable(c) ==
    LET o == c.corrects
    IN  /\ o \in DOMAIN ledger /\ ledger[o].kind = c.kind
        /\ \A j \in DOMAIN ledger : ledger[j].corrects # o
        /\ ledger[o].request.kind = "ordered" => c.request.kind = "ordered"
        /\ Independent(o, {})

\* deliveryTimeCrossingMessage: a delivery that moves in time stays on the
\* same side of every other live entry.
KeepsItsSide(c) ==
    LET o == c.corrects
    IN  \A i \in DOMAIN ledger \ {o} :
            Live(i) => (\/ ledger[i].at < ledger[o].at
                        \/ ledger[i].at = ledger[o].at /\ i < o)
                       <=> ledger[i].at <= c.at

-----------------------------------------------------------------------------
(* prepareOutputStock: one read and plan for previews and postings.         *)

\* Mutant: the basis leaves out the bin's draw order.
BasisWithoutOrder(c) ==
    <<Stock(layers, DOMAIN ledger \ {c.corrects}), Len(ledger),
      ModeAt(c.at), c.at, c.corrects>>

\* basisFingerprint
Basis(c) ==
    <<Stock(layers, DOMAIN ledger \ {c.corrects}), Len(ledger),
      ModeAt(c.at), IF ModeAt(c.at) = "split" THEN drawOrder ELSE "none",
      c.at, c.corrects>>

\* A loss made smaller gives back to the layers it was taken from.
PreservesSources(c) ==
    /\ c.corrects # 0 /\ c.kind = "loss" /\ c.request.kind = "wet"
    /\ LET draws == ledger[c.corrects].draws
       IN  c.request.solids
              <= SumFunction([l \in DOMAIN draws |-> draws[l].solids])

PlanningLayers(c, known) ==
    IF PreservesSources(c) THEN DOMAIN ledger[c.corrects].draws ELSE known

PolicyOf(c) ==
    IF c.request.kind = "ordered" THEN "operator_order" ELSE Policy(c.at)

Planned(c) ==
    Draws(Stock(PlanningLayers(c, layers), DOMAIN ledger \ {c.corrects}),
          c.at, c.request, PolicyOf(c))

\* Mutant: an entry may be dated ahead.
OccurredAnyTime(at) == at \in Nat

\* assertEventTimesNotFuture
Occurred(at) == at <= now

\* The command can be posted as things stand.
Prepared(c) ==
    LET movements == DOMAIN ledger \ {c.corrects}
    IN  /\ Occurred(c.at)
        /\ c.request.kind = "ordered" => ModeAt(c.at) = "split"
        /\ c.corrects # 0 => Correctable(c)
        /\ c.corrects # 0 /\ c.kind = "delivery" /\ c.at # ledger[c.corrects].at
              => KeepsItsSide(c)
        /\ PlansNothingLeft(Stock(layers, movements), c.at)
        /\ Plans(Stock(PlanningLayers(c, layers), movements),
                 c.at, c.request, PolicyOf(c))
        /\ c.corrects # 0 => Independent(c.corrects, DOMAIN Planned(c))

Commands ==
    UNION {[kind : {k}, at : 1 .. MaxTime, request : Requests[k],
            corrects : {0} \cup DOMAIN ledger] : k \in DrawKinds}

-----------------------------------------------------------------------------
(* Postings.                                                                *)

\* appendOutputStockReversal: the exact inverse of frozen effects.
Reversal(o, at) ==
    LET draws == ledger[o].draws
    IN  [kind |-> "reversal", at |-> at, corrects |-> o,
         request |-> NoRequest, policy |-> "none",
         draws |-> [l \in DOMAIN draws |->
            [solids |-> -draws[l].solids, dry |-> -draws[l].dry,
             runs |-> [k \in DOMAIN draws[l].runs |-> -draws[l].runs[k]]]],
         known |-> layers, seen |-> {}]

Entry(c) ==
    [kind |-> c.kind, at |-> c.at, corrects |-> c.corrects,
     request |-> c.request, policy |-> PolicyOf(c), draws |-> Planned(c),
     known |-> layers, seen |-> {l \in layers : Placed[l] <= c.at}]

ModeChange(kind, at) ==
    [kind |-> kind, at |-> at, corrects |-> 0, request |-> NoRequest,
     policy |-> "none", draws |-> <<>>, known |-> layers, seen |-> {}]

Entries == {i \in DOMAIN ledger : ledger[i].kind # "reversal"}
RoomForEntry ==
    Cardinality(Entries) < IF preview = NoPreview THEN MaxEntries ELSE MaxShown

\* persistOutputStock
Persist(c) ==
    LET o == c.corrects
        entries == IF o = 0 THEN <<Entry(c)>>
                   ELSE <<Reversal(o, IF c.kind = "delivery" THEN ledger[o].at
                                      ELSE c.at), Entry(c)>>
    IN  /\ RoomForEntry
        /\ Prepared(c)
        /\ ledger' = ledger \o entries

\* A command that names no basis acts on the stock as it is.
Post(c) ==
    /\ Persist(c)
    /\ UNCHANGED <<layers, mode, drawOrder, now, preview>>

Show(c) ==
    /\ preview = NoPreview /\ Cardinality(Entries) < MaxShown
    /\ Prepared(c)
    /\ preview' = [kind |-> "shown", command |-> c, basis |-> Basis(c),
                   draws |-> Planned(c)]
    /\ UNCHANGED <<layers, ledger, mode, drawOrder, now>>

\* The operator posts what was shown, or drops it when the basis changed.
PostShown ==
    /\ preview # NoPreview
    /\ Basis(preview.command) = preview.basis
    /\ Persist(preview.command)
    /\ preview' = NoPreview
    /\ UNCHANGED <<layers, mode, drawOrder, now>>

Dismiss ==
    /\ preview # NoPreview
    /\ preview' = NoPreview
    /\ UNCHANGED <<layers, ledger, mode, drawOrder, now>>

\* removeOutputStockLoss and deleteDelivery: a reversal alone.
RemoveEntry(o) ==
    /\ ledger[o].kind \in {"loss", "delivery"}
    /\ \A j \in DOMAIN ledger : ledger[j].corrects # o
    /\ Independent(o, {})
    /\ PlansNothingLeft(Bin, now)
    /\ ledger' = Append(ledger, Reversal(o, ledger[o].at))
    /\ UNCHANGED <<layers, mode, drawOrder, now, preview>>

-----------------------------------------------------------------------------
(* Layers and the bin's settings.                                           *)

\* assertAdditionAfterSplit; a receipt may be recorded late.
Place(l) ==
    /\ l \notin layers /\ Occurred(Placed[l])
    /\ \A i \in DOMAIN ledger :
          ledger[i].kind = "split" => ledger[i].at <= Placed[l]
    /\ layers' = layers \cup {l}
    /\ UNCHANGED <<ledger, mode, drawOrder, now, preview>>

ChangeDrawOrder ==
    /\ drawOrder' \in DrawOrders \ {drawOrder}
    /\ UNCHANGED <<layers, ledger, mode, now, preview>>

\* applyStockModeChange; a bin that never held stock keeps no history of it.
Switch(kind, at) ==
    /\ mode' = IF kind = "merge" THEN "mix" ELSE "split"
    /\ IF layers = {} /\ ledger = <<>> THEN UNCHANGED ledger
       ELSE /\ RoomForEntry
            /\ ledger' = Append(ledger, ModeChange(kind, at))
    /\ UNCHANGED <<layers, drawOrder, now, preview>>

Merge(at) ==
    /\ mode = "split"
    /\ \A i \in DOMAIN ledger : ledger[i].at < at
    /\ PlansNothingLeft(Bin, now)
    /\ Switch("merge", at)

\* layersHoldMaterial
HoldsMaterial(stock) == stock.dry > 0 \/ stock.solids > 0

SwitchToSplit ==
    /\ mode = "mix"
    /\ \A l \in layers : ~HoldsMaterial(Bin[l])
    /\ PlansNothingLeft(Bin, now)
    /\ Switch("split", now)

Tick ==
    /\ now < MaxTime
    /\ now' = now + 1
    /\ UNCHANGED <<layers, ledger, mode, drawOrder, preview>>

Next ==
    \/ \E c \in Commands : Post(c)
    \/ \E c \in Commands \cap Previewed : Show(c)
    \/ PostShown \/ Dismiss
    \/ \E o \in DOMAIN ledger : RemoveEntry(o)
    \/ \E l \in Layers : Place(l)
    \/ ChangeDrawOrder
    \/ \E at \in 1 .. now : Merge(at)
    \/ SwitchToSplit
    \/ Tick

Spec == Init /\ [][Next]_vars

-----------------------------------------------------------------------------
(* Properties.                                                              *)

AllRequests == Deliveries \cup Losses \cup Counts
Command == [kind : DrawKinds, at : Nat, request : AllRequests, corrects : Nat]

\* Allocations: layers that were there, with a share for each of their runs.
AreDraws(draws) ==
    \A l \in DOMAIN draws :
        /\ l \in layers
        /\ draws[l].solids \in Int /\ draws[l].dry \in Int
        /\ draws[l].runs \in [DOMAIN Provenance[l] -> Int]

\* A movement.  "corrects" is corrects_movement_id, or 0; "known" are the
\* receipts it was posted after, and "seen" those its preview listed.
IsMovement(m) ==
    /\ m.kind \in DrawKinds \cup {"reversal", "merge", "split"}
    /\ m.at \in 1 .. now
    /\ m.corrects \in 0 .. Len(ledger)
    /\ m.policy \in Policies \cup {"none"}
    /\ m.request \in AllRequests \cup {NoRequest}
    /\ AreDraws(m.draws)
    /\ m.known \subseteq layers /\ m.seen \subseteq m.known

\* Type invariant.
TypeOK ==
    /\ layers \subseteq Layers
    /\ \A i \in DOMAIN ledger : IsMovement(ledger[i])
    /\ mode \in Modes /\ drawOrder \in DrawOrders
    /\ now \in 1 .. MaxTime
    /\ preview # NoPreview =>
          preview.command \in Command /\ AreDraws(preview.draws)

\* The planner can always go on: whatever was posted, reversed and replaced,
\* the stock that is left passes the planner's own checks of exact solids
\* against rounded grams, and whatever is drawn next from a layer, each run
\* still has the grams its cumulative share asks of it.
StockStaysPlannable ==
    \A l \in layers :
        LET stock == Left(l, DOMAIN ledger)
        IN  /\ Sound(l, stock)
            /\ \A grams \in 0 .. stock.dry :
                  LET left == Least(grams * Ratio[l] * Parts, stock.solids)
                  IN  Covered(l, stock, Take(l, stock, stock.solids - left))

\* Corrections rewrite no history: every live entry still draws what its
\* policy draws from the stock that the live entries before it leave of the
\* receipts it was posted after.
EarlierLive(i) == {j \in 1 .. i - 1 : Live(j)}

LaterDrawsStand ==
    \A i \in DOMAIN ledger : Live(i) =>
        LET m == ledger[i]
            bin == Stock(PlanningLayers(m, m.known), EarlierLive(i))
        IN  m.draws = Draws(bin, m.at, m.request, m.policy)

\* A mixed pile never comes back as sub-bins: once the bin was switched back
\* to split, no layer placed before holds anything again.
NoMixedPileReturns ==
    \A i \in DOMAIN ledger : ledger[i].kind = "split" =>
        \A l \in layers : Placed[l] < ledger[i].at => ~HoldsMaterial(Bin[l])

\* What is posted on a basis is what was shown, whatever happened between.
PreviewIsKept ==
    [][preview # NoPreview /\ preview' = NoPreview /\ ledger' # ledger
          => ledger'[Len(ledger')].draws = preview.draws]_vars

SolidsTaken(m) == SumFunction([l \in DOMAIN m.draws |-> m.draws[l].solids])

\* A load takes the solids that were measured, to the steps of the grid: the
\* grid rounds each share of a pile down, and a rest that is less than nothing
\* up to nothing.
Measured(m) ==
    /\ SolidsTaken(m) - m.request.solids < Grid
    /\ m.request.solids - SolidsTaken(m) < Grid * Cardinality(Layers)

MeasuredIsTaken ==
    \A i \in DOMAIN ledger :
        ledger[i].request.kind = "wet" => Measured(ledger[i])
=============================================================================
