---------------------------- MODULE StockPlanner ----------------------------
(***************************************************************************)
(* Planning a draw from the layers of an output bin: which layer gives how *)
(* much solids, and how many whole grams of dry biochar that is for the    *)
(* layer and for each production run behind it.                            *)
(*                                                                         *)
(* Quantities are whole numbers: solids are counted in parts of a gram,    *)
(* dry biochar in grams.  A layer is its posting sequence number.          *)
(***************************************************************************)
EXTENDS Integers, Sequences, FiniteSets, Functions

CONSTANTS
    Layers,     \* production runs or product batches, by posting sequence
    Placed,     \* when each physically entered the bin
    Provenance, \* the grams each took from its production runs
    Ratio,      \* its solids per dry biochar, fixed when it was made
    Parts,      \* parts of solids in a gram
    Grid        \* parts in a step of the solids grid

ASSUME PlannerAssumption ==
    /\ Layers \subseteq Nat /\ IsFiniteSet(Layers)
    /\ Placed \in [Layers -> Nat]
    /\ Provenance \in [Layers -> Seq(Nat \ {0})]
    /\ Ratio \in [Layers -> Nat \ {0}]
    /\ Parts \in Nat \ {0} /\ Grid \in 1 .. Parts

Least(m, n) == IF m <= n THEN m ELSE n

\* exact.ts round: half up.
HalfUp(n, d) == (2 * n + d) \div (2 * d)

Established == [l \in Layers |-> SumFunction(Provenance[l])]
Whole == [l \in Layers |-> Parts * Ratio[l] * Established[l]]

\* The stock of a layer is [solids, dry, runs]: its exact solids, its grams of
\* dry biochar and those of each run.

-----------------------------------------------------------------------------
(* Whole grams.                                                             *)

\* The grams left with these solids: what was consumed so far is rounded.
DryLeft(l, solids) ==
    Established[l] - HalfUp(Whole[l] - solids, Ratio[l] * Parts)

\* Mutant: largest remainders instead of cumulative seats.
SplitByRemainder(total, weights, turn) ==
    LET sum == SumFunction(weights)
        floor == [i \in DOMAIN weights |-> (total * weights[i]) \div sum]
        rest(i) == (total * weights[i]) % sum
        ahead(i) == {j \in DOMAIN weights :
                        rest(j) > rest(i) \/ (rest(j) = rest(i) /\ turn[j] < turn[i])}
    IN  IF sum = 0 THEN weights
        ELSE [i \in DOMAIN weights |->
                IF Cardinality(ahead(i)) < total - SumFunction(floor)
                THEN floor[i] + 1 ELSE floor[i]]

\* The highest next-seat quotient, of equals the one whose turn is first.
Winner(seats, weights, turn) ==
    LET beats(i, j) == weights[i] * (seats[j] + 1) > weights[j] * (seats[i] + 1)
    IN  CHOOSE i \in DOMAIN seats :
            \A j \in DOMAIN seats :
                ~beats(j, i) /\ (turn[j] < turn[i] => beats(i, j))

NextSeat(seats, weights, turn) ==
    [seats EXCEPT ![Winner(seats, weights, turn)] = @ + 1]

LowerQuotas(total, weights) ==
    [i \in DOMAIN weights |-> (total * weights[i]) \div SumFunction(weights)]

\* splitCumulativeGrams: lower quotas, then seat by seat.
Split(total, weights, turn) ==
    LET seats[k \in Nat] ==
            IF k = 0 THEN LowerQuotas(total, weights)
            ELSE NextSeat(seats[k - 1], weights, turn)
    IN  IF SumFunction(weights) = 0 THEN weights
        ELSE seats[total - SumFunction(LowerQuotas(total, weights))]

\* The grams of each run when so many of the layer's are gone.
RunShares ==
    [l \in Layers |-> [grams \in 0 .. Established[l] |->
        Split(grams, Provenance[l], [i \in DOMAIN Provenance[l] |-> i])]]

\* draw: the grams that go with these solids, and each run's share of them.
Take(l, stock, solids) ==
    LET left == DryLeft(l, stock.solids - solids)
        shares == RunShares[l][Established[l] - left]
    IN  [solids |-> solids,
         dry    |-> stock.dry - left,
         runs   |-> [i \in DOMAIN shares |->
                        shares[i] - (Provenance[l][i] - stock.runs[i])]]

\* draw's checks: no more than the provenance is gone (splitCumulativeGrams),
\* and the run balances cover the shares.
Covered(l, stock, draw) ==
    /\ stock.dry - draw.dry \in 0 .. Established[l]
    /\ \A i \in DOMAIN draw.runs : draw.runs[i] \in 0 .. stock.runs[i]

\* planOutputStock's checks of the layers it is given.
Sound(l, stock) ==
    /\ stock.dry \in 0 .. Established[l]
    /\ \A i \in DOMAIN stock.runs : stock.runs[i] \in 0 .. Provenance[l][i]
    /\ SumFunction(stock.runs) = stock.dry
    /\ stock.solids \in 0 .. Whole[l]
    /\ DryLeft(l, stock.solids) = stock.dry

-----------------------------------------------------------------------------
(* The order of the layers.  A bin's stock maps the layers it holds to      *)
(* their stock.                                                             *)

Older(l, m) == Placed[l] < Placed[m] \/ (Placed[l] = Placed[m] /\ l < m)

Eligible(bin, at) == {l \in DOMAIN bin : Placed[l] <= at}
Holding(bin, at) == {l \in Eligible(bin, at) : bin[l].solids > 0}
CapOf(bin, ls) == [l \in ls |-> bin[l].solids]
SolidsOf(bin, ls) == SumFunction(CapOf(bin, ls))

\* Draws in turn: what is asked for, less what the layers ahead hold.
InTurn(bin, at, solids, policy) ==
    LET ahead(l) == {m \in Holding(bin, at) :
                        IF policy = "lifo" THEN Older(l, m) ELSE Older(m, l)}
        asked(l) == solids - SolidsOf(bin, ahead(l))
        reached == {l \in Holding(bin, at) : asked(l) > 0}
    IN  [l \in reached |-> Least(asked(l), bin[l].solids)]

-----------------------------------------------------------------------------
(* Mix bins.                                                                *)

\* BigInt division truncates towards zero, and so does the grid.
OnGrid(n) == IF n >= 0 THEN Grid * (n \div Grid) ELSE -(Grid * ((-n) \div Grid))

\* Of equal layers the older has the earlier turn.
Turns(ls) == [l \in ls |-> Cardinality({m \in ls : Older(m, l)})]

\* A round: what is left is split among the parts with room, up to their caps.
Round(r, weights, caps, turn) ==
    LET open == {i \in DOMAIN weights : weights[i] > 0 /\ r.shares[i] < caps[i]}
        split == Split(r.left, [i \in open |-> weights[i]], turn)
        given == [i \in open |-> Least(split[i], caps[i] - r.shares[i])]
    IN  IF r.left = 0 \/ open = {} THEN r
        ELSE [shares |-> [i \in DOMAIN weights |->
                r.shares[i] + IF i \in open THEN given[i] ELSE 0],
              left   |-> r.left - SumFunction(given)]

\* apportionCapped: what a full part cannot take goes to the others.
Apportion(total, weights, caps, turn) ==
    LET rounds[k \in Nat] ==
            IF k = 0 THEN [shares |-> [i \in DOMAIN weights |-> 0], left |-> total]
            ELSE Round(rounds[k - 1], weights, caps, turn)
    IN  rounds[Cardinality(DOMAIN weights)].shares

\* proRataSolidsOnGrid
SharesOnGrid(cap, solids, turn) ==
    LET weights == [l \in DOMAIN cap |-> cap[l] \div Grid]
        shares == Split(Least(solids \div Grid, SumFunction(weights)), weights, turn)
    IN  [l \in DOMAIN cap |-> Grid * shares[l]]

\* The layer that holds most, and the rest of the solids for it to give.
MostOf(cap, turn) ==
    CHOOSE l \in DOMAIN cap :
        \A m \in DOMAIN cap : cap[m] <= cap[l] /\ (turn[m] < turn[l] => cap[m] < cap[l])

RestOf(cap, solids, share, turn) ==
    OnGrid(solids - (SumFunction(share) - share[MostOf(cap, turn)]))

WithRest(cap, solids, share, turn) ==
    IF RestOf(cap, solids, share, turn) \in 0 .. cap[MostOf(cap, turn)]
    THEN [share EXCEPT ![MostOf(cap, turn)] = RestOf(cap, solids, share, turn)]
    ELSE SharesOnGrid(cap, solids, turn)

\* The grams of dry biochar in so much of the pile.
GramsOf(cap, solids) ==
    LET ratio == [l \in DOMAIN cap |-> Ratio[l]]
        common == FoldFunction(LAMBDA a, b : a * b, 1, ratio)
        exact == SumFunction([l \in DOMAIN cap |-> cap[l] * (common \div ratio[l])])
    IN  HalfUp(solids * exact, SumFunction(cap) * common * Parts)

\* The whole grams each layer gives, no more than it has.
GramShares(bin, held, solids) ==
    LET caps == [l \in held |->
                    Least(bin[l].solids \div (Ratio[l] * Parts), bin[l].dry)]
        grams == Least(GramsOf(CapOf(bin, held), solids), SumFunction(caps))
    IN  Apportion(grams, [l \in held |-> bin[l].solids \div (Ratio[l] * Grid)],
                  caps, Turns(held))

\* proRataShares for less than the whole pile: whole grams in proportion.
SharesOfPile(bin, held, solids) ==
    LET grams == GramShares(bin, held, solids)
    IN  WithRest(CapOf(bin, held), solids,
                 [l \in held |-> grams[l] * Ratio[l] * Parts], Turns(held))

SharesOf(bin, held, solids) ==
    IF solids = SolidsOf(bin, held)
    THEN CapOf(bin, held) ELSE SharesOfPile(bin, held, solids)

\* Layers given nothing are left out.
ProRata(bin, at, solids) ==
    LET share == SharesOf(bin, Holding(bin, at), solids)
    IN  [l \in {m \in Holding(bin, at) : share[m] > 0} |-> share[l]]

-----------------------------------------------------------------------------
(* Split bins: sub-bins emptied in the operator's order.  A reading is the  *)
(* wet mass per solids it stands for.                                       *)

\* The wet mass of the load when it comes to the i-th source.
WetLeft(bin, request, i) ==
    request.wet - SumFunction([j \in 1 .. i - 1 |->
        bin[request.sources[j].layer].solids * request.sources[j].reading])

\* Each source is there once and holds something, and the load reaches it;
\* the last holds what is left.
OrderFits(bin, at, request) ==
    LET sources == request.sources
        last == Len(sources)
    IN  /\ request.wet > 0 /\ sources # <<>>
        /\ \A i \in DOMAIN sources :
              /\ sources[i].layer \in Holding(bin, at)
              /\ \A j \in DOMAIN sources : sources[j].layer = sources[i].layer => i = j
              /\ WetLeft(bin, request, i) > 0
        /\ WetLeft(bin, request, last)
              <= bin[sources[last].layer].solids * sources[last].reading

\* A source gives all it holds, the last one what is left of the load.
TakenFrom(bin, request, i) ==
    LET held == bin[request.sources[i].layer].solids
        reading == request.sources[i].reading
        wet == WetLeft(bin, request, i)
    IN  IF i < Len(request.sources) \/ wet = held * reading
        THEN held ELSE OnGrid(wet \div reading)

InOrder(bin, request) ==
    LET sources == request.sources
        source(l) == CHOOSE i \in DOMAIN sources : sources[i].layer = l
    IN  [l \in {sources[i].layer : i \in DOMAIN sources} |->
            TakenFrom(bin, request, source(l))]

-----------------------------------------------------------------------------
(* A request is a measured load or a count, in solids, or an ordered load.  *)

\* What a load or a shortfall takes from each layer.
Takings(bin, at, request, policy) ==
    LET pile == SolidsOf(bin, Eligible(bin, at))
        asked == IF request.kind = "count" THEN pile - request.solids
                 ELSE request.solids
    IN  CASE request.kind = "ordered" -> InOrder(bin, request)
          [] request.kind # "ordered" /\ asked <= 0 -> <<>>
          [] request.kind # "ordered" /\ asked > 0 /\ policy \in {"fifo", "lifo"} ->
                InTurn(bin, at, asked, policy)
          [] OTHER -> ProRata(bin, at, asked)

\* Mutant: a load takes what there is.
FitsAnyLoad(bin, at, request, policy) ==
    CASE request.kind = "wet" -> SolidsOf(bin, Eligible(bin, at)) > 0
      [] request.kind = "ordered" ->
            policy # "pro_rata" /\ OrderFits(bin, at, request)
      [] OTHER -> TRUE

\* A load is there to be drawn; a count may find anything.
Fits(bin, at, request, policy) ==
    CASE request.kind = "wet" ->
            request.solids \in 1 .. SolidsOf(bin, Eligible(bin, at))
      [] request.kind = "ordered" ->
            policy # "pro_rata" /\ OrderFits(bin, at, request)
      [] OTHER -> TRUE

DrawsOf(bin, taken) == [l \in DOMAIN taken |-> Take(l, bin[l], taken[l])]
Draws(bin, at, request, policy) == DrawsOf(bin, Takings(bin, at, request, policy))

DryOf(draws) == SumFunction([l \in DOMAIN draws |-> draws[l].dry])

\* The run balances cover what is drawn, and it comes to a gram.
CanGive(bin, request, draws) ==
    /\ \A l \in DOMAIN draws : Covered(l, bin[l], draws[l])
    /\ request.kind = "count" \/ DryOf(draws) > 0

\* planOutputStock plans: the layers are sound and the load is there.
Plans(bin, at, request, policy) ==
    /\ \A l \in DOMAIN bin : Sound(l, bin[l])
    /\ Fits(bin, at, request, policy)
    /\ CanGive(bin, request, Draws(bin, at, request, policy))

\* planOutputStock with nothing left plans: each layer gives all it holds.
PlansNothingLeft(bin, at) ==
    /\ \A l \in DOMAIN bin : Sound(l, bin[l])
    /\ \A l \in Holding(bin, at) : Covered(l, bin[l], Take(l, bin[l], bin[l].solids))
=============================================================================
