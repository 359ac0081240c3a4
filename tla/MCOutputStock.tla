--------------------------- MODULE MCOutputStock ---------------------------
(* A batch of three runs and a blend of two, one of them recorded late.     *)
EXTENDS OutputStock, TLC

PlacedInTurn == 1 :> 1 @@ 2 :> 2
TwoBatches == 1 :> <<1, 3, 3>> @@ 2 :> <<2, 1>>
PureAndBlend == 1 :> 1 @@ 2 :> 2

Wet(solids) == [kind |-> "wet", solids |-> solids]
Counted(solids) == [kind |-> "count", solids |-> solids]
Source(l, reading) == [layer |-> l, reading |-> reading]
Ordered(wet, sources) == [kind |-> "ordered", wet |-> wet, sources |-> sources]

SomeDeliveries ==
    {Wet(28), Ordered(30, <<Source(2, 1), Source(1, 2)>>)}
SomeLosses == {Wet(5)}
SomeCounts == {Counted(20)}
SomePreviews ==
    {[kind |-> "delivery", at |-> 2, request |-> Wet(28), corrects |-> 0],
     [kind |-> "delivery", at |-> 1, request |-> Wet(28), corrects |-> 1],
     [kind |-> "count", at |-> 2, request |-> Counted(20), corrects |-> 0]}
=============================================================================
