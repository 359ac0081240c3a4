CONSTANTS
    Layers = {1, 2}
    Placed <- PlacedInTurn
    Provenance <- TwoBatches
    Ratio <- PureAndBlend
    Parts = 4
    Grid = 2
    Deliveries <- SomeDeliveries
    Losses <- SomeLosses
    Counts <- SomeCounts
    Previewed <- SomePreviews
    MaxTime = 2
    MaxEntries = 3
    MaxShown = 2
SPECIFICATION Spec
INVARIANTS
    TypeOK
    StockStaysPlannable
    LaterDrawsStand
    NoMixedPileReturns
    MeasuredIsTaken
PROPERTIES
    PreviewIsKept
