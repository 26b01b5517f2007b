CONSTANT MaxSignals = 4
SPECIFICATION FairSpec
INVARIANT DrainAfterStop
PROPERTY SignalStopsOrNested
