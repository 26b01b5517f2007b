CONSTANT MaxSignals = 2
SPECIFICATION FairSpec
PROPERTY SignalStops
