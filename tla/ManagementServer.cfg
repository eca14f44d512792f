SPECIFICATION FairSpec
CONSTANT MaxSignals = 2
INVARIANT LifetimesNest
PROPERTY ProcessEnds
PROPERTY LifetimeImplemented
