CONSTANTS
    Root = Root
    NoBus = NoBus
    Subscribers = {s1, s2}
    MaxEvents = 2
SPECIFICATION FairSpec
INVARIANTS UpToDate
PROPERTIES ImplementsBroadcast BusesProgress
