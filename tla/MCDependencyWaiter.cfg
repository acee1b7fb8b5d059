CONSTANTS
    Resources   = {ks, cm}
    StatusKinds = {ks}
    WatchedKind = {}
    Waiters     = {ks, cm, o1, o2}
    Cancellable = {ks, cm, o1}
    Watchers    = {}
    Listeners   = {}
    MaxRevision = 0
    NoEvent     = NoEvent
    Deps        = {ks, cm}
    Crowds      = {{cm}}
SPECIFICATION FairWaitSpec
INVARIANTS
    ReadyMeansAllAchieved
    EventsConserved
    CancellationSwallowedOnlyByFailure
PROPERTIES
    WatchCompletes
    ResolutionImplemented
    TimeoutExplained
CHECK_DEADLOCK FALSE
