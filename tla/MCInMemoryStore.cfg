CONSTANTS
    Resources   = {ks, cm}
    StatusKinds = {ks}
    WatchedKind = {ks}
    Waiters     = {w1, w2}
    Cancellable = {w1}
    Watchers    = {g1}
    Listeners   = {l1}
    MaxRevision = 1
    NoEvent     = NoEvent
SPECIFICATION FairSpec
INVARIANTS
    WakeupLostOnlyToCancellation
    ReadyNeverMissed
    PromptWatcherMissesNothing
    ListenersUpToDate
PROPERTIES
    AnswerIsCurrentStatus
    WaitersAnswered
CHECK_DEADLOCK FALSE
