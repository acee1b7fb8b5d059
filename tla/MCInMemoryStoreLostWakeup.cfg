CONSTANTS
    Resources   = {ks, cm}
    StatusKinds = {ks}
    WatchedKind = {ks}
    Waiters     = {w1, w2}
    Cancellable = {w1}
    Watchers    = {}
    Listeners   = {}
    MaxRevision = 1
    NoEvent     = NoEvent
SPECIFICATION Spec
INVARIANT NoLostWakeup
CHECK_DEADLOCK FALSE
