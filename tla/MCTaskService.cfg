CONSTANTS
    Tasks      = {t1, t2, t3}
    Background = {t3}
    Blockers   = {b1}
    Joiners    = {j1}
    NoTask     = NoTask
SPECIFICATION FairSpec
INVARIANTS
    RunningIsTracked
    BlockReturnMeansDone
    CancellationNotLost
PROPERTIES
    BlockersComeBack
CHECK_DEADLOCK FALSE
