CONSTANTS
    root = root
    infra = infra
    apps = apps
    ping = ping
    pong = pong
    twice = twice
    faulty = faulty
    alone = alone
    repo = repo
    oci = oci
    cm = cm
    NoSource = NoSource
    Configs = {cm}
    Kustomizations = {root, infra, apps, alone, ping, pong, faulty, twice}
    Sources = {repo, oci}
    LocalPath = {apps, alone, ping, pong, faulty, twice}
    Malformed = {faulty}
    Repeated = {twice}
    Loads = {{root, repo}, {ping, pong, faulty, twice}, {alone}}
    DependsOn <- TwoDependsOn
    SourceRef <- TwoSourceRef
    SubstituteFrom <- TwoSubstituteFrom
    Optional <- TwoOptional
    Output <- TwoOutput
SPECIFICATION FairKsSpec
INVARIANTS
    BuildsOnReadyOnly
    NoReadyWaitingCircle
    FailureHasRoot
PROPERTIES
    FinalStatusStays
    ClosedMeansQuiet
    EveryKustomizationSettles
    ResolutionsImplemented
CHECK_DEADLOCK FALSE
