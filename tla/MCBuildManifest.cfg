CONSTANTS
    infra = infra
    apps = apps
    extra = extra
    web = web
    twin = twin
    gone = gone
    old = old
    settings = settings
    secret = secret
    Root = Root
    Nothing = Nothing
    Kustomizations = {infra, apps, extra, web, twin, gone, old}
    Doc <- ClusterDoc
    Graphs <- ClusterGraphs
    Sources <- ClusterSources
    Selector <- OfTeam
    Directories <- ClusterDirectories
    Output <- ClusterOutput
    ClusterPath <- ClusterDir
    Kept = {settings}
    SkipMissing = TRUE
    Concurrency = 2
SPECIFICATION FairBmSpec
INVARIANTS
    DependenciesSubstituted
    BuildNotStale
    OneFluxPerPath
    InternalErrorExplained
PROPERTIES
    ClusterIsClosed
    ManifestEnds
CHECK_DEADLOCK FALSE
