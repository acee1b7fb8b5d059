CONSTANTS
    Nothing = Nothing
    Documents = {"hr1", "hr2", "git", "hc", "cm", "web", "api", "local"}
    Doc <- ClusterDoc
    Applied <- Outputs
    Rendered <- ClusterRendered
    UpdatedBefore <- UpdatedRepos
SPECIFICATION FairHrSpec
INVARIANTS
    HrTypeOK
    StaleConfigExplained
    ReadyReleaseIsSound
PROPERTIES
    EveryReleaseSettles
CHECK_DEADLOCK FALSE
