CONSTANTS
    Nothing = Nothing
    Documents = {"hr1", "hr2", "git", "hc", "cm", "web", "api", "local"}
    Doc <- ClusterDoc
    Applied <- Outputs
    Rendered <- ClusterRendered
    UpdatedBefore <- UpdatedRepos
SPECIFICATION FairHrSpec
INVARIANTS
    UpdatedBeforeTemplating
CHECK_DEADLOCK FALSE
