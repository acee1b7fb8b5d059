CONSTANTS
    References <- AllReferences
    Clusters <- AllData
    MaxReferences = 3
    OwnValues <- AllOwn
    Release <- ReleaseId
    ChartSource <- ChartId
    Versions <- AllVersions
    NoVersion = NoVersion
    Repository <- RepositoryId
    NoTarget = NoTarget
    Dictionary = Dictionary
    NoData = NoData
    Undecodable = Undecodable
    Placeholder <- PlaceholderText
SPECIFICATION DiffSpec
INVARIANTS
    LastReferenceWins
    ErrorHasReason
    ChangedReleaseIsDiffed
CHECK_DEADLOCK FALSE
