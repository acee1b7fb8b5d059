CONSTANTS
    root = root
    apps = apps
    repo = repo
    git = git
    oci = oci
    sec = sec
    ks_yaml = ks_yaml
    repo_yaml = repo_yaml
    NoSource = NoSource
    Kustomizations = {root, apps}
    Sources = {repo, git, oci}
    GitSources = {repo, git}
    Configs = {sec}
    LocalPath = {}
    Malformed = {}
    Repeated = {}
    Loads = {{root, repo}}
    DependsOn <- NoRefs
    SourceRef <- ClusterSourceRef
    SubstituteFrom <- ClusterSubstituteFrom
    Optional <- ClusterSubstituteFrom
    Output <- ClusterOutput
    SecretRef <- ClusterSecretRef
    Files = {ks_yaml, repo_yaml}
    Contents <- ClusterContents
    Broken = {}
    Synthetic = repo
    RepoName = NoSource
SPECIFICATION FairOrSpec
INVARIANTS
    SuccessMeansSettled
    LeftRunningExplained
PROPERTIES
    KustomizationsImplemented
    RunEnds
CHECK_DEADLOCK FALSE
