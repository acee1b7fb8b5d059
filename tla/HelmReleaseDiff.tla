--------------------------- MODULE HelmReleaseDiff ---------------------------
(***************************************************************************)
(* `flux-local diff hr` (tool/diff.py, resource_diff.py) builds the cluster  *)
(* of the working tree, then that of an earlier revision, and renders only   *)
(* the HelmReleases that depend on a resource that differs.  Here is one     *)
(* HelmRelease, the same in both, whose chartRef names a HelmChart.  Its      *)
(* values are expanded twice (ValuesReferences), first for the working tree. *)
(***************************************************************************)
EXTENDS ValuesReferences

CONSTANTS
    Release,        \* the HelmRelease, a resource <<kind, name>>
    ChartSource,    \* the HelmChart
    Repository,     \* that of the HelmChart's chart
    Versions,       \* of the HelmChart: pairs of the tree's and the earlier one
    NoVersion

VARIABLES
    versions,                                       \* a member of Versions
    origData, origNext, origValues, origOutcome     \* of the earlier revision

origVars == <<origData, origNext, origValues, origOutcome>>
diffVars == <<valuesVars, versions, origVars>>

Orig == INSTANCE ValuesReferences
            WITH data <- origData, next <- origNext, values <- origValues,
                 outcome <- origOutcome

DiffInit == ValuesInit /\ Orig!ValuesInit /\ versions \in Versions

(* The earlier revision is built when the current one has been, unless an     *)
(* error has ended the command.                                            *)
DiffNext ==
    \/ ValuesNext /\ UNCHANGED <<versions, origVars>>
    \/ /\ outcome = "expanded"
       /\ Orig!ValuesNext
       /\ UNCHANGED <<data, next, values, outcome, versions>>

DiffSpec == DiffInit /\ [][DiffNext]_diffVars

-----------------------------------------------------------------------------
(* MUTANT (ChangedReleaseIsDiffed): a target path makes no dependency. *)
WholeReferences ==
    {i \in DOMAIN valuesFrom :
        /\ valuesFrom[i].target = NoTarget
        /\ \A j \in 1 .. i - 1 : valuesFrom[j].name # valuesFrom[i].name}

(* names_seen holds names, whatever their kind. *)
NewNames ==
    {i \in DOMAIN valuesFrom : \A j \in 1 .. i - 1 : valuesFrom[j].name # valuesFrom[i].name}

(* build_manifest has resolved the chartRef of both: a HelmChart with a        *)
(* version gives way to its chart.                                         *)
Chart(version) ==
    [source |-> IF version = NoVersion THEN ChartSource ELSE Repository, version |-> version]

ResourceDependencies ==
    {Release} \union {Chart(versions[i]).source : i \in 1 .. 2}
              \union {<<valuesFrom[i].kind, valuesFrom[i].name>> : i \in NewNames}

(* The resources whose content differs. *)
Changed ==
    {r \in DOMAIN data : data[r] # origData[r]}
       \union (IF versions[1] # versions[2] THEN {ChartSource} ELSE {})

(* build_helm_dependency_map and get_helm_release_diff_keys *)
IsDiffed == ResourceDependencies \intersect Changed # {}

-----------------------------------------------------------------------------
(* A reference that is no dependency of its own: an earlier one of another    *)
(* kind has its name.                                                      *)
Shadowed(r) ==
    \E i \in DOMAIN valuesFrom : \E j \in 1 .. i - 1 :
        /\ r = <<valuesFrom[i].kind, valuesFrom[i].name>>
        /\ valuesFrom[j].name = valuesFrom[i].name
        /\ valuesFrom[j].kind # valuesFrom[i].kind

(* A HelmChart with a version in both revisions is a dependency in neither.   *)
Resolved(r) == r = ChartSource /\ NoVersion \notin {versions[1], versions[2]}

(* tool/diff.py assumes "that the only way for a HelmRelease output to have a *)
(* diff is if any of the resources that the HelmRelease depends on in the     *)
(* kustomization has a diff".  So it is for its values and its chart, but for *)
(* two things that resource_dependencies does not list: of a ConfigMap and a  *)
(* Secret of one name the second, and a HelmChart that has been resolved.    *)
ChangedReleaseIsDiffed ==
    /\ outcome = "expanded" /\ origOutcome = "expanded"
    /\ values # origValues \/ Chart(versions[1]) # Chart(versions[2])
    => IsDiffed \/ \E r \in Changed : Shadowed(r) \/ Resolved(r)
=============================================================================
