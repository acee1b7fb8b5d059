----------------------------- MODULE BuildManifest -----------------------------
(***************************************************************************)
(* build_manifest (git_repo.py): it finds the Kustomizations of a cluster    *)
(* wave by wave, visiting in parallel the paths that the last wave named,    *)
(* and then builds them level by level in the order of their dependsOn.      *)
(*                                                                         *)
(* A visit and a build are tasks that run `flux build` under a semaphore     *)
(* shared by all commands, a lock for their path and a timeout, and keep the *)
(* output in a cache (CachableBuilder).  An output depends on the values     *)
(* substituted into the Kustomization at the time: here, on the set of the   *)
(* ConfigMaps and Secrets they are from.                                   *)
(***************************************************************************)
EXTENDS Manifest, FiniteSets, Naturals

CONSTANTS
    Kustomizations,
    Root,             \* stands for the visit of the cluster's own path
    Doc,              \* the document of each Kustomization, without dependsOn
    Graphs,           \* what their dependsOn may be
    Sources,          \* selector.sources: a sequence of name, namespace, root
    Selector,         \* selector.kustomization: enabled, name, namespace, labels
    Directories,      \* the paths that are there
    Output,           \* the Kustomizations and configs that flux builds for each
                      \* Kustomization, by the configs substituted into it
    ClusterPath,      \* selector.relative_path
    Kept,             \* configs that no skip_secrets or skip_kinds drops
    SkipMissing,      \* options.skip_kustomize_path_validation
    Concurrency       \* _CONCURRENCY, the permits of the semaphore

Ks == [k \in Kustomizations |-> ParseKustomization(Doc[k])]
Tasks == Kustomizations \union {Root}

ASSUME ManifestAssumption ==
    /\ Root \notin Kustomizations
    /\ \A k \in Kustomizations : Ks[k] # Nothing
    /\ ClusterPath \in Directories
    /\ \A t \in Tasks : \A C \in DOMAIN Output[t] :
          Output[t][C].kustomizations \subseteq Kustomizations
    /\ \A k \in Kustomizations : \A C \in SUBSET Ks[k].substituteFrom : C # Nothing
    /\ Nothing \notin {"task", "internal", "reference"}
    /\ SkipMissing \in BOOLEAN
    /\ Concurrency \in Nat \ {0}

VARIABLES
    phase,          \* "traversal", "building", "built"
    error,          \* what raised: Nothing, "task", "internal"
    known,          \* cluster_config: configs that the traversal has seen
    visitedPaths,   \* visited_paths
    visitedKs,      \* visited_ks, by name
    found,          \* response_kustomizations
    dependsOn,      \* depends_on of each Kustomization
    queue,          \* Kustomizations that are not built
    visited,        \* the Kustomizations of the levels that are over
    level,          \* the Kustomizations of the current wave or level
    job,            \* how far each task is
    subst,          \* configs substituted into each Kustomization
    input,          \* those of them in the input of its flux build; none in Root's
    cache,          \* the cache: the input of the output that is kept
    built,          \* the input of the output of its build, or Nothing
    orphans,        \* flux processes that outlived their task
    timedOut        \* history: tasks that timed out

findVars  == <<known, visitedPaths, visitedKs, found>>
orderVars == <<dependsOn, queue, visited, level>>
taskVars  == <<job, input, cache, built, orphans, timedOut>>
bmVars    == <<phase, error, findVars, orderVars, subst, taskVars>>

-----------------------------------------------------------------------------
(* is_allowed_source *)
IsAllowedSource(k) ==
    \/ Sources = <<>>
    \/ \E i \in DOMAIN Sources :
          /\ Sources[i].name = Ks[k].sourceName
          /\ Sources[i].namespace \in {Nothing, Ks[k].sourceNamespace}

(* adjust_ks_path: under the root of its source if the selector knows one.    *)
(* A path is the sequence of its parts, the first of an absolute one "/": the *)
(* root is dropped before such a path.                                     *)
OutsideKinds == {"OCIRepository", "ExternalArtifact"}

IsAbsolute(path) == path # <<>> /\ path[1] = "/"

Under(root, path) ==
    CASE path = Nothing -> root
      [] path # Nothing /\ IsAbsolute(path) -> path
      [] OTHER -> root \o path

KsPath(k) ==
    LET named == SelectSeq(Sources, LAMBDA s : s.name = Ks[k].sourceName)
    IN  IF /\ Ks[k].sourceKind \in OutsideKinds \union {"GitRepository"}
           /\ named # <<>> /\ named[1].root # Nothing
        THEN Under(named[1].root, Ks[k].path)
        ELSE IF Ks[k].sourceKind \in OutsideKinds THEN Nothing
        ELSE IF Ks[k].path = Nothing THEN ClusterPath
        ELSE IF IsAbsolute(Ks[k].path) THEN Tail(Ks[k].path)
        ELSE Ks[k].path

Path(t) == IF t = Root THEN ClusterPath ELSE KsPath(t)
Exists(t) == Path(t) \in Directories

(* MetadataSelector.predicate *)
IsSelected(k) ==
    /\ Selector.enabled
    /\ Selector.name \in {Nothing, Ks[k].name}
    /\ Selector.namespace \in {Nothing, Ks[k].namespace}
    /\ \A l \in DOMAIN Selector.labels : Get(Ks[k].labels, l) = Selector.labels[l]

Selected(K) == {k \in K : IsSelected(k)}
Cluster == Selected(found)

(* ks_cluster_config: what the builds so far have brought. *)
ConfigsOf(k) == IF built[k] = Nothing THEN {} ELSE Output[k][built[k]].configs \intersect Kept
BuiltConfigs == UNION {ConfigsOf(k) : k \in Cluster}

(* expand_postbuild_substitute_reference; a reference that is not found is     *)
(* skipped, and what was substituted before stays.                         *)
Substituted(k, configs) == subst[k] \union (Ks[k].substituteFrom \intersect configs)

-----------------------------------------------------------------------------
(* The Kustomizations that a dependsOn names; other names are dropped before  *)
(* anybody looks at them.                                                  *)
DependenciesOf(k, refs) ==
    {j \in Kustomizations : Id(Ks[j]) \in DependsOn(refs, Ks[k].namespace)}

BmInit ==
    /\ phase = "traversal"
    /\ error = Nothing
    /\ known = {}
    /\ visitedPaths = {ClusterPath}
    /\ visitedKs = {}
    /\ found = {}
    /\ \E graph \in Graphs :
          dependsOn = [k \in Kustomizations |-> DependenciesOf(k, graph[k])]
    /\ queue = {}
    /\ visited = {}
    /\ level = {Root}
    /\ job = [t \in Tasks |-> IF t = Root THEN "permit" ELSE "none"]
    /\ subst = [k \in Kustomizations |-> {}]
    /\ input = [t \in Tasks |-> {}]
    /\ cache = [k \in Kustomizations |-> Nothing]
    /\ built = [k \in Kustomizations |-> Nothing]
    /\ orphans = {}
    /\ timedOut = {}

Enter(t, state) == job' = [job EXCEPT ![t] = state]

(* A visit begins with a look at the path. *)
StartVisit(k) ==
    /\ job[k] = "visit"
    /\ IF Exists(k) THEN Enter(k, "permit")
       ELSE IF SkipMissing THEN Enter(k, "skipped")
       ELSE Enter(k, "failed")
    /\ UNCHANGED <<phase, error, findVars, orderVars, subst, input, cache, built>>
    /\ UNCHANGED <<orphans, timedOut>>

(* CachableBuilder.build in a build: the output that the cache has, ... *)
UseCache(k) ==
    /\ job[k] = "build"
    /\ cache[k] # Nothing
    /\ built' = [built EXCEPT ![k] = cache[k]]
    /\ Enter(k, "done")
    /\ UNCHANGED <<phase, error, findVars, orderVars, subst, input, cache, orphans, timedOut>>

(* ... or a command, which is queued for the semaphore. *)
MissCache(k) ==
    /\ job[k] = "build"
    /\ cache[k] = Nothing
    /\ Enter(k, "permit")
    /\ UNCHANGED <<phase, error, findVars, orderVars, subst, input, cache, built>>
    /\ UNCHANGED <<orphans, timedOut>>

(* run_piped: the permit is held while the command waits for its path.  The   *)
(* cluster's own path is only read, by a command that takes no lock.         *)
Permits == {t \in Tasks : job[t] \in {"lock", "running"}}

AcquirePermit(t) ==
    /\ job[t] = "permit"
    /\ Cardinality(Permits) < Concurrency
    /\ IF t = Root THEN Enter(t, "running") /\ UNCHANGED input
       ELSE Enter(t, "lock") /\ input' = [input EXCEPT ![t] = subst[t]]
    /\ UNCHANGED <<phase, error, findVars, orderVars, subst, cache, built, orphans, timedOut>>

(* MUTANT (OneFluxPerPath): a lock for each Kustomization. *)
LockFreeOfOwn(k) == job[k] # "running"

(* _resource_lock *)
LockFree(k) == \A j \in Kustomizations : job[j] = "running" => Path(j) # Path(k)

StartFlux(k) ==
    /\ job[k] = "lock"
    /\ LockFree(k)
    /\ Enter(k, "running")
    /\ UNCHANGED <<phase, error, findVars, orderVars, subst, input, cache, built>>
    /\ UNCHANGED <<orphans, timedOut>>

(* What a visit yields: the build of the Kustomization that it is for, which   *)
(* VisitResult refuses when two Kustomizations in it have one name.          *)
Name(k) == Id(Ks[k])
Yield(t) == Output[t][input[t]]
Allowed(t) == {k \in Kustomizations : k \in Yield(t).kustomizations /\ IsAllowedSource(k)}
NamesTwice(t) == \E j, k \in Allowed(t) : j # k /\ Name(j) = Name(k)

(* The output is kept, and a build's is the Kustomization's. *)
TaskSucceeds(t) ==
    /\ job[t] = "running"
    /\ Enter(t, IF phase = "traversal" /\ NamesTwice(t) THEN "failed" ELSE "done")
    /\ IF t = Root THEN UNCHANGED <<cache, built>>
       ELSE /\ cache' = [cache EXCEPT ![t] = input[t]]
            /\ built' = IF phase = "traversal" THEN built ELSE [built EXCEPT ![t] = input[t]]
    /\ UNCHANGED <<phase, error, findVars, orderVars, subst, input, orphans, timedOut>>

(* The command fails, or its output does not parse. *)
TaskFails(t) ==
    /\ job[t] = "running"
    /\ Enter(t, "failed")
    /\ UNCHANGED <<phase, error, findVars, orderVars, subst, input, cache, built>>
    /\ UNCHANGED <<orphans, timedOut>>

(* MUTANT (ManifestEnds): only the wait for the path has a timeout. *)
MayTimeOutWaiting(t) == job[t] = "lock"

MayTimeOut(t) == job[t] \in {"lock", "running"}

(* wait_for cancels the command with its wait for the lock, but nobody kills  *)
(* the process.                                                            *)
TimesOut(t) ==
    /\ MayTimeOut(t)
    /\ Enter(t, "failed")
    /\ orphans' = IF job[t] = "running" THEN orphans \union {t} ELSE orphans
    /\ timedOut' = timedOut \union {t}
    /\ UNCHANGED <<phase, error, findVars, orderVars, subst, input, cache, built>>

OrphanEnds(t) ==
    /\ t \in orphans
    /\ orphans' = orphans \ {t}
    /\ UNCHANGED <<phase, error, findVars, orderVars, subst, job, input, cache, built, timedOut>>

-----------------------------------------------------------------------------
(* The gather of a wave or a level raises the first error; the other tasks    *)
(* run on.                                                                 *)
GatherRaises ==
    /\ error = Nothing
    /\ \E t \in level : job[t] = "failed"
    /\ error' = "task"
    /\ UNCHANGED <<phase, findVars, orderVars, subst, taskVars>>

LevelDone == \A t \in level : job[t] \in {"done", "skipped"}

(* Of those in K that have one key the first one counts, and none if the key   *)
(* was seen before; the order of K is left open.                           *)
FirstOf(K, key, seen) ==
    {F \in SUBSET {k \in K : key[k] \notin seen} :
        /\ \A k \in K : key[k] \in seen \union {key[f] : f \in F}
        /\ \A f, g \in F : key[f] = key[g] => f = g}

(* What the wave has found; a path that is not there holds nothing.  A name   *)
(* stands for the Kustomization that it was first found for.                 *)
Visits == {t \in level : job[t] = "done"}
NewConfigs == UNION {Yield(t).configs : t \in Visits}
NewKs ==
    FirstOf(UNION {Allowed(t) : t \in Visits}, [k \in Kustomizations |-> Name(k)], visitedKs)

(* MUTANT (ClusterIsClosed): a wave visits a single path, others are lost. *)
OneVisit(K) ==
    LET new == {k \in K : Path(k) \notin visitedPaths}
    IN  IF new = {} THEN {{}} ELSE {{w} : w \in new}

(* The Kustomizations of K that stand for the paths to visit next: the others *)
(* of the same path are not visited, even if they were to build something    *)
(* else from it.                                                           *)
NextVisits(K) == FirstOf(K, [k \in Kustomizations |-> Path(k)], visitedPaths)

Reachable(K) == {k \in K : KsPath(k) # Nothing}

(* All of the cluster's are to be built; validate_depends_on drops what the   *)
(* cluster does not have.                                                  *)
StartBuilding(cluster) ==
    /\ phase' = "building"
    /\ queue' = cluster
    /\ dependsOn' = [k \in Kustomizations |->
                       IF k \in cluster THEN dependsOn[k] \intersect cluster ELSE dependsOn[k]]

(* A step from what the wave has found: the new Kustomizations. *)
MergeNew(new) ==
    LET queued == Reachable(new)
    IN  /\ known' = known \union NewConfigs
        /\ visitedKs' = visitedKs \union {Name(k) : k \in new}
        /\ found' = found \union queued
        /\ subst' = [k \in Kustomizations |->
                        IF k \in queued THEN Substituted(k, known') ELSE subst[k]]
        /\ \E W \in NextVisits(queued) :
              /\ level' = W
              /\ visitedPaths' = visitedPaths \union {Path(w) : w \in W}
              /\ job' = [t \in Tasks |-> IF t \in W THEN "visit" ELSE job[t]]
              /\ IF W = {} THEN StartBuilding(Selected(found'))
                 ELSE UNCHANGED <<phase, dependsOn, queue>>
        /\ UNCHANGED <<error, visited, input, cache, built, orphans, timedOut>>

MergeWave ==
    /\ phase = "traversal"
    /\ error = Nothing
    /\ LevelDone
    /\ \E new \in NewKs : MergeNew(new)

-----------------------------------------------------------------------------
(* MUTANT (DependenciesSubstituted): dependsOn is ignored. *)
ReadyAtOnce == queue

(* _ready_kustomizations *)
Ready == {k \in queue : dependsOn[k] \subseteq visited}

Skipped(k) == SkipMissing /\ ~Exists(k)

(* MUTANT (BuildNotStale): the cache keeps what it has. *)
KeepCache(K) == cache

(* builder.remove, for those with substitutions from references. *)
Invalidated(K) ==
    [k \in Kustomizations |-> IF k \in K /\ Ks[k].substituteFrom # {} THEN Nothing ELSE cache[k]]

StartLevel ==
    LET builds == {k \in Ready : ~Skipped(k)}
    IN  /\ phase = "building"
        /\ error = Nothing
        /\ level = {}
        /\ queue # {}
        /\ builds # {}
        /\ subst' = [k \in Kustomizations |->
                        IF k \in builds THEN Substituted(k, BuiltConfigs) ELSE subst[k]]
        /\ cache' = Invalidated(builds)
        /\ job' = [t \in Tasks |-> IF t \in builds THEN "build"
                                   ELSE IF t \in Ready THEN "skipped" ELSE job[t]]
        /\ level' = Ready
        /\ queue' = queue \ Ready
        /\ UNCHANGED <<phase, error, findVars, dependsOn, visited, input, built, orphans, timedOut>>

(* A ConfigMap or Secret that is found for a reference need not decode: the   *)
(* exception is that of the traversal or of the level.                      *)
ReferenceRaises ==
    /\ error = Nothing
    /\ \/ /\ phase = "traversal"
          /\ LevelDone
          /\ \E new \in NewKs : \E k \in Reachable(new) :
                Ks[k].substituteFrom \intersect (known \union NewConfigs) # {}
       \/ /\ phase = "building"
          /\ level = {}
          /\ \E k \in Ready : ~Skipped(k) /\ Ks[k].substituteFrom \intersect BuiltConfigs # {}
    /\ error' = "reference"
    /\ UNCHANGED <<phase, findVars, orderVars, subst, taskVars>>

(* "Internal error: Unexpected loop without build tasks" *)
NothingToBuild ==
    /\ phase = "building"
    /\ error = Nothing
    /\ level = {}
    /\ queue # {}
    /\ \A k \in Ready : Skipped(k)
    /\ error' = "internal"
    /\ UNCHANGED <<phase, findVars, orderVars, subst, taskVars>>

(* MUTANT (InternalErrorExplained): those that were skipped are not visited. *)
BuiltOf(K) == {k \in K : job[k] = "done"}

NowVisited(K) == K

EndLevel ==
    /\ phase = "building"
    /\ error = Nothing
    /\ level # {}
    /\ LevelDone
    /\ visited' = visited \union NowVisited(level)
    /\ level' = {}
    /\ UNCHANGED <<phase, error, findVars, dependsOn, queue, subst, taskVars>>

EndManifest ==
    /\ phase = "building"
    /\ error = Nothing
    /\ level = {}
    /\ queue = {}
    /\ phase' = "built"
    /\ UNCHANGED <<error, findVars, orderVars, subst, taskVars>>

-----------------------------------------------------------------------------
TaskStep(t) == AcquirePermit(t) \/ TaskSucceeds(t) \/ TaskFails(t) \/ TimesOut(t)
KsStep(k) == StartVisit(k) \/ UseCache(k) \/ MissCache(k) \/ StartFlux(k)

ManifestStep ==
    \/ GatherRaises \/ MergeWave \/ StartLevel \/ ReferenceRaises
    \/ NothingToBuild \/ EndLevel \/ EndManifest

BmNext ==
    \/ ManifestStep
    \/ \E t \in Tasks : TaskStep(t) \/ OrphanEnds(t)
    \/ \E k \in Kustomizations : KsStep(k)

BmSpec == BmInit /\ [][BmNext]_bmVars

(* The event loop runs what is ready.  A command need not end, nor get its    *)
(* path: but then it times out.                                            *)
BmFairness ==
    /\ WF_bmVars(ManifestStep)
    /\ \A t \in Tasks : WF_bmVars(AcquirePermit(t)) /\ WF_bmVars(TimesOut(t))
    /\ \A k \in Kustomizations : WF_bmVars(KsStep(k))

FairBmSpec == BmSpec /\ BmFairness

-----------------------------------------------------------------------------
(* When the traversal ends, each path of the cluster that is there has been   *)
(* visited by a Kustomization of the cluster, and of what its build held      *)
(* none is missing: a Kustomization of that name has been found, unless one   *)
(* of that name is of a source the selector does not know.  What only the    *)
(* others of the same path would have built, with substitutions of their own, *)
(* is lost, and nothing is said of it.                                      *)
Outside(id) == \E k \in Kustomizations : Name(k) = id /\ KsPath(k) = Nothing

VisitedFor(t, v) ==
    /\ Path(v) = Path(t)
    /\ job[v] = "done"
    /\ \A k \in Allowed(v) : Outside(Name(k)) \/ \E j \in found' : Name(j) = Name(k)

ClusterIsClosed ==
    [][phase = "traversal" /\ phase' = "building" =>
          \A t \in found' \union {Root} :
              Exists(t) => \E v \in found' \union {Root} : VisitedFor(t, v)]_bmVars

(* A Kustomization is built after those that it depends on, with the          *)
(* substitutions from every ConfigMap or Secret that it refers to and that   *)
(* one of them provides.                                                   *)
DependenciesSubstituted ==
    \A k \in Kustomizations : built[k] # Nothing =>
        \A d \in dependsOn[k] :
            ~Skipped(d) => /\ built[d] # Nothing
                           /\ Ks[k].substituteFrom \intersect ConfigsOf(d) \subseteq built[k]

(* The output of a build, cached or not, is that of the substitutions its     *)
(* Kustomization has: the outputs of the visits, which come before some of    *)
(* the substitutions, are not taken for it.                                *)
BuildNotStale ==
    \A k \in Kustomizations : built[k] # Nothing => built[k] = subst[k]

(* `flux build` writes to the path it builds: two processes have the same     *)
(* path only after a timeout left one of them behind.                      *)
Processes(p) ==
    {t \in Kustomizations : Path(t) = p /\ (job[t] = "running" \/ t \in orphans)}

OneFluxPerPath ==
    \A j, k \in Kustomizations :
        j # k /\ {j, k} \subseteq Processes(Path(k)) =>
            \E t \in timedOut : Path(t) = Path(k)

(* The internal error has a reason in the repository: Kustomizations that     *)
(* depend on each other in a circle, or paths that are not there.            *)
Circle(K) == \A k \in K : dependsOn[k] \intersect K # {}

InternalErrorExplained ==
    error = "internal" =>
        \/ \E K \in (SUBSET queue) \ {{}} : Circle(K)
        \/ Ready # {}

(* The build of the manifest ends, whatever its commands do. *)
ManifestEnds == <>(phase = "built" \/ error # Nothing)

(* tool/selector.py, --skip-invalid-kustomization-paths: "Don't validate       *)
(* kustomization paths exist."  With it a path that is not there is no error. *)
MissingPathsTolerated ==
    SkipMissing /\ (\A K \in (SUBSET Cluster) \ {{}} : ~Circle(K)) => error # "internal"
=============================================================================
