---------------------------- MODULE HelmController ----------------------------
(***************************************************************************)
(* The HelmReleaseController (helm_controller/controller.py) and its Helm    *)
(* client (helm.py).  Listeners of the store hand repositories to the client *)
(* and make a task for every HelmRelease, which waits for what the release  *)
(* refers to, updates the client's repositories if some are new, renders    *)
(* the chart and adds the result to the store.                             *)
(*                                                                         *)
(* The client keeps a list of repositories in memory and writes it to the    *)
(* file that the helm binary reads: helm finds a chart of a repository that *)
(* has an index only if the file names that repository.                    *)
(***************************************************************************)
EXTENDS Manifest, FiniteSetsExt, SequencesExt

CONSTANTS
    Documents,       \* what is applied to the cluster while the program runs
    Applied,         \* the outputs of Kustomizations: sets of documents
    Doc,             \* each document
    Rendered,        \* what the chart of a release renders to
    UpdatedBefore    \* _UPDATED_CACHE at the start: sets of repositories

Object == [d \in Documents |-> ParseRawObj(Doc[d])]
OfKind(kind) == {d \in Documents : Object[d].kind = kind}

Releases == OfKind("HelmRelease")

ASSUME HelmAssumption ==
    /\ IsFiniteSet(Documents)
    /\ \A d \in Documents : Object[d] # Nothing
    /\ \A d, e \in Documents : Id(Object[d]) = Id(Object[e]) => d = e
    /\ Applied \subseteq SUBSET Documents
    /\ Rendered \in [Releases -> SUBSET Documents]
    /\ UpdatedBefore \subseteq SUBSET Documents

VARIABLES
    stored,       \* the documents in the store
    status,       \* the status of releases and GitRepositories
    artifact,     \* those of them with an artifact
    needUpdate,   \* _need_update
    repos,        \* the client's _repos, in the order they were added
    config,       \* the repositories in the configuration file of helm
    updated,      \* _UPDATED_CACHE: sets of repositories helm has an index of
    phase,        \* how far the task of each release is
    wait,         \* how far its wait for each of its dependencies is
    snapshot,     \* the repositories its update is about
    cancelled,    \* releases whose task somebody called cancel() on
    tasks,        \* _tasks: the releases in the order of their tasks
    closing,      \* close(): "no", "cancelling", "over"
    awaited,      \* the position in _tasks of the task close() waits for
    late          \* history: repositories added while an update was under way

helmVars  == <<needUpdate, repos, config, updated, snapshot, late>>
closeVars == <<cancelled, closing, awaited>>
hrVars    == <<stored, status, artifact, helmVars, phase, wait, tasks, closeVars>>

Updating == {r \in Releases : phase[r] \in {"opening", "writing", "fetching"}}
Busy == {r \in Releases : phase[r] \in {"scheduled", "waiting", "rendering"}} \union Updating

SetStatus(d, s) == status' = [status EXCEPT ![d] = s]
Enter(r, p) == phase' = [phase EXCEPT ![r] = p]
Fail(r) == SetStatus(r, "Failed") /\ Enter(r, "done")

-----------------------------------------------------------------------------
(* The listeners see nothing but what is added after them. *)
HrInit ==
    /\ stored = {}
    /\ status = [d \in Releases \union OfKind("GitRepository") |-> "None"]
    /\ artifact = {}
    /\ needUpdate = FALSE
    /\ repos = <<>>
    /\ config = {}
    /\ updated = UpdatedBefore
    /\ phase = [r \in Releases |-> "absent"]
    /\ wait = [r \in Releases |-> [d \in {} |-> "none"]]
    /\ snapshot = [r \in Releases |-> {}]
    /\ cancelled = {}
    /\ tasks = <<>>
    /\ closing = "no"
    /\ awaited = 0
    /\ late = {}

(* MUTANT (HrTypeOK): listeners hear again of what is in the store. *)
AllOf(D) == D

(* What the store tells its listeners of. *)
New(D) == D \ stored

(* _added_listener, once for each document of D that is new to the store. *)
Heard(D) ==
    LET new      == New(D)
        newRepos == new \intersect (OfKind("HelmRepository") \union OfKind("OCIRepository"))
    IN  /\ stored' = stored \union D
        /\ needUpdate' = (needUpdate \/ newRepos # {})
        /\ \E q \in SetToSeqs(newRepos) : repos' = repos \o q
        /\ late' = IF Updating # {} THEN late \union newRepos ELSE late
        /\ \E q \in SetToSeqs(new \intersect Releases) : tasks' = tasks \o q

Scheduled(D) == New(D) \intersect Releases

(* The KustomizationController applies its output, without an await between. *)
ApplyOutput(D) ==
    /\ ~(D \subseteq stored)
    /\ Heard(D)
    /\ phase' = [r \in Releases |-> IF r \in Scheduled(D) THEN "scheduled" ELSE phase[r]]
    /\ UNCHANGED <<status, artifact, config, updated, wait, snapshot, closeVars>>

(* The SourceController has fetched a GitRepository; _artifact_listener. *)
GitRepositoryFetched(g) ==
    /\ g \in stored \ artifact
    /\ artifact' = artifact \union {g}
    /\ SetStatus(g, "Ready")
    /\ needUpdate' = TRUE
    /\ repos' = Append(repos, g)
    /\ UNCHANGED <<stored, config, updated, snapshot, late, phase, wait, tasks, closeVars>>

-----------------------------------------------------------------------------
(* MUTANT (ReadyReleaseIsSound): only the chart's source is waited for. *)
SourceOnly(r) == {Object[r].chart.repo}

Required(v) == ~v.optional /\ v.kind \in {"ConfigMap", "Secret"}

(* wait_for_dependencies: what it waits for. *)
Dependencies(r) ==
    {Resource(v.kind, Object[r].namespace, v.name) :
        v \in {w \in ToSet(Object[r].valuesFrom) : Required(w)}}
      \union {Object[r].chart.repo}

StartRelease(r) ==
    /\ phase[r] = "scheduled"
    /\ r \notin cancelled
    /\ SetStatus(r, "Pending")
    /\ wait' = [wait EXCEPT ![r] = [d \in Dependencies(r) |-> "running"]]
    /\ Enter(r, "waiting")
    /\ UNCHANGED <<stored, artifact, helmVars, tasks, closeVars>>

(* wait_for_resource_ready and wait_for_resource_exists.  Nothing sets a      *)
(* GitRepository FAILED, so that waits end well or not at all.              *)
Found(id) == {d \in stored : Id(Object[d]) = id}

Available(id) ==
    IF id.kind = "GitRepository"
    THEN \E d \in Found(id) : status[d] = "Ready"
    ELSE Found(id) # {}

WaitEnds(r, id) ==
    /\ id \in DOMAIN wait[r]
    /\ wait[r][id] = "running"
    /\ Available(id)
    /\ wait' = [wait EXCEPT ![r][id] = "done"]
    /\ UNCHANGED <<stored, status, artifact, helmVars, phase, tasks, closeVars>>

CancelWaits(r) ==
    wait' = [wait EXCEPT ![r] =
               [id \in DOMAIN @ |-> IF @[id] = "running" THEN "cancelled" ELSE @[id]]]

Waited(r) == \A id \in DOMAIN wait[r] : wait[r][id] = "done"

(* MUTANT (EveryReleaseSettles): the gather has no timeout. *)
WaitsForever(r) == FALSE

MayTimeOut(r) == phase[r] = "waiting"

(* asyncio.timeout around the gather; it may fire when all waits have ended   *)
(* and the release has not taken note of it.                               *)
WaitsTimeOut(r) ==
    /\ MayTimeOut(r)
    /\ r \notin cancelled
    /\ CancelWaits(r)
    /\ Fail(r)
    /\ UNCHANGED <<stored, artifact, helmVars, tasks, closeVars>>

-----------------------------------------------------------------------------
(* _resolve_helm_chart *)
Chart(r) ==
    LET chart == Object[r].chart
    IN  IF chart.repo.kind # "HelmChart" THEN chart
        ELSE ResolveChart(chart, Object[CHOOSE d \in Found(chart.repo) : TRUE])

(* The first repository with the name of the one that the release names,     *)
(* whatever its kind.                                                      *)
Repository(r) ==
    LET named == SelectSeq(repos, LAMBDA d : FullName(Id(Object[d])) = FullName(Chart(r).repo))
    IN  IF named = <<>> THEN Nothing ELSE named[1]

(* _chart_name: where helm is told to find the chart: in a repository of its *)
(* configuration, or elsewhere; or no answer.                              *)
ChartLocation(r) ==
    LET kind == Chart(r).repo.kind
        repo == Repository(r)
        is(k) == repo # Nothing /\ Object[repo].kind = k
    IN  CASE kind = "OCIRepository" -> IF is("OCIRepository") THEN "url" ELSE "none"
          [] kind \in {"HelmRepository", "HelmChart"} ->
               IF ~is("HelmRepository") THEN "none"
               ELSE IF Object[repo].type = "oci" THEN "url" ELSE "index"
          [] kind = "GitRepository" -> IF is("GitRepository") THEN "local" ELSE "path"
          [] OTHER -> "none"

(* Helm.template: up to the rendering command. *)
Template(r) ==
    IF ChartLocation(r) = "none" THEN Fail(r) ELSE Enter(r, "rendering") /\ UNCHANGED status

(* The repositories that go into the configuration. *)
IndexedRepos ==
    {d \in ToSet(repos) : Object[d].kind = "HelmRepository" /\ Object[d].type # "oci"}

(* With all it waits for there, a release updates the repositories if that is *)
(* due; an update without any repository to write is over at once.         *)
DependenciesReady(r) ==
    /\ phase[r] = "waiting"
    /\ r \notin cancelled
    /\ Waited(r)
    /\ IF needUpdate /\ IndexedRepos # {}
       THEN /\ snapshot' = [snapshot EXCEPT ![r] = IndexedRepos]
            /\ Enter(r, "opening")
            /\ UNCHANGED <<status, needUpdate>>
       ELSE /\ needUpdate' = FALSE
            /\ Template(r)
            /\ UNCHANGED snapshot
    /\ UNCHANGED <<stored, artifact, repos, config, updated, late, wait, tasks, closeVars>>

(* Helm.update opens the file, which empties it, ... *)
OpenConfig(r) ==
    /\ phase[r] = "opening"
    /\ r \notin cancelled
    /\ config' = {}
    /\ Enter(r, "writing")
    /\ UNCHANGED <<stored, status, artifact, needUpdate, repos, updated, snapshot, late>>
    /\ UNCHANGED <<wait, tasks, closeVars>>

(* MUTANT (StaleConfigExplained): nothing is written for repositories that    *)
(* were updated before.                                                    *)
ConfigUnlessUpdated(r) == IF snapshot[r] \in updated THEN config ELSE snapshot[r]

(* Every update writes from the beginning of the file, through a handle of    *)
(* its own, a list that begins with what an earlier one wrote: of what two    *)
(* updates write after both have opened the file the longer list remains.   *)
WrittenConfig(r) == config \union snapshot[r]

(* ... writes what it was called with, and runs the command unless it has    *)
(* been run for these repositories before.                                 *)
WriteConfig(r) ==
    /\ phase[r] = "writing"
    /\ r \notin cancelled
    /\ config' = WrittenConfig(r)
    /\ IF snapshot[r] \in updated
       THEN needUpdate' = FALSE /\ Template(r)
       ELSE Enter(r, "fetching") /\ UNCHANGED <<status, needUpdate>>
    /\ UNCHANGED <<stored, artifact, repos, updated, snapshot, late, wait, tasks, closeVars>>

UpdateSucceeds(r) ==
    /\ phase[r] = "fetching"
    /\ r \notin cancelled
    /\ updated' = updated \union {snapshot[r]}
    /\ needUpdate' = FALSE
    /\ Template(r)
    /\ UNCHANGED <<stored, artifact, repos, config, snapshot, late, wait, tasks, closeVars>>

UpdateFails(r) ==
    /\ phase[r] = "fetching"
    /\ r \notin cancelled
    /\ Fail(r)
    /\ UNCHANGED <<stored, artifact, helmVars, wait, tasks, closeVars>>

-----------------------------------------------------------------------------
(* What the command needs of the configuration. *)
HelmFinds(r) == ChartLocation(r) = "index" => Repository(r) \in config

RenderFails(r) ==
    /\ phase[r] = "rendering"
    /\ r \notin cancelled
    /\ Fail(r)
    /\ UNCHANGED <<stored, artifact, helmVars, wait, tasks, closeVars>>

(* The release is done, those among the documents that it added are to be.    *)
Ends(r, D) ==
    phase' = [q \in Releases |-> IF q = r THEN "done"
                                 ELSE IF q \in Scheduled(D) THEN "scheduled"
                                 ELSE phase[q]]

(* Objects are added up to one that does not parse. *)
ApplyFails(r) ==
    /\ phase[r] = "rendering"
    /\ r \notin cancelled
    /\ HelmFinds(r)
    /\ \E D \in SUBSET Rendered[r] : Heard(D) /\ Ends(r, D)
    /\ SetStatus(r, "Failed")
    /\ UNCHANGED <<artifact, config, updated, wait, snapshot, closeVars>>

RenderSucceeds(r) ==
    /\ phase[r] = "rendering"
    /\ r \notin cancelled
    /\ HelmFinds(r)
    /\ Heard(Rendered[r])
    /\ artifact' = artifact \union {r}
    /\ SetStatus(r, "Ready")
    /\ Ends(r, Rendered[r])
    /\ UNCHANGED <<config, updated, wait, snapshot, closeVars>>

-----------------------------------------------------------------------------
(* close() cancels the tasks in order and awaits each before the next; none   *)
(* of them raises.                                                         *)
CloseFrom(n) ==
    LET left == {i \in n .. Len(tasks) : tasks[i] \in Busy}
    IN  IF left = {}
        THEN closing' = "over" /\ UNCHANGED <<awaited, cancelled>>
        ELSE /\ closing' = "cancelling"
             /\ awaited' = Min(left)
             /\ cancelled' = cancelled \union {tasks[Min(left)]}

Close ==
    /\ \/ closing = "no" /\ CloseFrom(1)
       \/ closing = "cancelling" /\ tasks[awaited] \notin Busy /\ CloseFrom(awaited)
    /\ UNCHANGED <<stored, status, artifact, helmVars, phase, wait, tasks>>

(* Somebody cancels the run() of the Orchestrator while it gathers the tasks  *)
(* that were active when it began to; once, before the controllers are closed. *)
CancelReleases(R) ==
    /\ R # {}
    /\ cancelled = {}
    /\ closing = "no"
    /\ cancelled' = cancelled \union R
    /\ UNCHANGED <<stored, status, artifact, helmVars, phase, wait, tasks, closing, awaited>>

(* Nobody catches a CancelledError; the gather passes it on to its waits. *)
TakeCancellation(r) ==
    /\ r \in cancelled \intersect Busy
    /\ CancelWaits(r)
    /\ Enter(r, "cancelled")
    /\ UNCHANGED <<stored, status, artifact, helmVars, tasks, closeVars>>

-----------------------------------------------------------------------------
UpdateStep(r) == OpenConfig(r) \/ WriteConfig(r) \/ UpdateSucceeds(r) \/ UpdateFails(r)
RenderStep(r) == RenderFails(r) \/ ApplyFails(r) \/ RenderSucceeds(r)

ReleaseStep(r) ==
    \/ StartRelease(r)
    \/ WaitsTimeOut(r)
    \/ DependenciesReady(r)
    \/ UpdateStep(r)
    \/ RenderStep(r)
    \/ TakeCancellation(r)

HrNext ==
    \/ \E D \in Applied : ApplyOutput(D)
    \/ \E g \in OfKind("GitRepository") : GitRepositoryFetched(g)
    \/ \E r \in Releases : ReleaseStep(r)
    \/ \E r \in Releases, id \in UNION {Dependencies(q) : q \in Releases} : WaitEnds(r, id)
    \/ \E R \in SUBSET Busy : CancelReleases(R)
    \/ Close

HrSpec == HrInit /\ [][HrNext]_hrVars

(* A wait has a timeout of five seconds, a command one of a minute. *)
FairHrSpec == HrSpec /\ \A r \in Releases : WF_hrVars(ReleaseStep(r))

-----------------------------------------------------------------------------
Phases == {"absent", "scheduled", "waiting", "opening", "writing", "fetching", "rendering",
           "done", "cancelled"}

(* Types; a repository is handed to the client once, and _tasks holds one     *)
(* task of each release in the store.                                      *)
HrTypeOK ==
    /\ stored \subseteq Documents
    /\ status \in [Releases \union OfKind("GitRepository") ->
                     {"None", "Pending", "Ready", "Failed"}]
    /\ artifact \subseteq stored
    /\ needUpdate \in BOOLEAN
    /\ ToSet(repos) \subseteq stored /\ IsInjective(repos)
    /\ config \subseteq ToSet(repos)
    /\ updated \subseteq SUBSET Documents
    /\ phase \in [Releases -> Phases]
    /\ ToSet(tasks) = stored \intersect Releases /\ IsInjective(tasks)
    /\ \A r \in Releases : phase[r] = "absent" <=> r \notin stored

(* As long as nobody is cancelled, a repository of the client is missing from *)
(* helm's configuration, with no update due and none under way, only if it    *)
(* was added while an update was under way: reconcile_helm_release clears     *)
(* _need_update after the await.                                            *)
StaleConfigExplained ==
    cancelled = {} /\ ~needUpdate /\ Updating = {} => IndexedRepos \subseteq config \union late

(* A release is READY only if every ConfigMap and Secret that it must have    *)
(* its values from is in the store, its chart's source is, one that is a      *)
(* GitRepository is READY, and its output is complete.                     *)
ReadyReleaseIsSound ==
    \A r \in Releases : status[r] = "Ready" =>
        /\ Rendered[r] \subseteq stored
        /\ r \in artifact
        /\ \A v \in ToSet(Object[r].valuesFrom) :
              Required(v) => Found(Resource(v.kind, Object[r].namespace, v.name)) # {}
        /\ \E d \in Found(Object[r].chart.repo) :
              Object[d].kind = "GitRepository" => status[d] = "Ready"

(* Every release that is added is READY, FAILED or cancelled in the end, and  *)
(* none of the waits for its dependencies outlives it.                     *)
EveryReleaseSettles ==
    <>[](\A r \in Releases \intersect stored :
            /\ \/ phase[r] = "done" /\ status[r] \in {"Ready", "Failed"}
               \/ phase[r] = "cancelled"
            /\ \A id \in DOMAIN wait[r] : wait[r][id] # "running")

(* helm.py, Helm.update: "Typically the repository must be updated before     *)
(* doing any chart templating."  With no update under way and nobody          *)
(* cancelled, the repository that the chart is rendered from is in helm's     *)
(* configuration.                                                           *)
UpdatedBeforeTemplating ==
    \A r \in Releases :
        phase[r] = "rendering" /\ Updating = {} /\ cancelled = {} => HelmFinds(r)
=============================================================================
