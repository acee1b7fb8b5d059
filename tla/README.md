# flux-local in TLA+

flux-local builds a Flux repository on the developer's machine. Since its
orchestrator was added it is a small cluster in one process: controllers watch
an object store, wait for each other's resources, build and write back, all as
coroutines of one asyncio event loop. Beside it is the older `build_manifest`,
which walks a repository and builds it level by level, and which `diff hr` uses.
This directory holds models of both, the TLC runs that check them on small
instances, and the proofs that TLAPS checks for every instance.

Paths below are relative to `src/flux_local/`.

## Inventory

| Part | State | Operations | Promise |
|---|---|---|---|
| Object store (`store/in_memory.py`) | objects, statuses, artifacts, listeners, one Event per resource somebody waits for | `add_object`, `update_status`, `set_artifact`, `add_listener`, `watch_ready`, `watch_exists`, `watch_added` | whoever waits is told, once, with what is so now; a late listener is replayed exactly what it missed |
| DependencyWaiter (`store/watcher.py`) | a task per dependency, the outcomes, an event queue, the count of events | `add`, `watch`, `cancel_pending_watches`, `get_summary` | every dependency gets one final outcome; READY only if it was there; nothing is left running |
| TaskService (`task/service.py`) | active and background tasks | `create_task`, `create_background_task`, `block_till_done`, `wait_for_task`, `_task_done` | what runs is tracked, `block_till_done` returns when its tasks are done |
| KustomizationController (`kustomize_controller/controller.py`) | a reconcile task per Kustomization; its status and output in the store | watch, `reconcile`, `_build_kustomization`, `_apply`, `close` | built only on READY dependencies; one final status; no deadlock on circles |
| SourceController (`source_controller/controller.py`) | a fetch task per source | listener, `on_source_added`, `fetch`, `close` | READY with an artifact, or FAILED |
| HelmReleaseController (`helm_controller/controller.py`) | whether the repositories need an update, a task per HelmRelease | listeners, `reconcile_helm_release`, waits, `close` | charts are templated from updated repositories and existing values |
| Helm client (`helm.py`) | the list of repositories, the configuration file, a cache of updates | `add_repos`, `update`, `template` | the file that helm reads names the repositories in use |
| Orchestrator (`orchestrator/orchestrator.py`), ResourceLoader (`orchestrator/loader.py`) | controllers, background tasks | `bootstrap`, `start`, `run`, `stop`, `load` | success only when all work is done and nothing failed; `stop` leaves nothing behind |
| `build_manifest` (`git_repo.py`) | pending and visited Kustomizations, the cache of builds | `build_manifest`, `kustomization_traversal`, `build_kustomization` | each Kustomization once, after what it depends on, with its substitutions |
| Commands and builds (`command.py`, `kustomize.py`) | a semaphore, a lock per path | `run_piped`, `FluxBuild.run` | bounded concurrency, one build per path |
| Values (`values.py`) | none | `expand_value_references`, `expand_postbuild_substitute_reference` | the last reference wins; an error has a reason |
| Resource diff (`resource_diff.py`, `tool/diff.py`) | none | `build_helm_dependency_map`, `get_helm_release_diff_keys` | a release whose output differs is rendered |
| Manifest types (`manifest.py`) | none | `parse_doc`, `parse_raw_obj`, `resource_dependencies` | a document becomes the object it describes |
| Sources on disk (`source_controller/git.py`, `oci.py`, `cache.py`), visitors and images, tool (`tool/`), configuration | little or none | I/O and formatting | |

Interaction: controllers never call each other. A controller adds objects to the
store (`add_object`); the store calls listeners synchronously, wakes the waiters
of that object and hands it to the queues of `watch_added`, from which the next
controller creates a tracked task. A task that depends on something creates a
DependencyWaiter, which creates a tracked task per dependency, each of which
waits in the store. The orchestrator looks at the TaskService's count and at
the statuses in the store to decide whether the run is over. `build_manifest`
uses none of this: it gathers tasks of its own, which meet only at the
semaphore of `command.py` and at the locks and the cache of the builder.

What is hard here: a coroutine may be suspended, or cancelled, at every `await`
and nowhere else; answers race with timers; the waiters of one resource share
an Event; cancelling one who awaits tasks cancels the tasks; a task that raises
is only logged; new work appears while old work ends; a flag or a cache is
written on one side of an await and read on the other. `PROJECT.json` lists the
hazards with their lines and the properties that would catch each.

## Modules

| Module | Models |
|---|---|
| `InMemoryStore` | the store: writers, waiters of `watch_exists` and `watch_ready`, `watch_added` consumers, listeners |
| `DependencyResolution` | abstract: what a DependencyWaiter promises |
| `DependencyWaiter` | extends `InMemoryStore`: a waiter's tasks, timers, queue and the consumer in `reconcile`; implements `DependencyResolution` |
| `TaskService` | tracking of tasks, `block_till_done` with the rules of `asyncio.gather`, `wait_for_task` |
| `KustomizationController` | all reconciles of a repository over the store's contents, in an environment that stands for the sources; uses `DependencyResolution` for each |
| `SourceController` | the fetch of each source with its wait for a Secret, `close()` |
| `Orchestrator` | composes `KustomizationController` and `SourceController`: `bootstrap`, `run`, `stop`, the loader; implements `KustomizationController` |
| `Manifest` | what `manifest.py` makes of a document |
| `HelmController` | the HelmReleaseController and the helm client, over documents parsed by `Manifest` |
| `BuildManifest` | `build_manifest`, its tasks, their cache, locks, permits and processes, over documents parsed by `Manifest` |
| `ValuesReferences` | `expand_value_references`, one reference a step |
| `HelmReleaseDiff` | composes two instances of `ValuesReferences`: which releases `diff hr` renders |
| `InMemoryStoreProofs`, `DependencyWaiterProofs`, `TaskServiceProofs`, `KustomizationProofs`, `OrchestratorProofs`, `HelmProofs`, `BuildManifestProofs`, `HelmReleaseDiffProofs` | theorems |
| `MC*` | instances for TLC |

How code becomes actions: a stretch of a coroutine from one `await` that really
suspends to the next is one action, because nothing else runs in between. So
`add_object` with every callback it makes is one action, and so is the whole of
`_apply` with the artifact and READY after it (`ApplySucceeds`), while a
`watch_exists` is its call, its wake-up and its `finally`. A suspended coroutine
is a value of a phase variable (`pc` of the store's waiters, `task` and `gen` of
a DependencyWaiter, `phase` of a reconcile, `job` of a build). A cancellation is
two steps: somebody asks for it, and the coroutine gets its CancelledError when
it runs next. Operators marked MUTANT in a comment are plausible errors in the
definition after them; no specification uses them.

**InMemoryStore.** An Event's identity matters, so an Event is named by
the waiter that made it, and a waiter keeps the one it got. `watch_exists` takes
a lock around its check, but does not suspend in it; the lock is left out.
Payloads are left out; an artifact is a revision.

**DependencyWaiter.** The watch task of dependency `d` is the store's waiter `d`.
A task that was cancelled ends as TIMEOUT if only its timer cancelled it. One
that is cancelled before it began never runs its handler (`NeverStart`): it is
done, without an event or an outcome. The
loop body of `reconcile` does not suspend for an event it goes on after, so the
consumer takes the queue in one go. The consumer's own timeout of 120 seconds
comes after the 60 seconds of every dependency, which is the guard of
`Interrupt`. `Crowds` are the sets of dependencies that other parents watch too.

**TaskService.** `gather` is modelled as asyncio has it: the first error or
cancellation among the children ends it, cancelling the caller cancels the
children and is delivered when all are done.

**KustomizationController.** `phase` is where the reconcile of each Kustomization
is; `outcome` is the state of its DependencyWaiter. What a Kustomization names
and what its build produces are constant functions, so the theorems speak of
every dependency graph. The build's failures, a half applied output, a
substitution that raises, and cancellations at every moment are alternatives of
the actions. `Loads` are what the store may hold before the controller starts.
What the SourceController does to the store for a source is an action of the
environment, `SourceSettles`.

**SourceController.** A fetch from git is synchronous and one step; one of an
OCIRepository may wait for its Secret first. The position in `_tasks` that
`close()` has reached is `awaited`, because an exception there ends its loop.

**Orchestrator.** In the initial state `bootstrap` has filled the store and
`start` has made the controllers. The first round of `run()` follows without
suspending (`Start`), so it sees none of the Kustomizations' tasks, which the
background task of the watch has yet to make; what keeps it from ending the run is
the task of the bootstrap repository. A later round (`Check`) comes after a sleep.
What the TaskService counts as
active is derived from the phases of both controllers' tasks (`ActiveTasks`); a
task that raised stays in it until its callback has logged it. `run()` gathers
a copy of it (`blockedOn`), and a failing child ends the wait. `stop()` closes
both controllers and waits; when an exception escapes it, the `finally` of
`bootstrap` calls it again (`LeaveStop`). One interrupt may hit `run()`, or `stop()`
before, while or after it closes the controllers (`InterruptStop`).

**Manifest.** A document is a record with the fields that the parsers look at; a
field that is missing is not in its domain, and a document that a parser refuses
is `Nothing`. Names are sequences of parts, so that joining two of them with a
hyphen can collide as in the code.

**HelmController.** Listeners run inside the `add_object` of whoever applies an
output (`Heard`), which makes the order of `repos` and `tasks` nondeterministic
where the code iterates over documents. `update()` is three steps with an await
between: the file is opened, written with what the list holds then, and helm
fetches. Each update writes through a handle of its own from the beginning of the
file, and `repos` only grows, so what two of them write on top of each other is the
longer list (`WrittenConfig`). A release waits for each dependency on its own, with
a timeout for the whole gather. `close()` cancels the tasks on its list, and a
cancelled `run()` those that it gathers (`CancelReleases`).

**BuildManifest.** A visit or a build is a task with a `job`: it looks at the
cache, takes a permit and the lock of its path, runs, and ends, fails or times
out; a process that was not killed goes on in `orphans`. What
a visit or a build yields depends on the Kustomization and on the set of configs
substituted into it (`Output`), which is what makes a cached output stale and what
makes two Kustomizations of one path build different things. Names may repeat:
the first that is found with a name stands for all (`FirstOf`), as does the first
with a path; two of a name in one output are an error. A reference whose data does
not decode raises (`ReferenceRaises`). The visitors at the end are left out.

**ValuesReferences, HelmReleaseDiff.** A dictionary is a tree, a function from
paths to leaves, with `Dictionary` at the paths between. So a merge that replaces
a dictionary by a leaf, an empty dictionary that replaces a leaf, or a target path
that runs into a leaf are cases of their own, and `_deep_merge` needs no
recursion. `MCHelmReleaseDiff` has it as Python writes it, recursively over nested
dictionaries, with the loop that assigns to a target path, and two assumptions
(`TreesMergeAsNested`, `TreesAssignAsNested`) that TLC evaluates: on all dictionaries of
two keys, two levels deep, and all target paths of up to three parts, the two
agree.

## Runs

| Run | Instance | Shows |
|---|---|---|
| `store` | two resources, one with a status; two waiters, one of them cancellable; a `watch_added` consumer; a listener | a wake-up is lost only to a cancelled fellow (`WakeupLostOnlyToCancellation`); no status is missed (`ReadyNeverMissed`); a consumer that came first gets all (`PromptWatcherMissesNothing`); answers are current (`AnswerIsCurrentStatus`); listeners are up to date however late they come (`ListenersUpToDate`); a waiter whose answer exists gets it (`WaitersAnswered`) |
| `store_lost_wakeup` | the same store | **finding** (`NoLostWakeup`): a waiter sleeps on though its object was added |
| `dependencies` | a parent that depends on a Kustomization and a ConfigMap, or on the ConfigMap alone beside two other parents that watch it | the verdict is right (`ReadyMeansAllAchieved`), events add up (`EventsConserved`), a cancellation is swallowed only by a failure (`CancellationSwallowedOnlyByFailure`), a TIMEOUT for what is there is explained (`TimeoutExplained`), `watch()` completes (`WatchCompletes`), `DependencyResolution` is implemented (`ResolutionImplemented`) |
| `task_service` | two tracked tasks, a background task, two callers | tracking (`RunningIsTracked`), the meaning of `block_till_done`'s return (`BlockReturnMeansDone`), no lost cancellation (`CancellationNotLost`), callers come back (`BlockersComeBack`) |
| `kustomizations` | three repositories: `root` produces a source, a ConfigMap, `infra` and `apps`, and `apps` depends on `infra`; `ping` and `pong` wait for each other beside a malformed one and one named twice; `alone` | built only on what is there (`BuildsOnReadyOnly`); no READY in a circle (`NoReadyWaitingCircle`); every failure has a root (`FailureHasRoot`); statuses are final (`FinalStatusStays`); quiet after `close` (`ClosedMeansQuiet`); everybody settles (`EveryKustomizationSettles`); each reconcile sees `DependencyResolution` (`ResolutionsImplemented`) |
| `cluster` | `root` produces `apps`, a second GitRepository, an OCIRepository and its Secret | success means that nothing runs and all are READY or logged (`SuccessMeansSettled`); what `stop` leaves running (`LeftRunningExplained`); the run ends (`RunEnds`); the environment assumed by `KustomizationController` is the real one (`KustomizationsImplemented`) |
| `cluster_incomplete` | the same | **finding** (`CompleteMeansDecided`): a successful run with an undecided source |
| `helm` | three releases, two HelmRepositories, a HelmChart, a GitRepository, a ConfigMap that one release renders and another needs; three outputs in any order | types and tasks (`HrTypeOK`); why a repository can be missing from helm's file (`StaleConfigExplained`); READY means complete (`ReadyReleaseIsSound`); every release settles and its waits with it (`EveryReleaseSettles`) |
| `helm_lost_update` | the same | **finding** (`UpdatedBeforeTemplating`): a chart is templated from a repository that helm's file does not name |
| `manifest` | seven Kustomizations in two waves: two of one path, whose builds hold different Kustomizations, two of one name, one whose path is missing, one that the selector drops, two from an OCIRepository; five dependency graphs, one a circle | of what the visit of a path held nothing is missing, and no path is left out (`ClusterIsClosed`); substitutions of dependencies are in (`DependenciesSubstituted`); no stale output (`BuildNotStale`); processes share a path only after a timeout (`OneFluxPerPath`); the internal error has a reason (`InternalErrorExplained`); the build ends (`ManifestEnds`) |
| `manifest_missing_path` | the same | **finding** (`MissingPathsTolerated`): a missing path ends the build though its validation is off |
| `helm_diff` | twelve references over ConfigMaps and Secrets that overlap in every way, sequences of up to three of them, four sets of own values, two revisions, three pairs of chart versions | precedence on every leaf (`LastReferenceWins`); every error has its reason (`ErrorHasReason`); a release that differs is rendered, but for two cases (`ChangedReleaseIsDiffed`) |

### Bounds and why they are enough

- `MaxRevision = 1` (artifacts, the only counter of the store): an artifact is
  set before or after a listener comes. Two waiters of one resource, one to be
  cancelled, and one status kind beside one other are what the hazards of the
  store need.
- `Crowds = {{cm}}` in `dependencies`: two other parents watch the ConfigMap, so
  that one of them can make a new Event after the other took the shared one.
  Two dependencies give the loop of `watch()` every order of a good, a bad and a
  cancelled event.
- `Loads` in `kustomizations` and `cluster`: disjoint repositories in one run,
  because what they show needs only a few Kustomizations each: one produced by
  another, and a circle of two.
- `block_till_done` needs one child that fails and one that still runs.
- `Concurrency = 2` in `manifest`: with two permits and up to four tasks, tasks
  queue for permits and for the lock of a path. Levels up to three deep come from
  the graphs.
- `MaxReferences = 3`: a merge, a replacement and a target path in any order.
- Each document of `helm` is in one output, `hr1` in two: it is applied again when
  it is there, and a repository arrives before, during and after an update.

What the safety properties say beyond these sizes is proved where a theorem is
listed below.

Deadlock is not checked in these runs: the program ends, and all of its
coroutines with it. That nobody waits for ever is checked by the liveness
properties instead.

### Fairness

The event loop runs every callback that is scheduled, so each step of a
coroutine that is ready is weakly fair, and so are timers. A dependency's watch
has a timer of its own (`ExpireTask`), and a reconcile's watch settles at the
latest by it (`WatchStep`). A build is a subprocess, which `run_piped` gives up
after a minute. A tracked task of the TaskService ends, because every wait in it
has a timeout. In `BuildManifest` a command need not end and an orphan need not
either: only `TimesOut`, the manifest's own steps and the taking of a permit are
fair. In `HelmController` a release's step is fair, which includes the timeout of
its waits, while outputs, fetched repositories, single waits and `close()` may
never happen. In `Orchestrator` the steps of `run`, of both controllers and of
the callbacks of ended tasks are fair, an interrupt is not. Nothing is assumed of
writers, of somebody who cancels, of sources in `KustomizationController`, or of
background tasks. Liveness that needs them is stated with their action on the
left (`WaitersAnswered`), or with their failing to act covered by the timer
(`WatchCompletes`, `EveryKustomizationSettles`, `ManifestEnds`).

## Findings

- **A wake-up is lost when a fellow waiter is cancelled** (`store/in_memory.py:410`,
  run `store_lost_wakeup`). The waiters of one resource share an Event; the
  `finally` of a cancelled one takes it off the record, and `add_object` has
  nothing to set for the others. `NoCancellationNoLoss` proves that this is the
  only way to lose one; `TimeoutExplained` shows the effect on a dependency.
- **A run succeeds with a resource that was never decided**
  (`orchestrator/orchestrator.py:332`, run `cluster_incomplete`). A task that
  raises while no gather awaits it is only logged; its resource keeps no status,
  and `is_complete` and `has_failed_resources` see neither. `SuccessMeansSettled`
  says that nothing else is missing.
- **The flag for an update of Helm repositories is lost**
  (`helm_controller/controller.py:183`, run `helm_lost_update`). It is cleared
  after the await of an update that began before the repository came.
  `StaleConfigExplained` says that this is the only way, while nothing is closed.
- **A missing path is an internal error** (`git_repo.py:821`, run
  `manifest_missing_path`), although `--skip-invalid-kustomization-paths` is given:
  a level of which everything is skipped is taken for a loop. By
  `InternalErrorExplained` the order of the build itself never causes it.

Three more are exceptions of a property that holds otherwise. `ClusterIsClosed` is
about the visitors of paths. `build_manifest` visits a path for one of the
Kustomizations that have it (`git_repo.py:551`), with the substitutions of that one:
what only another's build holds is lost, where the docstring has it "find all the
Kustomizations within that cluster" (`git_repo.py:756`). The other two are those of
`ChangedReleaseIsDiffed`; without either TLC finds it violated.
`resource_dependencies` remembers names without their kind (`manifest.py:481`), so
that of a ConfigMap and a Secret of one name the second is no dependency. And
`build_manifest` resolves a `chartRef` before the dependencies are listed
(`git_repo.py:860`, `manifest.py:491`), so that a new version in the HelmChart alone
leaves the release out of `diff hr`.

## Proofs

All for any values of the constants, under the named assumptions of the modules,
and without a bound: disjoint kinds, functions of the right type, documents that
parse (those of `HelmController` with different names), targets that have a part.
Finite must be only what the code counts or lists: the dependencies of a waiter, the sources
(`OrchestratorAssumption`), which a listener gets one by one and whose tasks are a
list, and the documents (`HelmAssumption`), for the same reason. What `bootstrap`
makes up when it finds no repository (`Synthetic`) is a GitRepository.

Every invariant and every action property that a passing run checks is a theorem,
and so are the three refinements.

*Store* (`InMemoryStoreProofs`). The invariant `ExistenceInv` ties the record of
Events to the waiters: a suspended waiter's Event is on record, or set, or was
taken off by a cancelled waiter who shared it. The last disjunct is what makes
it inductive, and is the finding. From it: `LostOnlyToCancellation`,
`WokenFindsObject`, `NoCancellationNoLoss`. `ReadyNotMissed` and
`AnswersAreCurrent` rest on a suspended `watch_ready` seeing a status that is
not decided, because it checks and registers without suspending.
`ListenersCorrect` compares what a listener was told with the history of the
store. `WatcherInv` does so for the consumers of `watch_added`: what a prompt
consumer was given, with what is queued for it, is what `OfKind` selects of the
objects. `OfKind` is a recursive function, and what it does to an appended object is
shown without induction over sequences: there would be a least index at which it
were otherwise (`LeastIndex`, from the well-foundedness of the numbers).

*DependencyWaiter* (`DependencyWaiterProofs`). A step of the waiter is a step of
the store, or cancels several of the store's waiters at once (`StoreSteps`), so the
store's invariants carry over. `WaitInv` adds where the consumer and each task may
be together (`ConsumerInv`, `TaskInv`), that the queue has the events of tasks that
are done (`QueueInv`), and that whatever was READY or stored for anybody is in the
history (`HistoryInv`), because the summary is read after the store has moved on.
`NoEventLost` is in the invariant itself: `resolved`, the queue and the tasks still
tracked add up, with cardinalities, since the loop's end is a comparison of
counts. `WaiterResolves` shows step by step that `DependencyResolution` is
implemented; the step that delivers an event is the one that needs `WaitInv`.

*TaskService* (`TaskServiceProofs`). `TrackedCorrect`: a task that runs is on
its set, which takes `wait_for_task` into account. `ReturnMeansDone`,
`FailsForCause` and `CancellationKept` rest on an invariant on what a gather has
noted of its children, and one on its caller.

*KustomizationController* (`KustomizationProofs`). `KsInv` has four parts beside
types: the phase of a task says what its status may be; an outcome READY or
FAILED is still true of the dependency (inductive since final statuses stay,
`StepKeeps`); who is building or READY has had READY for all; after `close`
every task left is cancelled. `BuildsOnReady`, `FinalStays` and `ClosedQuiet`
follow. `CircleNeverReady` adds that nobody in a circle is building: the step
that would begin needs one of the circle READY. `FailureRooted` shows that no
set of Kustomizations fails only because of each other: the last to learn of a
failure was not FAILED when the others learned theirs, so the set without it
had the same fault before. The two sets range over all subsets, so no induction
over the graph is needed. `ReconcilesResolve` is the second refinement: to each
Kustomization, every step of the controller or its environment is a step of its
`DependencyResolution`, or none.

*Orchestrator* (`OrchestratorProofs`). Its proof rests on the refinement: a step of
the composition is a step of `KustomizationController` (`FetchIsKsStep`, `KsSteps`),
which is `ImplementsKustomizations`, and `KsInv` then holds here too, and what was
proved from it (`OrKeepsKustomizations`). Of the parts of `OrInv` beside it, `SourceKept`
says that only the task of a source decides the source, except for the
bootstrap repository, READY before its task runs. `ReconcileKept` says why a
reconcile ends. `RunInv` makes `SuccessMeansSettled` inductive: while `run()` goes on
and nobody interrupts it, nothing is cancelled, so what has ended without a status
has raised. `CloseInv` follows `close()` down its list (`LeftoversExplained`); the
first that raised in it is again found as a least index.

*build_manifest* (`BuildManifestProofs`). Beside types (`BmTypeCorrect`), five
arguments, each over an invariant of its own.
`OneFluxPerPathHolds`: tasks that run have different paths (`PathsApart`), which
the lock checks, and a process without a task has timed out.
`BuildNotStaleHolds` is `StaleInv`: whoever runs is in the current level, its
input is its substitutions of now, and what the cache has for a build of a
Kustomization with references is gone before the build begins. It is inductive
only with the fact that a level's Kustomizations are not queued, because the
next level is what changes substitutions. `OrderCorrect` accounts for every
Kustomization of the cluster as queued, in the level or visited, its
dependencies with it; `InternalErrorExplainedHolds` needs no induction over the
graph after that: the Kustomizations that wait for each other are the circle.
`DependenciesSubstitutedHolds` (`DependInv`) says at the start of each level
that what is visited has been built or skipped, so its configs are there to
substitute. `ClusterIsClosedHolds` says of each path visited that what
the build of its visitor held has been found, or will be by the wave that visits
it: a visitor's input does not change once the wave is over.

*HelmReleaseController* (`HelmProofs`). `ReadyReleaseIsSoundHolds` rests on
nothing being taken away: the store, the artifacts and a READY GitRepository
stay (`StepKeeps`), so that what a wait has seen is so when the release is
rendered (`WaitsSound`), and a release past its waits has waited for all
(`WaitedForAll`). `ClientInv` is about the client's lists: `repos` has the stored
repositories and `tasks` the stored releases, each once, in whatever order an
output was iterated (`HeardLists`); from it, `HrTypeCorrect`.
`StaleConfig` needs `ConfigInv`: an update covers what the client had when it began
(`UpdatesCover`), and from its write to the next time the file is opened the
configuration has all that is not late (`ConfigCovers`). At `needUpdate = FALSE` the
second is the property. That an update that overlaps another does not spoil it is
why `UpdatesCover` is about every update under way.

*Values and diff* (`HelmReleaseDiffProofs`). `MergedLeaves` and `AssignedLeaves` say
what a merge and an assignment to a target path do to the leaves of a tree;
`ExpansionInv` then says that the leaves so far are those left of what the
references have written (`OneMoreLeft`). `LastReferenceWinsHolds` and
`ErrorHasReasonHolds` follow. For `ChangedReleaseIsDiffedHolds` each expansion has a
trace, a function that gives the values after each reference (`Traced`, `OrigTraced`).
Two traces that find the same for every reference are the same (`SameTexts`, by a
least number), so if the values differ an object does, and the first reference
with its name makes it a dependency or shadows it (`DifferenceIsSeen`).

Only model-checked: liveness (`WaitersAnswered`, `WatchCompletes`, `BlockersComeBack`,
`EveryKustomizationSettles`, `RunEnds`, `EveryReleaseSettles`, `ManifestEnds`), which rests
on fairness and `ENABLED`, and that trees merge as nested dictionaries do, which is an
induction over data.

No definition that a proof expands has a `CASE`: tlapm 1.4.5 hands two of these
with the same first arm to the SMT solver as one term, and would accept that they
are equal. Where a proof looks into a choice it is an `IF`.

## Not modelled

`PROJECT.json` gives the reason for each component. The command line tool formats
what the components return; configuration has no behaviour over time; git and
oras work on a disk that is not modelled, so their calls work or raise. Within
the modelled parts:

- a second cancellation of a coroutine that is winding up after a first, such as a
  DependencyWaiter's consumer that awaits the watches it cancelled, or `stop()` after
  an interrupt of `run()`; `add()` after `watch()` and `cancel_pending_watches`
  before it, which nobody in the repository does;
- in `Orchestrator`, orders of the event loop that its queue rules out. `Check` asks
  that nothing added is left for the watch: the watch is woken before the task that
  added it is done, and `run()` sleeps before it looks again;
- in `HelmController`, an interrupt of `run()` after `close()` began;
- times, of which only their order is kept;
- in `Orchestrator`, the HelmReleaseController; how the two meet is the set of
  outputs in `HelmController`;
- in `BuildManifest`, the visitors, the inflation of HelmReleases after the builds,
  and worktrees; pipelines of several commands;
- in `HelmReleaseDiff`, a release that itself differs (it is then one of the changed
  resources), and the text of a diff;
- images and the printing of documents.

## Plan

1. The HelmReleaseController in the composition of `Orchestrator`: whether `run()`
   may end between a HelmRelease's `add_object` and its task.
2. The inflation after the builds of `build_manifest`, and the dictionary of values
   that `expand_postbuild_substitute_reference` makes, against `BuildManifest`'s sets.
3. Proofs: safety of what 1 and 2 add, by the same refinement.
