-------------------------- MODULE BuildManifestProofs --------------------------
(* What holds of build_manifest for any cluster, selector and dependency       *)
(* graph.  A level begins only when no task runs, so that what was           *)
(* substituted for a build is still so when its output is there.            *)
EXTENDS BuildManifest, TLAPS

Busy == {"visit", "build", "permit", "lock", "running"}

LevelStep == MergeWave \/ StartLevel \/ EndLevel
VerdictStep == GatherRaises \/ ReferenceRaises \/ NothingToBuild \/ EndManifest
JobStep(t) == TaskStep(t) \/ (t \in Kustomizations /\ KsStep(t))

(* The steps that change who runs, who has finished, or neither. *)
LEMMA NextSteps ==
    ASSUME BmNext
    PROVE  \/ LevelStep
           \/ VerdictStep
           \/ \E t \in Tasks : JobStep(t)
           \/ \E t \in Tasks : OrphanEnds(t)
  <1>1. Kustomizations \subseteq Tasks
    BY DEF Tasks
  <1>2. QED
    BY <1>1 DEF BmNext, ManifestStep, LevelStep, VerdictStep, JobStep

-----------------------------------------------------------------------------
(* What the variables hold, and that a visit of the traversal is of a path   *)
(* that is there.                                                          *)
Domains ==
    /\ DOMAIN job = Tasks
    /\ DOMAIN subst = Kustomizations
    /\ DOMAIN input = Tasks
    /\ DOMAIN cache = Kustomizations
    /\ DOMAIN built = Kustomizations
    /\ DOMAIN dependsOn = Kustomizations

InKustomizations ==
    /\ found \subseteq Kustomizations
    /\ queue \subseteq Kustomizations
    /\ level \subseteq Tasks

VisitsExist ==
    phase = "traversal" =>
        \A t \in Tasks :
            /\ job[t] # "build"
            /\ job[t] \in {"permit", "lock", "running", "done"} => Exists(t)

BmTypeOK == Domains /\ InKustomizations /\ VisitsExist

LEMMA InitBmType == BmInit => BmTypeOK
  <1> SUFFICES ASSUME BmInit PROVE BmTypeOK
    OBVIOUS
  <1>1. Domains
    BY DEF BmInit, Domains
  <1>2. InKustomizations
    BY DEF BmInit, InKustomizations, Tasks
  <1>3. Exists(Root)
    BY ManifestAssumption DEF Exists, Path
  <1>4. VisitsExist
    BY <1>3 DEF BmInit, VisitsExist
  <1>5. QED
    BY <1>1, <1>2, <1>4 DEF BmTypeOK

(* New are the first of each name, ... *)
LEMMA NewNames ==
    ASSUME NEW new \in NewKs
    PROVE  /\ new \subseteq Kustomizations
           /\ \A t \in Visits : \A k \in Allowed(t) :
                 Name(k) \in visitedKs \union {Name(f) : f \in new}
  <1> DEFINE K == UNION {Allowed(t) : t \in Visits}
             name == [k \in Kustomizations |-> Name(k)]
  <1>1. K \subseteq Kustomizations
    BY DEF Allowed
  <1>2. new \subseteq K /\ \A k \in K : name[k] \in visitedKs \union {name[f] : f \in new}
    BY DEF NewKs, FirstOf
  <1>3. \A k \in K : name[k] = Name(k)
    BY <1>1
  <1> HIDE DEF name
  <1>4. QED
    BY <1>1, <1>2, <1>3

(* ... and visited are the first of each path. *)
LEMMA NextPaths ==
    ASSUME NEW K \in SUBSET Kustomizations, NEW W \in NextVisits(K)
    PROVE  /\ W \subseteq K
           /\ \A k \in K : Path(k) \in visitedPaths \union {Path(w) : w \in W}
           /\ \A w \in W : Path(w) \notin visitedPaths
  <1> DEFINE path == [k \in Kustomizations |-> Path(k)]
  <1>1. /\ W \subseteq K
        /\ \A k \in K : path[k] \in visitedPaths \union {path[w] : w \in W}
        /\ \A w \in W : path[w] \notin visitedPaths
    BY DEF NextVisits, FirstOf
  <1>2. \A k \in K : path[k] = Path(k)
    OBVIOUS
  <1> HIDE DEF path
  <1>3. QED
    BY <1>1, <1>2

(* The step from one wave to the next: the new Kustomizations, and those of   *)
(* them that are visited.                                                  *)
LEMMA WaveStep ==
    ASSUME MergeWave
    PROVE  /\ phase = "traversal" /\ error = Nothing /\ LevelDone
           /\ UNCHANGED <<error, visited, input, cache, built, orphans, timedOut>>
           /\ \E new, W \in SUBSET Kustomizations :
                 /\ new \in NewKs
                 /\ W \in NextVisits(Reachable(new)) /\ W \subseteq Reachable(new)
                 /\ visitedKs' = visitedKs \union {Name(k) : k \in new}
                 /\ found' = found \union Reachable(new)
                 /\ subst' = [k \in Kustomizations |->
                                 IF k \in Reachable(new) THEN Substituted(k, known') ELSE subst[k]]
                 /\ level' = W
                 /\ visitedPaths' = visitedPaths \union {Path(w) : w \in W}
                 /\ job' = [t \in Tasks |-> IF t \in W THEN "visit" ELSE job[t]]
                 /\ IF W = {} THEN StartBuilding(Selected(found'))
                    ELSE UNCHANGED <<phase, dependsOn, queue>>
  <1>1. PICK new \in NewKs : MergeNew(new)
    BY DEF MergeWave
  <1>2. new \subseteq Kustomizations
    BY NewNames
  <1>3. \A W \in NextVisits(Reachable(new)) : W \subseteq Reachable(new)
    BY <1>2, NextPaths DEF Reachable
  <1>4. PICK W \in NextVisits(Reachable(new)) :
          /\ level' = W
          /\ visitedPaths' = visitedPaths \union {Path(w) : w \in W}
          /\ job' = [t \in Tasks |-> IF t \in W THEN "visit" ELSE job[t]]
          /\ IF W = {} THEN StartBuilding(Selected(found'))
             ELSE UNCHANGED <<phase, dependsOn, queue>>
    BY <1>1 DEF MergeNew
  <1>5. new \in SUBSET Kustomizations /\ W \in SUBSET Kustomizations
    BY <1>2, <1>3 DEF Reachable
  <1>6. QED
    BY <1>1, <1>3, <1>4, <1>5 DEF MergeWave, MergeNew

(* What a task does keeps the types. *)
LEMMA JobType == ASSUME BmTypeOK, NEW t \in Tasks, JobStep(t) PROVE BmTypeOK'
  <1>1. UNCHANGED <<phase, error, found, queue, level, subst, dependsOn, visited>>
    BY DEF JobStep, TaskStep, KsStep, AcquirePermit, TaskSucceeds, TaskFails, TimesOut,
           StartVisit, UseCache, MissCache, StartFlux, findVars, orderVars
  <1>2. PICK s : job' = [job EXCEPT ![t] = s]
    BY DEF JobStep, TaskStep, KsStep, AcquirePermit, TaskSucceeds, TaskFails, TimesOut,
           StartVisit, UseCache, MissCache, StartFlux, Enter
  <1>3. DOMAIN input' = Tasks
    BY DEF JobStep, TaskStep, KsStep, AcquirePermit, TaskSucceeds, TaskFails, TimesOut,
           StartVisit, UseCache, MissCache, StartFlux, BmTypeOK, Domains
  <1>4. DOMAIN cache' = Kustomizations
    BY DEF JobStep, TaskStep, KsStep, AcquirePermit, TaskSucceeds, TaskFails, TimesOut,
           StartVisit, UseCache, MissCache, StartFlux, BmTypeOK, Domains
  <1>5. DOMAIN built' = Kustomizations
    BY DEF JobStep, TaskStep, KsStep, AcquirePermit, TaskSucceeds, TaskFails, TimesOut,
           StartVisit, UseCache, MissCache, StartFlux, BmTypeOK, Domains
  <1>6. Domains'
    BY <1>1, <1>2, <1>3, <1>4, <1>5 DEF BmTypeOK, Domains
  <1>7. InKustomizations'
    BY <1>1 DEF BmTypeOK, InKustomizations
  <1>8. phase = "traversal" =>
          /\ job'[t] # "build"
          /\ job'[t] \in {"permit", "lock", "running", "done"} => Exists(t)
    BY DEF JobStep, TaskStep, KsStep, AcquirePermit, TaskSucceeds, TaskFails, TimesOut,
           StartVisit, UseCache, MissCache, StartFlux, Enter, BmTypeOK, Domains, VisitsExist,
           MayTimeOut
  <1>9. ASSUME phase = "traversal", NEW u \in Tasks
        PROVE  /\ job'[u] # "build"
               /\ job'[u] \in {"permit", "lock", "running", "done"} => Exists(u)
    BY <1>2, <1>8, <1>9 DEF BmTypeOK, Domains, VisitsExist
  <1>10. VisitsExist'
    BY <1>1, <1>9 DEF VisitsExist, Exists, Path
  <1>11. QED
    BY <1>6, <1>7, <1>10 DEF BmTypeOK

(* So does the step from one wave to the next, ... *)
LEMMA WaveType == ASSUME BmTypeOK, MergeWave PROVE BmTypeOK'
  <1>1. phase = "traversal" /\ UNCHANGED <<input, cache, built>>
    BY WaveStep
  <1>2. PICK new, W \in SUBSET Kustomizations :
          /\ found' = found \union Reachable(new)
          /\ DOMAIN subst' = Kustomizations
          /\ level' = W
          /\ job' = [t \in Tasks |-> IF t \in W THEN "visit" ELSE job[t]]
          /\ IF W = {} THEN StartBuilding(Selected(found'))
             ELSE UNCHANGED <<phase, dependsOn, queue>>
    BY WaveStep
  <1>3. Reachable(new) \subseteq Kustomizations
    BY <1>2 DEF Reachable
  <1>4. found' \subseteq Kustomizations /\ level' \subseteq Tasks
    BY <1>2, <1>3 DEF BmTypeOK, InKustomizations, Tasks
  <1>5. queue' \subseteq Kustomizations
    BY <1>2, <1>4 DEF BmTypeOK, InKustomizations, StartBuilding, Selected
  <1>6. DOMAIN dependsOn' = Kustomizations
    BY <1>2 DEF BmTypeOK, Domains, StartBuilding
  <1>7. Domains' /\ InKustomizations'
    BY <1>1, <1>2, <1>4, <1>5, <1>6 DEF BmTypeOK, Domains, InKustomizations
  <1>8. ASSUME NEW t \in Tasks
        PROVE  /\ job'[t] # "build"
               /\ job'[t] \in {"permit", "lock", "running", "done"} => Exists(t)
    BY <1>1, <1>2 DEF BmTypeOK, VisitsExist
  <1>9. VisitsExist'
    BY <1>8 DEF VisitsExist, Exists, Path
  <1>10. QED
    BY <1>7, <1>9 DEF BmTypeOK

(* ... and from one level to the next. *)
LEMMA LevelType == ASSUME BmTypeOK, LevelStep PROVE BmTypeOK'
  <1>1. CASE MergeWave
    BY <1>1, WaveType
  <1>2. CASE StartLevel
    <2>1. phase' = "building" /\ UNCHANGED <<dependsOn, found, input, built>>
      BY <1>2 DEF StartLevel, findVars
    <2>2. level' \subseteq Tasks /\ queue' \subseteq Kustomizations
      BY <1>2 DEF BmTypeOK, InKustomizations, StartLevel, Ready, Tasks
    <2>3. DOMAIN job' = Tasks /\ DOMAIN subst' = Kustomizations /\ DOMAIN cache' = Kustomizations
      BY <1>2 DEF StartLevel, Invalidated
    <2>4. QED
      BY <2>1, <2>2, <2>3 DEF BmTypeOK, Domains, InKustomizations, VisitsExist
  <1>3. CASE EndLevel
    BY <1>3 DEF EndLevel, BmTypeOK, Domains, InKustomizations, VisitsExist, findVars, taskVars
  <1>4. QED
    BY <1>1, <1>2, <1>3 DEF LevelStep

LEMMA VerdictType == ASSUME BmTypeOK, VerdictStep PROVE BmTypeOK'
  <1>1. UNCHANGED <<found, queue, level, dependsOn, subst, job, input, cache, built>>
    BY DEF VerdictStep, GatherRaises, ReferenceRaises, NothingToBuild, EndManifest,
           findVars, orderVars, taskVars
  <1>2. phase' = "traversal" => phase = "traversal"
    BY DEF VerdictStep, GatherRaises, ReferenceRaises, NothingToBuild, EndManifest
  <1>3. QED
    BY <1>1, <1>2 DEF BmTypeOK, Domains, InKustomizations, VisitsExist, Exists, Path

LEMMA StutterType == ASSUME BmTypeOK, UNCHANGED bmVars PROVE BmTypeOK'
  BY DEF BmTypeOK, Domains, InKustomizations, VisitsExist, Exists, Path,
         bmVars, findVars, orderVars, taskVars

LEMMA OrphanType == ASSUME BmTypeOK, NEW t \in Tasks, OrphanEnds(t) PROVE BmTypeOK'
  BY DEF BmTypeOK, Domains, InKustomizations, VisitsExist, Exists, Path,
         OrphanEnds, findVars, orderVars

(* The type correctness of build_manifest. *)
THEOREM BmTypeCorrect == BmSpec => []BmTypeOK
  <1>1. BmTypeOK /\ [BmNext]_bmVars => BmTypeOK'
    BY NextSteps, JobType, LevelType, VerdictType, StutterType, OrphanType
  <1>2. QED
    BY <1>1, InitBmType, PTL DEF BmSpec

-----------------------------------------------------------------------------
(* The lock: two commands that run have different paths, and a process that  *)
(* has outlived its command did so by a timeout.                           *)
PathsApart ==
    /\ \A j, k \in Kustomizations :
          j # k /\ job[j] = "running" /\ job[k] = "running" => Path(j) # Path(k)
    /\ orphans \subseteq timedOut

LEMMA InitApart == BmInit => PathsApart
  BY DEF BmInit, PathsApart, Tasks

(* Only StartFlux makes a Kustomization's task run. *)
LEMMA StartApart ==
    ASSUME BmTypeOK, PathsApart, NEW k \in Kustomizations, StartFlux(k)
    PROVE  PathsApart'
  <1>1. UNCHANGED <<orphans, timedOut>> /\ job' = [job EXCEPT ![k] = "running"] /\ LockFree(k)
    BY DEF StartFlux, Enter
  <1>2. k \in DOMAIN job /\ Kustomizations \subseteq DOMAIN job
    BY DEF BmTypeOK, Domains, Tasks
  <1>3. QED
    BY <1>1, <1>2 DEF PathsApart, LockFree, Path

LEMMA OtherJobApart ==
    ASSUME BmTypeOK, PathsApart, NEW t \in Tasks, JobStep(t),
           t \in Kustomizations => ~StartFlux(t)
    PROVE  PathsApart'
  <1>1. PICK s : job' = [job EXCEPT ![t] = s] /\ (t \in Kustomizations => s # "running")
    BY ManifestAssumption
    DEF JobStep, TaskStep, KsStep, AcquirePermit, TaskSucceeds, TaskFails, TimesOut,
        StartVisit, UseCache, MissCache, Enter
  <1>2. orphans' \subseteq timedOut'
    BY DEF JobStep, TaskStep, KsStep, AcquirePermit, TaskSucceeds, TaskFails, TimesOut,
           StartVisit, UseCache, MissCache, PathsApart
  <1>3. \A k \in Kustomizations : job'[k] = "running" => job[k] = "running"
    BY <1>1 DEF BmTypeOK, Domains, Tasks
  <1>4. QED
    BY <1>2, <1>3 DEF PathsApart, Path

LEMMA LevelApart == ASSUME BmTypeOK, PathsApart, LevelStep PROVE PathsApart'
  <1>1. UNCHANGED <<orphans, timedOut>>
    BY WaveStep DEF LevelStep, StartLevel, EndLevel, taskVars
  <1>2. ASSUME NEW k \in Kustomizations, job'[k] = "running" PROVE job[k] = "running"
    <2>1. k \in Tasks
      BY DEF Tasks
    <2>2. CASE MergeWave
      BY <1>2, <2>1, <2>2, WaveStep
    <2>3. CASE StartLevel
      BY <1>2, <2>1, <2>3 DEF StartLevel
    <2>4. CASE EndLevel
      BY <1>2, <2>4 DEF EndLevel, taskVars
    <2>5. QED
      BY <2>2, <2>3, <2>4 DEF LevelStep
  <1>3. QED
    BY <1>1, <1>2 DEF PathsApart, Path

LEMMA OtherApart ==
    ASSUME PathsApart,
           VerdictStep \/ (\E t \in Tasks : OrphanEnds(t)) \/ UNCHANGED bmVars
    PROVE  PathsApart'
  <1>1. job' = job /\ timedOut' = timedOut /\ orphans' \subseteq orphans
    BY DEF VerdictStep, GatherRaises, ReferenceRaises, NothingToBuild, EndManifest,
           OrphanEnds, bmVars, taskVars
  <1>2. QED
    BY <1>1 DEF PathsApart, Path

LEMMA ApartImplies == PathsApart => OneFluxPerPath
  BY DEF PathsApart, OneFluxPerPath, Processes

(* Two flux processes have a path in common only after a timeout. *)
THEOREM OneFluxPerPathHolds == BmSpec => []OneFluxPerPath
  <1>1. BmTypeOK /\ PathsApart /\ [BmNext]_bmVars => PathsApart'
    <2> SUFFICES ASSUME BmTypeOK, PathsApart, [BmNext]_bmVars PROVE PathsApart'
      OBVIOUS
    <2>1. CASE LevelStep
      BY <2>1, LevelApart
    <2>2. ASSUME NEW t \in Tasks, JobStep(t) PROVE PathsApart'
      BY <2>2, StartApart, OtherJobApart
    <2>3. QED
      BY <2>1, <2>2, NextSteps, OtherApart
  <1>2. QED
    BY <1>1, InitApart, ApartImplies, BmTypeCorrect, PTL DEF BmSpec

-----------------------------------------------------------------------------
(* Whoever runs belongs to the wave or level, and has not been built nor is   *)
(* queued; the input of a build is what is substituted into its              *)
(* Kustomization, and so is the cached output it may take.                  *)
InLevel == \A t \in Tasks : job[t] \in Busy => t \in level

NoQueueYet == phase = "traversal" => queue = {}

LevelNotQueued == level \intersect queue = {}

NoneBuiltYet == phase = "traversal" => \A k \in Kustomizations : built[k] = Nothing

FromReferences ==
    \A k \in Kustomizations :
        /\ subst[k] \subseteq Ks[k].substituteFrom
        /\ input[k] \subseteq Ks[k].substituteFrom
        /\ cache[k] # Nothing => cache[k] \subseteq Ks[k].substituteFrom

InputCurrent ==
    \A k \in Kustomizations :
        /\ job[k] \in {"lock", "running"} => input[k] = subst[k]
        /\ job[k] = "build" /\ cache[k] # Nothing => Ks[k].substituteFrom = {}

BuiltNotQueued == \A k \in Kustomizations : built[k] # Nothing => k \notin queue

StaleInv ==
    /\ InLevel /\ NoQueueYet /\ LevelNotQueued /\ NoneBuiltYet
    /\ FromReferences /\ InputCurrent /\ BuiltNotQueued /\ BuildNotStale

LEMMA InitStale == BmInit => StaleInv
  <1> SUFFICES ASSUME BmInit PROVE StaleInv
    OBVIOUS
  <1>1. InLevel /\ NoQueueYet /\ LevelNotQueued
    BY DEF BmInit, InLevel, NoQueueYet, LevelNotQueued, Busy
  <1>2. NoneBuiltYet /\ FromReferences /\ BuiltNotQueued /\ BuildNotStale
    BY DEF BmInit, NoneBuiltYet, FromReferences, BuiltNotQueued, BuildNotStale, Tasks
  <1>3. InputCurrent
    BY ManifestAssumption DEF BmInit, InputCurrent, Tasks
  <1>4. QED
    BY <1>1, <1>2, <1>3 DEF StaleInv

LEMMA JobStale ==
    ASSUME BmTypeOK, StaleInv, NEW t \in Tasks, JobStep(t)
    PROVE  StaleInv'
  <1>1. UNCHANGED <<phase, queue, level, subst>>
    BY DEF JobStep, TaskStep, KsStep, AcquirePermit, TaskSucceeds, TaskFails, TimesOut,
           StartVisit, UseCache, MissCache, StartFlux, orderVars
  <1>2. job[t] \in Busy /\ \E s : job' = [job EXCEPT ![t] = s]
    BY DEF JobStep, TaskStep, KsStep, AcquirePermit, TaskSucceeds, TaskFails, TimesOut,
           StartVisit, UseCache, MissCache, StartFlux, Enter, MayTimeOut, Busy
  <1>3. t \in level /\ t \notin queue
    BY <1>2 DEF StaleInv, InLevel, LevelNotQueued
  <1>4. InLevel'
    BY <1>1, <1>2, <1>3 DEF StaleInv, InLevel, BmTypeOK, Domains
  <1>5. NoQueueYet' /\ LevelNotQueued'
    BY <1>1 DEF StaleInv, NoQueueYet, LevelNotQueued
  <1>6. ASSUME NEW k \in Kustomizations, k # t
        PROVE  /\ job'[k] = job[k] /\ input'[k] = input[k]
               /\ cache'[k] = cache[k] /\ built'[k] = built[k]
    BY <1>2, <1>6
    DEF JobStep, TaskStep, KsStep, AcquirePermit, TaskSucceeds, TaskFails, TimesOut,
        StartVisit, UseCache, MissCache, StartFlux, BmTypeOK, Domains, Tasks
  <1>7. ASSUME t \in Kustomizations
        PROVE  /\ input'[t] \subseteq Ks[t].substituteFrom
               /\ cache'[t] # Nothing => cache'[t] \subseteq Ks[t].substituteFrom
               /\ job'[t] \in {"lock", "running"} => input'[t] = subst[t]
               /\ job'[t] # "build"
               /\ built'[t] # Nothing => phase # "traversal" /\ built'[t] = subst[t]
    <2> USE <1>7 DEF BmTypeOK, Domains, StaleInv, NoneBuiltYet, FromReferences, InputCurrent,
                     BuildNotStale, Enter
    <2>1. t # Root
      BY ManifestAssumption
    <2>2. CASE UseCache(t)
      BY <2>2 DEF UseCache, VisitsExist
    <2>3. CASE AcquirePermit(t)
      BY <2>1, <2>3 DEF AcquirePermit
    <2>4. CASE TaskSucceeds(t)
      BY <2>1, <2>4 DEF TaskSucceeds
    <2>5. CASE StartVisit(t) \/ MissCache(t) \/ StartFlux(t) \/ TaskFails(t) \/ TimesOut(t)
      BY <2>5 DEF StartVisit, MissCache, StartFlux, TaskFails, TimesOut
    <2>6. QED
      BY <2>2, <2>3, <2>4, <2>5 DEF JobStep, TaskStep, KsStep
  <1>8. FromReferences' /\ InputCurrent'
    <2>1. \A k \in Kustomizations :
            /\ subst'[k] \subseteq Ks[k].substituteFrom
            /\ input'[k] \subseteq Ks[k].substituteFrom
            /\ cache'[k] # Nothing => cache'[k] \subseteq Ks[k].substituteFrom
      BY <1>1, <1>6, <1>7 DEF StaleInv, FromReferences
    <2>2. \A k \in Kustomizations :
            /\ job'[k] \in {"lock", "running"} => input'[k] = subst'[k]
            /\ job'[k] = "build" /\ cache'[k] # Nothing => Ks[k].substituteFrom = {}
      BY <1>1, <1>6, <1>7 DEF StaleInv, InputCurrent
    <2>3. QED
      BY <2>1, <2>2 DEF FromReferences, InputCurrent, Ks
  <1>9. NoneBuiltYet' /\ BuiltNotQueued' /\ BuildNotStale'
    BY <1>1, <1>3, <1>6, <1>7 DEF StaleInv, NoneBuiltYet, BuiltNotQueued, BuildNotStale
  <1>10. QED
    BY <1>4, <1>5, <1>8, <1>9 DEF StaleInv

(* Between waves and levels nothing runs. *)
LEMMA NoneRuns ==
    ASSUME StaleInv, LevelDone \/ level = {}, NEW t \in Tasks
    PROVE  job[t] \notin Busy
  BY DEF StaleInv, InLevel, LevelDone, Busy

LEMMA WaveStale == ASSUME BmTypeOK, StaleInv, MergeWave PROVE StaleInv'
  <1>1. PICK new, W \in SUBSET Kustomizations :
          /\ subst' = [k \in Kustomizations |->
                          IF k \in Reachable(new) THEN Substituted(k, known') ELSE subst[k]]
          /\ level' = W
          /\ job' = [t \in Tasks |-> IF t \in W THEN "visit" ELSE job[t]]
          /\ IF W = {} THEN StartBuilding(Selected(found'))
             ELSE UNCHANGED <<phase, dependsOn, queue>>
    BY WaveStep
  <1>2. phase = "traversal" /\ queue = {} /\ UNCHANGED <<input, cache, built>>
    BY WaveStep DEF StaleInv, NoQueueYet
  <1>3. \A t \in Tasks : job[t] \notin Busy
    BY WaveStep, NoneRuns
  <1>4. \A t \in Tasks : job'[t] \in Busy => job'[t] = "visit" /\ t \in W
    BY <1>1, <1>3
  <1>5. InLevel' /\ NoQueueYet' /\ LevelNotQueued'
    BY <1>1, <1>2, <1>4 DEF InLevel, NoQueueYet, LevelNotQueued, StartBuilding
  <1>6. \A k \in Kustomizations : built[k] = Nothing
    BY <1>2 DEF StaleInv, NoneBuiltYet
  <1>7. NoneBuiltYet' /\ BuiltNotQueued' /\ BuildNotStale'
    BY <1>2, <1>6 DEF NoneBuiltYet, BuiltNotQueued, BuildNotStale
  <1>8. \A k \in Kustomizations : subst'[k] \subseteq Ks[k].substituteFrom
    BY <1>1 DEF StaleInv, FromReferences, Substituted
  <1>9. FromReferences'
    BY <1>2, <1>8 DEF StaleInv, FromReferences, Ks
  <1>10. \A k \in Kustomizations : job'[k] \notin {"lock", "running", "build"}
    <2>1. Kustomizations \subseteq Tasks
      BY DEF Tasks
    <2>2. QED
      BY <1>4, <2>1 DEF Busy
  <1>11. InputCurrent'
    BY <1>10 DEF InputCurrent, Ks
  <1>12. QED
    BY <1>5, <1>7, <1>9, <1>11 DEF StaleInv

LEMMA LevelStale == ASSUME BmTypeOK, StaleInv, StartLevel PROVE StaleInv'
  <1> DEFINE builds == {k \in Ready : ~Skipped(k)}
  <1>1. /\ phase = "building" /\ level = {} /\ level' = Ready /\ queue' = queue \ Ready
        /\ UNCHANGED <<phase, input, built>>
        /\ subst' = [k \in Kustomizations |->
                        IF k \in builds THEN Substituted(k, BuiltConfigs) ELSE subst[k]]
        /\ cache' = Invalidated(builds)
        /\ job' = [t \in Tasks |-> IF t \in builds THEN "build"
                                   ELSE IF t \in Ready THEN "skipped" ELSE job[t]]
    BY DEF StartLevel
  <1>2. \A t \in Tasks : job[t] \notin Busy
    BY <1>1, NoneRuns
  <1>3. Ready \subseteq queue /\ builds \subseteq Ready
    BY DEF Ready
  <1>4. \A t \in Tasks : job'[t] \in Busy => job'[t] = "build" /\ t \in builds
    BY <1>1, <1>2 DEF Busy
  <1>5. InLevel' /\ NoQueueYet' /\ LevelNotQueued' /\ NoneBuiltYet'
    BY <1>1, <1>3, <1>4 DEF InLevel, NoQueueYet, LevelNotQueued, NoneBuiltYet
  <1>6. ASSUME NEW k \in Kustomizations, built[k] # Nothing
        PROVE  k \notin queue /\ built[k] = subst[k] /\ subst'[k] = subst[k]
    BY <1>1, <1>3, <1>6 DEF StaleInv, BuiltNotQueued, BuildNotStale
  <1>7. BuiltNotQueued' /\ BuildNotStale'
    BY <1>1, <1>6 DEF BuiltNotQueued, BuildNotStale
  <1>8. \A k \in Kustomizations :
          /\ subst'[k] \subseteq Ks[k].substituteFrom
          /\ cache'[k] # Nothing => cache'[k] = cache[k]
    BY <1>1 DEF StaleInv, FromReferences, Substituted, Invalidated
  <1>9. FromReferences'
    BY <1>1, <1>8 DEF StaleInv, FromReferences, Ks
  <1>10. ASSUME NEW k \in Kustomizations
         PROVE  /\ job'[k] \notin {"lock", "running"}
                /\ job'[k] = "build" /\ cache'[k] # Nothing => Ks[k].substituteFrom = {}
    <2>1. k \in Tasks
      BY DEF Tasks
    <2>2. QED
      BY <1>1, <1>4, <2>1 DEF Busy, Invalidated
  <1>11. InputCurrent'
    BY <1>10 DEF InputCurrent, Ks
  <1>12. QED
    BY <1>5, <1>7, <1>9, <1>11 DEF StaleInv

LEMMA EndStale == ASSUME StaleInv, EndLevel PROVE StaleInv'
  <1>1. /\ phase = "building" /\ level' = {}
        /\ UNCHANGED <<phase, queue, subst, job, input, cache, built>>
    BY DEF EndLevel, taskVars
  <1>2. \A t \in Tasks : job[t] \notin Busy
    BY NoneRuns DEF EndLevel
  <1>3. QED
    BY <1>1, <1>2 DEF StaleInv, InLevel, NoQueueYet, LevelNotQueued, NoneBuiltYet, FromReferences,
                     InputCurrent, BuiltNotQueued, BuildNotStale, Ks

LEMMA OtherStale ==
    ASSUME StaleInv,
           VerdictStep \/ (\E t \in Tasks : OrphanEnds(t)) \/ UNCHANGED bmVars
    PROVE  StaleInv'
  <1>1. UNCHANGED <<queue, level, subst, job, input, cache, built>>
    BY DEF VerdictStep, GatherRaises, ReferenceRaises, NothingToBuild, EndManifest, OrphanEnds,
           bmVars, orderVars, taskVars
  <1>2. phase' = phase \/ (phase' = "built" /\ phase = "building")
    BY DEF VerdictStep, GatherRaises, ReferenceRaises, NothingToBuild, EndManifest,
           OrphanEnds, bmVars
  <1>3. QED
    BY <1>1, <1>2 DEF StaleInv, InLevel, NoQueueYet, LevelNotQueued, NoneBuiltYet, FromReferences,
                     InputCurrent, BuiltNotQueued, BuildNotStale, Ks

(* The invariant that the next theorem follows from. *)
THEOREM StaleCorrect == BmSpec => []StaleInv
  <1>1. BmTypeOK /\ StaleInv /\ [BmNext]_bmVars => StaleInv'
    BY NextSteps, JobStale, WaveStale, LevelStale, EndStale, OtherStale DEF LevelStep
  <1>2. QED
    BY <1>1, InitStale, BmTypeCorrect, PTL DEF BmSpec

(* No output of a visit, made before a dependency's ConfigMaps were known, is  *)
(* taken for that of a build.                                              *)
THEOREM BuildNotStaleHolds == BmSpec => []BuildNotStale
  <1>1. StaleInv => BuildNotStale
    BY DEF StaleInv
  <1>2. QED
    BY <1>1, StaleCorrect, PTL

-----------------------------------------------------------------------------
(* Once the traversal is over, the cluster's Kustomizations are queued, in    *)
(* the level or visited; what they depend on is in the cluster, and visited  *)
(* before their level begins.                                              *)
Accounted ==
    /\ queue \union level \union visited \subseteq Cluster
    /\ \A k \in queue : dependsOn[k] \subseteq queue \union level \union visited
    /\ \A k \in level \union visited : dependsOn[k] \subseteq visited

OrderInv == IF phase = "traversal" THEN visited = {} ELSE Accounted

LEMMA WaveOrder == ASSUME BmTypeOK, OrderInv, MergeWave PROVE OrderInv'
  <1>1. PICK W :
          /\ level' = W
          /\ IF W = {} THEN StartBuilding(Selected(found'))
             ELSE UNCHANGED <<phase, dependsOn, queue>>
    BY WaveStep
  <1>2. phase = "traversal" /\ visited' = {}
    BY WaveStep DEF OrderInv
  <1>3. CASE W # {}
    BY <1>1, <1>2, <1>3 DEF OrderInv
  <1>4. CASE W = {}
    <2> DEFINE cluster == Selected(found')
    <2>1. cluster \subseteq Kustomizations
      BY WaveType DEF BmTypeOK, InKustomizations, Selected
    <2>2. /\ level' = {} /\ queue' = cluster /\ Cluster' = cluster
          /\ dependsOn' = [k \in Kustomizations |->
                IF k \in cluster THEN dependsOn[k] \intersect cluster ELSE dependsOn[k]]
      BY <1>1, <1>4 DEF StartBuilding, Cluster, Selected
    <2>3. Accounted'
      BY <1>2, <2>1, <2>2 DEF Accounted
    <2>4. phase' = "building"
      BY <1>1, <1>4 DEF StartBuilding
    <2>5. QED
      BY <2>3, <2>4 DEF OrderInv
  <1>5. QED
    BY <1>3, <1>4

LEMMA LevelOrder == ASSUME OrderInv, StartLevel \/ EndLevel PROVE OrderInv'
  <1>1. /\ phase = "building" /\ UNCHANGED <<phase, found, dependsOn>>
        /\ \/ /\ level = {} /\ level' = Ready /\ queue' = queue \ Ready /\ visited' = visited
           \/ /\ level' = {} /\ visited' = visited \union level /\ queue' = queue
    BY DEF StartLevel, EndLevel, NowVisited, findVars
  <1>2. Cluster' = Cluster
    BY <1>1 DEF Cluster, Selected
  <1>3. Accounted'
    BY <1>1, <1>2 DEF OrderInv, Accounted, Ready
  <1>4. QED
    BY <1>1, <1>3 DEF OrderInv

(* Every other step leaves alone what OrderInv is about. *)
LEMMA OtherOrderVars ==
    ASSUME \/ \E t \in Tasks : JobStep(t) \/ OrphanEnds(t)
           \/ VerdictStep
           \/ UNCHANGED bmVars
    PROVE  /\ UNCHANGED <<found, dependsOn, queue, visited, level>>
           /\ phase' = phase \/ (phase = "building" /\ phase' = "built")
  <1>1. ASSUME NEW t \in Tasks, JobStep(t)
        PROVE  UNCHANGED <<phase, found, dependsOn, queue, visited, level>>
    BY <1>1 DEF JobStep, TaskStep, KsStep, AcquirePermit, TaskSucceeds, TaskFails, TimesOut,
           StartVisit, UseCache, MissCache, StartFlux, findVars, orderVars
  <1>2. QED
    BY <1>1 DEF OrphanEnds, VerdictStep, GatherRaises, ReferenceRaises, NothingToBuild, EndManifest,
                bmVars, findVars, orderVars

LEMMA OtherOrder ==
    ASSUME OrderInv,
           \/ \E t \in Tasks : JobStep(t) \/ OrphanEnds(t)
           \/ VerdictStep
           \/ UNCHANGED bmVars
    PROVE  OrderInv'
  <1>1. /\ UNCHANGED <<found, dependsOn, queue, visited, level>>
        /\ phase' = phase \/ (phase = "building" /\ phase' = "built")
    BY OtherOrderVars
  <1>2. QED
    BY <1>1 DEF OrderInv, Accounted, Cluster, Selected

(* The dependencies of a Kustomization in the cluster are visited when its    *)
(* level begins, and never leave the cluster.                              *)
THEOREM OrderCorrect == BmSpec => []OrderInv
  <1>1. BmInit => OrderInv
    BY DEF BmInit, OrderInv
  <1>2. BmTypeOK /\ OrderInv /\ [BmNext]_bmVars => OrderInv'
    BY NextSteps, WaveOrder, LevelOrder, OtherOrder DEF LevelStep
  <1>3. QED
    BY <1>1, <1>2, BmTypeCorrect, PTL DEF BmSpec

-----------------------------------------------------------------------------
LEMMA CircleWhenNothingToBuild ==
    ASSUME OrderInv, NothingToBuild PROVE InternalErrorExplained'
  <1>1. /\ phase = "building" /\ level = {} /\ queue # {}
        /\ UNCHANGED <<dependsOn, queue, visited>>
    BY DEF NothingToBuild, orderVars
  <1>2. CASE Ready # {}
    BY <1>1, <1>2 DEF InternalErrorExplained, Ready
  <1>3. CASE Ready = {}
    <2>1. ASSUME NEW k \in queue PROVE dependsOn[k] \intersect queue # {}
      BY <1>1, <1>3 DEF Ready, OrderInv, Accounted
    <2>2. Circle(queue)'
      BY <1>1, <2>1 DEF Circle
    <2>3. queue' \in (SUBSET queue') \ {{}}
      BY <1>1
    <2>4. QED
      BY <2>2, <2>3 DEF InternalErrorExplained
  <1>4. QED
    BY <1>2, <1>3

(* The internal error means a circle of dependsOn or missing paths, never     *)
(* that the order of the build has lost a Kustomization.                    *)
THEOREM InternalErrorExplainedHolds == BmSpec => []InternalErrorExplained
  <1>1. BmInit => InternalErrorExplained
    BY ManifestAssumption DEF BmInit, InternalErrorExplained
  <1>2. OrderInv /\ InternalErrorExplained /\ [BmNext]_bmVars => InternalErrorExplained'
    <2> SUFFICES ASSUME OrderInv, InternalErrorExplained, [BmNext]_bmVars
                 PROVE  InternalErrorExplained'
      OBVIOUS
    <2>1. CASE NothingToBuild
      BY <2>1, CircleWhenNothingToBuild
    <2>2. CASE LevelStep
      BY <2>2, WaveStep, ManifestAssumption
      DEF LevelStep, StartLevel, EndLevel, InternalErrorExplained
    <2>3. ASSUME NEW t \in Tasks, JobStep(t) PROVE UNCHANGED error
      BY <2>3 DEF JobStep, TaskStep, KsStep, AcquirePermit, TaskSucceeds, TaskFails, TimesOut,
             StartVisit, UseCache, MissCache, StartFlux
    <2>4. CASE \/ \E t \in Tasks : JobStep(t) \/ OrphanEnds(t)
               \/ VerdictStep /\ ~NothingToBuild
               \/ UNCHANGED bmVars
      <3>1. UNCHANGED <<dependsOn, queue, visited>>
        BY <2>4, OtherOrderVars
      <3>2. error' = error \/ error' # "internal"
        BY <2>3, <2>4
        DEF OrphanEnds, VerdictStep, GatherRaises, ReferenceRaises, EndManifest, bmVars
      <3>3. QED
        BY <3>1, <3>2 DEF InternalErrorExplained, Circle, Ready
    <2>5. QED
      BY <2>1, <2>2, <2>4, NextSteps
  <1>3. QED
    BY <1>1, <1>2, OrderCorrect, PTL DEF BmSpec

-----------------------------------------------------------------------------
(* A task of a level ends with a build, or for a path that is not there; so   *)
(* the Kustomizations of the levels that are over have been built, and those *)
(* that depend on them were substituted from what they brought.             *)
Provided(k, d) == Ks[k].substituteFrom \intersect ConfigsOf(d)

BuiltOrSkipped ==
    /\ \A k \in level : /\ job[k] = "done" => built[k] # Nothing
                        /\ job[k] = "skipped" => Skipped(k)
                        /\ job[k] \in Busy \ {"visit"} => ~Skipped(k)
    /\ \A k \in visited : Skipped(k) \/ built[k] # Nothing

SubstitutedFromDependencies ==
    \A k \in level \union visited :
        ~Skipped(k) => \A d \in dependsOn[k] : ~Skipped(d) => Provided(k, d) \subseteq subst[k]

BuiltInLevel ==
    \A k \in Kustomizations : built[k] # Nothing => k \in level \union visited /\ ~Skipped(k)

DependInv ==
    phase # "traversal" => BuiltOrSkipped /\ SubstitutedFromDependencies /\ BuiltInLevel

LEMMA WaveDepend ==
    ASSUME StaleInv, OrderInv, MergeWave
    PROVE  DependInv'
  <1>1. PICK W :
          /\ level' = W
          /\ IF W = {} THEN StartBuilding(Selected(found'))
             ELSE UNCHANGED <<phase, dependsOn, queue>>
    BY WaveStep
  <1>2. phase = "traversal" /\ visited' = {} /\ \A k \in Kustomizations : built'[k] = Nothing
    BY WaveStep DEF OrderInv, StaleInv, NoneBuiltYet
  <1>3. QED
    BY <1>1, <1>2 DEF DependInv, BuiltOrSkipped, SubstitutedFromDependencies, BuiltInLevel

LEMMA JobDepend ==
    ASSUME BmTypeOK, StaleInv, OrderInv, DependInv, NEW t \in Tasks, JobStep(t)
    PROVE  DependInv'
  <1> SUFFICES ASSUME phase # "traversal" PROVE DependInv'
    BY OtherOrderVars
    DEF DependInv, JobStep, TaskStep, KsStep, AcquirePermit, TaskSucceeds, TaskFails,
        TimesOut, StartVisit, UseCache, MissCache, StartFlux
  <1>1. UNCHANGED <<dependsOn, visited, level, subst>>
    BY OtherOrderVars
    DEF JobStep, TaskStep, KsStep, AcquirePermit, TaskSucceeds, TaskFails, TimesOut,
        StartVisit, UseCache, MissCache, StartFlux
  <1>2. job[t] \in Busy /\ \E s : job' = [job EXCEPT ![t] = s]
    BY DEF JobStep, TaskStep, KsStep, AcquirePermit, TaskSucceeds, TaskFails, TimesOut,
           StartVisit, UseCache, MissCache, StartFlux, Enter, MayTimeOut, Busy
  <1>3. t \in level /\ level \subseteq Kustomizations /\ visited \subseteq Kustomizations
    BY <1>2 DEF StaleInv, InLevel, OrderInv, Accounted, Cluster, Selected, BmTypeOK,
                InKustomizations
  <1>4. t # Root
    BY <1>3, ManifestAssumption
  <1>5. BuiltOrSkipped /\ SubstitutedFromDependencies /\ BuiltInLevel
    BY DEF DependInv
  <1>6. ASSUME NEW k \in Kustomizations, k # t
        PROVE  job'[k] = job[k] /\ built'[k] = built[k]
    BY <1>2, <1>6
    DEF JobStep, TaskStep, KsStep, AcquirePermit, TaskSucceeds, TaskFails, TimesOut,
        StartVisit, UseCache, MissCache, StartFlux, BmTypeOK, Domains
  <1>7. /\ job'[t] = "done" => built'[t] # Nothing
        /\ job'[t] = "skipped" => Skipped(t)
        /\ job'[t] \in Busy \ {"visit"} => ~Skipped(t)
        /\ built[t] # Nothing => built'[t] # Nothing
        /\ built'[t] # Nothing => built[t] # Nothing \/ ~Skipped(t)
    <2> USE <1>3, <1>4, <1>5 DEF BuiltOrSkipped, BmTypeOK, Domains, Enter
    <2>1. input[t] # Nothing
      BY ManifestAssumption DEF StaleInv, FromReferences
    <2>2. CASE StartVisit(t)
      BY <2>2 DEF StartVisit, Skipped, Busy
    <2>3. CASE UseCache(t)
      BY <2>3 DEF UseCache, Busy
    <2>4. CASE TaskSucceeds(t)
      BY <2>1, <2>4 DEF TaskSucceeds, Busy
    <2>5. CASE AcquirePermit(t) \/ MissCache(t) \/ StartFlux(t) \/ TaskFails(t) \/ TimesOut(t)
      BY <2>5 DEF AcquirePermit, MissCache, StartFlux, TaskFails, TimesOut, Busy
    <2>6. QED
      BY <2>2, <2>3, <2>4, <2>5 DEF JobStep, TaskStep, KsStep
  <1>8. BuiltOrSkipped'
    <2>1. \A k \in level :
            /\ job'[k] = "done" => built'[k] # Nothing
            /\ job'[k] = "skipped" => Skipped(k)
            /\ job'[k] \in Busy \ {"visit"} => ~Skipped(k)
      BY <1>3, <1>5, <1>6, <1>7 DEF BuiltOrSkipped
    <2>2. \A k \in visited : Skipped(k) \/ built'[k] # Nothing
      BY <1>3, <1>5, <1>6, <1>7 DEF BuiltOrSkipped
    <2>3. QED
      BY <1>1, <2>1, <2>2 DEF BuiltOrSkipped, Skipped, Exists, Path, Busy
  <1>9. SubstitutedFromDependencies'
    <2>1. \A d \in visited : ~Skipped(d) => built'[d] = built[d]
      BY <1>1, <1>3, <1>5, <1>6, <1>7, JobStale DEF StaleInv, BuildNotStale, BuiltOrSkipped
    <2>2. \A k \in level \union visited : dependsOn[k] \subseteq visited
      BY DEF OrderInv, Accounted
    <2>3. ASSUME NEW k \in level \union visited, ~Skipped(k), NEW d \in dependsOn[k], ~Skipped(d)
          PROVE  Provided(k, d)' \subseteq subst[k]
      <3>1. ConfigsOf(d)' = ConfigsOf(d)
        BY <2>1, <2>2, <2>3 DEF ConfigsOf
      <3>2. QED
        BY <1>5, <2>3, <3>1 DEF SubstitutedFromDependencies, Provided, Ks
    <2>4. QED
      BY <1>1, <2>3 DEF SubstitutedFromDependencies, Skipped, Exists, Path
  <1>10. BuiltInLevel'
    <2>1. \A k \in Kustomizations :
            built'[k] # Nothing => k \in level \union visited /\ ~Skipped(k)
      BY <1>3, <1>5, <1>6, <1>7 DEF BuiltInLevel
    <2>2. QED
      BY <1>1, <2>1 DEF BuiltInLevel, Skipped, Exists, Path
  <1>11. QED
    BY <1>8, <1>9, <1>10 DEF DependInv

LEMMA StartDepend ==
    ASSUME BmTypeOK, StaleInv, OrderInv, DependInv, StartLevel
    PROVE  DependInv'
  <1> DEFINE builds == {k \in Ready : ~Skipped(k)}
  <1>1. /\ phase = "building" /\ level = {} /\ level' = Ready
        /\ UNCHANGED <<dependsOn, visited, built>>
        /\ subst' = [k \in Kustomizations |->
                        IF k \in builds THEN Substituted(k, BuiltConfigs) ELSE subst[k]]
        /\ job' = [t \in Tasks |-> IF t \in builds THEN "build"
                                   ELSE IF t \in Ready THEN "skipped" ELSE job[t]]
    BY DEF StartLevel
  <1>2. /\ queue \subseteq Kustomizations /\ visited \subseteq Cluster
        /\ Cluster \subseteq Kustomizations /\ Ready \subseteq queue
        /\ \A k \in Ready : dependsOn[k] \subseteq visited
    BY <1>1 DEF BmTypeOK, InKustomizations, OrderInv, Accounted, Cluster, Selected, Ready
  <1>3. BuiltOrSkipped /\ SubstitutedFromDependencies /\ BuiltInLevel
    BY <1>1 DEF DependInv
  <1>4. BuiltOrSkipped'
    <2>1. \A k \in Ready : k \in Tasks
      BY <1>2 DEF Tasks
    <2>2. \A k \in Ready :
            /\ job'[k] \in {"build", "skipped"}
            /\ job'[k] = "skipped" => Skipped(k)
            /\ job'[k] \in Busy => ~Skipped(k)
      BY <1>1, <2>1 DEF Busy
    <2>3. QED
      BY <1>1, <1>3, <2>2 DEF BuiltOrSkipped, Skipped, Exists, Path, Busy
  <1>5. ASSUME NEW k \in Ready, ~Skipped(k), NEW d \in dependsOn[k], ~Skipped(d)
        PROVE  Provided(k, d) \subseteq subst'[k]
    <2>1. d \in Cluster /\ built[d] # Nothing
      BY <1>2, <1>3, <1>5 DEF BuiltOrSkipped
    <2>2. ConfigsOf(d) \subseteq BuiltConfigs
      BY <2>1 DEF BuiltConfigs
    <2>3. subst'[k] = Substituted(k, BuiltConfigs)
      BY <1>1, <1>2, <1>5
    <2>4. QED
      BY <2>2, <2>3 DEF Provided, Substituted
  <1>6. ASSUME NEW k \in visited, ~Skipped(k), NEW d \in dependsOn[k], ~Skipped(d)
        PROVE  Provided(k, d) \subseteq subst'[k]
    <2>1. Provided(k, d) \subseteq subst[k]
      BY <1>3, <1>6 DEF SubstitutedFromDependencies
    <2>2. subst[k] \subseteq subst'[k]
      BY <1>1, <1>2 DEF Substituted
    <2>3. QED
      BY <2>1, <2>2
  <1>7. SubstitutedFromDependencies'
    <2>1. \A k \in Ready \union visited :
            ~Skipped(k) =>
               \A d \in dependsOn[k] : ~Skipped(d) => Provided(k, d) \subseteq subst'[k]
      BY <1>5, <1>6
    <2>2. QED
      BY <1>1, <2>1 DEF SubstitutedFromDependencies, Skipped, Exists, Path, Provided, ConfigsOf, Ks
  <1>8. BuiltInLevel'
    BY <1>1, <1>3 DEF BuiltInLevel, Skipped, Exists, Path
  <1>9. QED
    BY <1>4, <1>7, <1>8 DEF DependInv

LEMMA EndDepend == ASSUME DependInv, EndLevel PROVE DependInv'
  <1>1. /\ phase = "building" /\ LevelDone /\ level' = {} /\ visited' = visited \union level
        /\ UNCHANGED <<dependsOn, subst, job, built>>
    BY DEF EndLevel, NowVisited, taskVars
  <1>2. BuiltOrSkipped /\ SubstitutedFromDependencies /\ BuiltInLevel
    BY <1>1 DEF DependInv
  <1>3. BuiltOrSkipped'
    BY <1>1, <1>2 DEF BuiltOrSkipped, LevelDone, Skipped, Exists, Path
  <1>4. SubstitutedFromDependencies' /\ BuiltInLevel'
    BY <1>1, <1>2 DEF SubstitutedFromDependencies, BuiltInLevel, Skipped, Exists, Path, Provided,
                     ConfigsOf, Ks
  <1>5. QED
    BY <1>3, <1>4 DEF DependInv

LEMMA OtherDepend ==
    ASSUME DependInv,
           VerdictStep \/ (\E t \in Tasks : OrphanEnds(t)) \/ UNCHANGED bmVars
    PROVE  DependInv'
  <1>1. UNCHANGED <<dependsOn, visited, level, subst, job, built>>
    BY DEF VerdictStep, GatherRaises, ReferenceRaises, NothingToBuild, EndManifest, OrphanEnds,
           bmVars, orderVars, taskVars
  <1>2. phase' = phase \/ phase = "building"
    BY DEF VerdictStep, GatherRaises, ReferenceRaises, NothingToBuild, EndManifest,
           OrphanEnds, bmVars
  <1>3. CASE phase = "traversal"
    BY <1>2, <1>3 DEF DependInv
  <1>4. CASE phase # "traversal"
    BY <1>1, <1>4 DEF DependInv, BuiltOrSkipped, SubstitutedFromDependencies, BuiltInLevel,
                      Skipped, Exists, Path, Provided, ConfigsOf, Ks, Busy
  <1>5. QED
    BY <1>3, <1>4

LEMMA DependImplies == StaleInv /\ OrderInv /\ DependInv => DependenciesSubstituted
  <1> SUFFICES ASSUME StaleInv, OrderInv, DependInv,
                      NEW k \in Kustomizations, built[k] # Nothing,
                      NEW d \in dependsOn[k], ~Skipped(d)
               PROVE  built[d] # Nothing /\ Provided(k, d) \subseteq built[k]
    BY DEF DependenciesSubstituted, Provided
  <1>1. phase # "traversal" /\ built[k] = subst[k]
    BY DEF StaleInv, NoneBuiltYet, BuildNotStale
  <1>2. k \in level \union visited /\ ~Skipped(k) /\ d \in visited
    BY <1>1 DEF DependInv, BuiltInLevel, OrderInv, Accounted
  <1>3. QED
    BY <1>1, <1>2 DEF DependInv, BuiltOrSkipped, SubstitutedFromDependencies

(* A Kustomization is built with what those it depends on provide. *)
THEOREM DependenciesSubstitutedHolds == BmSpec => []DependenciesSubstituted
  <1>1. BmInit => DependInv
    BY DEF BmInit, DependInv
  <1>2. BmTypeOK /\ StaleInv /\ OrderInv /\ DependInv /\ [BmNext]_bmVars => DependInv'
    BY NextSteps, WaveDepend, JobDepend, StartDepend, EndDepend, OtherDepend DEF LevelStep
  <1>3. QED
    BY <1>1, <1>2, DependImplies, StaleCorrect, OrderCorrect, BmTypeCorrect, PTL DEF BmSpec

-----------------------------------------------------------------------------
(* Before the traversal ends each path it has taken up is that of a task of    *)
(* the wave, or of one that is done and whose output has been gone through;   *)
(* a name that was met is that of a Kustomization found, or of an outside one. *)
PathsTaken == \A t \in found \union {Root} : Path(t) \in visitedPaths

NamesFound == \A id \in visitedKs : Outside(id) \/ \E j \in found : Name(j) = id

NamesOf(v) == {Name(k) : k \in Allowed(v)}
Merged(v) == job[v] = "done" /\ NamesOf(v) \subseteq visitedKs

PathsMerged ==
    \A p \in visitedPaths \intersect Directories :
        \E v \in found \union {Root} : Path(v) = p /\ (v \in level \/ Merged(v))

SkippedMissing == \A t \in level : job[t] = "skipped" => ~Exists(t)

ClosedInv ==
    phase = "traversal" => PathsTaken /\ NamesFound /\ PathsMerged /\ SkippedMissing

LEMMA InitClosed == BmInit => ClosedInv
  <1> SUFFICES ASSUME BmInit PROVE ClosedInv
    OBVIOUS
  <1>1. Path(Root) = ClusterPath
    BY DEF Path
  <1>2. PathsTaken /\ PathsMerged
    BY <1>1 DEF BmInit, PathsTaken, PathsMerged
  <1>3. NamesFound /\ SkippedMissing
    BY DEF BmInit, NamesFound, SkippedMissing, Tasks
  <1>4. QED
    BY <1>2, <1>3 DEF ClosedInv

(* Once a wave is over, every path has been gone through. *)
LEMMA WaveMerges ==
    ASSUME BmTypeOK, ClosedInv, MergeWave
    PROVE  /\ NamesFound'
           /\ \A p \in visitedPaths \intersect Directories :
                 \E v \in found \union {Root} :
                    Path(v) = p /\ job[v] = "done" /\ NamesOf(v) \subseteq visitedKs'
  <1>1. phase = "traversal" /\ LevelDone
    BY WaveStep
  <1>2. PICK new \in NewKs :
          /\ visitedKs' = visitedKs \union {Name(k) : k \in new}
          /\ found' = found \union Reachable(new)
          /\ new \subseteq Kustomizations
    BY WaveStep
  <1>3. \A k \in new : Outside(Name(k)) \/ k \in Reachable(new)
    BY <1>2 DEF Outside, Reachable
  <1>4. NamesFound'
    <2>1. \A id \in visitedKs' : Outside(id) \/ \E j \in found' : Name(j) = id
      BY <1>1, <1>2, <1>3 DEF ClosedInv, NamesFound
    <2>2. QED
      BY <2>1 DEF NamesFound, Outside, Name
  <1>5. ASSUME NEW v \in Visits PROVE NamesOf(v) \subseteq visitedKs'
    BY <1>2, NewNames DEF NamesOf
  <1>6. ASSUME NEW p \in visitedPaths \intersect Directories
        PROVE  \E v \in found \union {Root} :
                  Path(v) = p /\ job[v] = "done" /\ NamesOf(v) \subseteq visitedKs'
    <2>1. PICK v \in found \union {Root} : Path(v) = p /\ (v \in level \/ Merged(v))
      BY <1>1, <1>6 DEF ClosedInv, PathsMerged
    <2>2. v \in level => v \in Visits
      BY <1>1, <1>6, <2>1 DEF ClosedInv, SkippedMissing, LevelDone, Visits, Exists
    <2>3. job[v] = "done" /\ NamesOf(v) \subseteq visitedKs'
      BY <1>2, <1>5, <2>1, <2>2 DEF Merged, Visits
    <2>4. QED
      BY <2>1, <2>3
  <1>7. QED
    BY <1>4, <1>6

LEMMA WaveClosed == ASSUME BmTypeOK, ClosedInv, MergeWave PROVE ClosedInv'
  <1>1. PICK new, W \in SUBSET Kustomizations :
          /\ W \in NextVisits(Reachable(new)) /\ W \subseteq Reachable(new)
          /\ found' = found \union Reachable(new)
          /\ level' = W
          /\ visitedPaths' = visitedPaths \union {Path(w) : w \in W}
          /\ job' = [t \in Tasks |-> IF t \in W THEN "visit" ELSE job[t]]
    BY WaveStep
  <1>2. phase = "traversal" /\ UNCHANGED input
    BY WaveStep
  <1>3. PathsTaken'
    <2>1. \A t \in found' \union {Root} : Path(t) \in visitedPaths'
      BY <1>1, <1>2, NextPaths DEF ClosedInv, PathsTaken, Reachable
    <2>2. QED
      BY <2>1 DEF PathsTaken, Path
  <1>4. \A t \in level' : job'[t] = "visit"
    BY <1>1 DEF Tasks
  <1>5. SkippedMissing'
    BY <1>4 DEF SkippedMissing
  <1>6. ASSUME NEW p \in visitedPaths' \intersect Directories
        PROVE  \E v \in found' \union {Root} :
                  /\ Path(v) = p
                  /\ v \in level' \/ (job'[v] = "done" /\ NamesOf(v) \subseteq visitedKs')
    <2>1. CASE p \in visitedPaths
      <3>1. PICK v \in found \union {Root} :
              Path(v) = p /\ job[v] = "done" /\ NamesOf(v) \subseteq visitedKs'
        BY <1>6, <2>1, WaveMerges
      <3>2. v \in Tasks /\ v \notin W
        BY <1>1, <2>1, <3>1, NextPaths DEF BmTypeOK, InKustomizations, Tasks, Reachable
      <3>3. QED
        BY <1>1, <3>1, <3>2
    <2>2. CASE \E w \in W : Path(w) = p
      BY <1>1, <2>2
    <2>3. QED
      BY <1>1, <1>6, <2>1, <2>2
  <1>7. PathsMerged'
    <2>1. \A v : NamesOf(v)' = NamesOf(v)
      BY <1>2 DEF NamesOf, Allowed, Yield
    <2>2. QED
      BY <1>6, <2>1 DEF PathsMerged, Merged, Path
  <1>8. QED
    BY <1>3, <1>5, <1>7, WaveMerges DEF ClosedInv

LEMMA JobClosed ==
    ASSUME BmTypeOK, ClosedInv, NEW t \in Tasks, JobStep(t)
    PROVE  ClosedInv'
  <1>1. UNCHANGED <<phase, found, visitedPaths, visitedKs, level>>
    BY DEF JobStep, TaskStep, KsStep, AcquirePermit, TaskSucceeds, TaskFails, TimesOut,
           StartVisit, UseCache, MissCache, StartFlux, findVars, orderVars
  <1>2. /\ job[t] # "done"
        /\ \E s : job' = [job EXCEPT ![t] = s] /\ (s = "skipped" => ~Exists(t))
    BY DEF JobStep, TaskStep, KsStep, AcquirePermit, TaskSucceeds, TaskFails, TimesOut,
           StartVisit, UseCache, MissCache, StartFlux, Enter, MayTimeOut
  <1>3. \A u \in Tasks : u # t => job'[u] = job[u] /\ input'[u] = input[u]
    BY <1>2 DEF JobStep, TaskStep, KsStep, AcquirePermit, TaskSucceeds, TaskFails, TimesOut,
                StartVisit, UseCache, MissCache, StartFlux, BmTypeOK, Domains
  <1> SUFFICES ASSUME phase = "traversal" PROVE ClosedInv'
    BY <1>1 DEF ClosedInv
  <1>4. \A u \in level : job'[u] = "skipped" => ~Exists(u)
    BY <1>2 DEF ClosedInv, SkippedMissing, BmTypeOK, Domains, InKustomizations
  <1>5. SkippedMissing'
    BY <1>1, <1>4 DEF SkippedMissing, Exists, Path
  <1>6. PathsTaken' /\ NamesFound'
    BY <1>1 DEF ClosedInv, PathsTaken, NamesFound, Path, Outside, Name
  <1>7. \A v \in found \union {Root} : Merged(v) => Merged(v)'
    <2>1. ASSUME NEW v \in found \union {Root}, Merged(v) PROVE Merged(v)'
      <3>1. v \in Tasks /\ v # t
        BY <1>2, <2>1 DEF Merged, BmTypeOK, InKustomizations, Tasks
      <3>2. NamesOf(v)' = NamesOf(v)
        BY <1>3, <3>1 DEF NamesOf, Allowed, Yield
      <3>3. QED
        BY <1>1, <1>3, <2>1, <3>1, <3>2 DEF Merged
    <2>2. QED
      BY <2>1
  <1>8. PathsMerged'
    BY <1>1, <1>7 DEF ClosedInv, PathsMerged, Path
  <1>9. QED
    BY <1>5, <1>6, <1>8 DEF ClosedInv

LEMMA OtherClosed ==
    ASSUME ClosedInv,
           \/ StartLevel \/ EndLevel \/ VerdictStep
           \/ \E t \in Tasks : OrphanEnds(t)
           \/ UNCHANGED bmVars
    PROVE  ClosedInv' /\ (phase = "traversal" => phase' = "traversal")
  <1>1. \/ phase # "traversal" /\ phase' # "traversal"
        \/ UNCHANGED <<phase, level, job, input, found, visitedPaths, visitedKs>>
    BY DEF StartLevel, EndLevel, VerdictStep, GatherRaises, ReferenceRaises, NothingToBuild,
           EndManifest, OrphanEnds, bmVars, findVars, orderVars, taskVars
  <1>2. CASE phase # "traversal" /\ phase' # "traversal"
    BY <1>2 DEF ClosedInv
  <1>3. CASE UNCHANGED <<phase, level, job, input, found, visitedPaths, visitedKs>>
    <2>1. PathsTaken' = PathsTaken /\ NamesFound' = NamesFound /\ SkippedMissing' = SkippedMissing
      BY <1>3 DEF PathsTaken, NamesFound, SkippedMissing, Exists, Path, Outside, Name
    <2>2. \A v : Merged(v)' = Merged(v)
      BY <1>3 DEF Merged, NamesOf, Allowed, Yield
    <2>3. PathsMerged' = PathsMerged
      BY <1>3, <2>2 DEF PathsMerged, Path
    <2>4. QED
      BY <1>3, <2>1, <2>3 DEF ClosedInv
  <1>4. QED
    BY <1>1, <1>2, <1>3

ClosingStep ==
    phase = "traversal" /\ phase' = "building" =>
        \A t \in found' \union {Root} :
            Exists(t) => \E v \in found' \union {Root} : VisitedFor(t, v)

LEMMA WaveCloses == ASSUME BmTypeOK, ClosedInv, MergeWave PROVE ClosingStep
  <1> SUFFICES ASSUME phase' = "building", NEW t \in found' \union {Root}, Exists(t)
               PROVE  \E v \in found' \union {Root} : VisitedFor(t, v)
    BY DEF ClosingStep
  <1>1. PICK new, W \in SUBSET Kustomizations :
          /\ W \in NextVisits(Reachable(new))
          /\ found' = found \union Reachable(new)
          /\ W # {} => UNCHANGED phase
    BY WaveStep
  <1>2. phase = "traversal" /\ W = {}
    BY <1>1, WaveStep
  <1>3. Path(t) \in visitedPaths
    BY <1>1, <1>2, NextPaths DEF ClosedInv, PathsTaken, Reachable
  <1>4. PICK v \in found \union {Root} :
          Path(v) = Path(t) /\ job[v] = "done" /\ NamesOf(v) \subseteq visitedKs'
    BY <1>3, WaveMerges DEF Exists
  <1>5. ASSUME NEW k \in Allowed(v)
        PROVE  Outside(Name(k)) \/ \E j \in found' : Name(j) = Name(k)
    <2>1. Name(k) \in visitedKs'
      BY <1>4 DEF NamesOf
    <2>2. \A id \in visitedKs' : Outside(id) \/ \E j \in found' : Name(j) = id
      BY WaveMerges DEF NamesFound, Outside, Name
    <2>3. QED
      BY <2>1, <2>2
  <1>6. VisitedFor(t, v)
    BY <1>4, <1>5 DEF VisitedFor
  <1>7. QED
    BY <1>1, <1>4, <1>6

LEMMA NextClosed ==
    ASSUME BmTypeOK, ClosedInv, [BmNext]_bmVars
    PROVE  ClosedInv' /\ ClosingStep
  <1>1. CASE MergeWave
    BY <1>1, WaveClosed, WaveCloses
  <1>2. ASSUME NEW t \in Tasks, JobStep(t) PROVE ClosedInv' /\ UNCHANGED phase
    BY <1>2, JobClosed
    DEF JobStep, TaskStep, KsStep, AcquirePermit, TaskSucceeds, TaskFails, TimesOut,
        StartVisit, UseCache, MissCache, StartFlux
  <1>3. CASE \/ StartLevel \/ EndLevel \/ VerdictStep
             \/ \E t \in Tasks : OrphanEnds(t)
             \/ UNCHANGED bmVars
    BY <1>3, OtherClosed DEF ClosingStep
  <1>4. QED
    BY <1>1, <1>2, <1>3, NextSteps DEF LevelStep, ClosingStep

(* When the traversal ends it has visited each path of the cluster, and what  *)
(* these visits held has been found, or one of the same name.               *)
THEOREM ClusterIsClosedHolds == BmSpec => ClusterIsClosed
  <1>1. ClosingStep => (phase = "traversal" /\ phase' = "building" =>
          \A t \in found' \union {Root} :
              Exists(t) => \E v \in found' \union {Root} : VisitedFor(t, v))
    BY DEF ClosingStep
  <1>2. QED
    BY <1>1, InitClosed, NextClosed, BmTypeCorrect, PTL DEF BmSpec, ClusterIsClosed
=============================================================================
