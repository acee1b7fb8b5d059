------------------------------ MODULE HelmProofs ------------------------------
(* A READY release has what it waited for, whatever is applied to the cluster *)
(* and in whatever order: what a wait has seen stays there.                 *)
EXTENDS HelmController, FiniteSetTheorems, SequenceTheorems, TLAPS

GitRepositories == OfKind("GitRepository")

HrDomains ==
    /\ DOMAIN status = Releases \union GitRepositories
    /\ DOMAIN phase = Releases
    /\ DOMAIN wait = Releases
    /\ stored \subseteq Documents

Past == {"opening", "writing", "fetching", "rendering"}

(* A wait that is done has found what it is for; a release that is past its   *)
(* waits has waited for all of its dependencies.                           *)
WaitsSound ==
    \A r \in Releases : \A id \in DOMAIN wait[r] : wait[r][id] = "done" => Available(id)

WaitedForAll ==
    \A r \in Releases :
        /\ phase[r] \in Past \union {"waiting"} => DOMAIN wait[r] = Dependencies(r)
        /\ phase[r] \in Past => Waited(r)

ReadySound ==
    \A r \in Releases : status[r] = "Ready" =>
        /\ Rendered[r] \subseteq stored
        /\ r \in artifact
        /\ \A id \in Dependencies(r) : Available(id)

HelmInv == HrDomains /\ WaitsSound /\ WaitedForAll /\ ReadySound

(* The steps that are about no release's progress. *)
OtherStep ==
    \/ \E R \in SUBSET Busy : CancelReleases(R)
    \/ Close
    \/ UNCHANGED hrVars

(* Nothing that a release depends on goes away again. *)
Kept ==
    /\ stored \subseteq stored'
    /\ artifact \subseteq artifact'
    /\ \A g \in GitRepositories : status[g] = "Ready" => status'[g] = "Ready"

LEMMA ReleasesAreNoRepositories == Releases \intersect GitRepositories = {}
  BY DEF Releases, GitRepositories, OfKind

LEMMA HeardKeeps == ASSUME NEW D, Heard(D) PROVE stored' = stored \union D
  BY DEF Heard

LEMMA TemplateKeeps ==
    ASSUME HrDomains, NEW r \in Releases, Template(r)
    PROVE  /\ \A g \in GitRepositories : status'[g] = status[g]
           /\ status' = status \/ status' = [status EXCEPT ![r] = "Failed"]
           /\ \E p \in {"done", "rendering"} : phase' = [phase EXCEPT ![r] = p]
  BY ReleasesAreNoRepositories DEF Template, Fail, SetStatus, Enter, HrDomains

(* What a release's own step does to status and phase, beyond the rendering.  *)
LEMMA ReleaseStepKeeps ==
    ASSUME HrDomains, NEW r \in Releases, ReleaseStep(r)
    PROVE  Kept
  <1> USE ReleasesAreNoRepositories DEF HrDomains, Kept
  <1>1. CASE StartRelease(r)
    BY <1>1 DEF StartRelease, SetStatus
  <1>2. CASE WaitsTimeOut(r)
    BY <1>2 DEF WaitsTimeOut, Fail, SetStatus
  <1>3. CASE DependenciesReady(r)
    BY <1>3, TemplateKeeps DEF DependenciesReady
  <1>4. CASE UpdateStep(r)
    BY <1>4, TemplateKeeps
    DEF UpdateStep, OpenConfig, WriteConfig, UpdateSucceeds, UpdateFails, Fail, SetStatus,
        helmVars
  <1>5. CASE RenderFails(r)
    BY <1>5 DEF RenderFails, Fail, SetStatus
  <1>6. CASE ApplyFails(r)
    BY <1>6, HeardKeeps DEF ApplyFails, SetStatus
  <1>7. CASE RenderSucceeds(r)
    BY <1>7, HeardKeeps DEF RenderSucceeds, SetStatus
  <1>8. CASE TakeCancellation(r)
    BY <1>8 DEF TakeCancellation
  <1>9. QED
    BY <1>1, <1>2, <1>3, <1>4, <1>5, <1>6, <1>7, <1>8 DEF ReleaseStep, RenderStep

LEMMA StepKeeps == ASSUME HrDomains, [HrNext]_hrVars PROVE Kept
  <1> USE DEF Kept
  <1>1. ASSUME NEW D \in Applied, ApplyOutput(D) PROVE Kept
    BY <1>1, HeardKeeps DEF ApplyOutput
  <1>2. ASSUME NEW g \in GitRepositories, GitRepositoryFetched(g) PROVE Kept
    BY <1>2 DEF GitRepositoryFetched, SetStatus, HrDomains
  <1>3. ASSUME NEW r \in Releases, NEW id, WaitEnds(r, id) PROVE Kept
    BY <1>3 DEF WaitEnds
  <1>4. ASSUME Close \/ \E R \in SUBSET Busy : CancelReleases(R) PROVE Kept
    BY <1>4 DEF Close, CancelReleases
  <1>5. CASE UNCHANGED hrVars
    BY <1>5 DEF hrVars
  <1>6. QED
    BY <1>1, <1>2, <1>3, <1>4, <1>5, ReleaseStepKeeps DEF HrNext, GitRepositories

LEMMA AvailableKept ==
    ASSUME HrDomains, Kept, NEW id, Available(id) PROVE Available(id)'
  <1>1. Found(id) \subseteq Found(id)'
    BY DEF Kept, Found, Object
  <1>2. CASE id.kind # "GitRepository"
    BY <1>1, <1>2 DEF Available
  <1>3. CASE id.kind = "GitRepository"
    <2>1. PICK d \in Found(id) : status[d] = "Ready"
      BY <1>3 DEF Available
    <2>2. d \in GitRepositories
      BY <1>3 DEF Found, Id, Resource, GitRepositories, OfKind, HrDomains
    <2>3. QED
      BY <1>1, <1>3, <2>1, <2>2 DEF Available, Kept
  <1>4. QED
    BY <1>2, <1>3
-----------------------------------------------------------------------------
LEMMA InitHelm == HrInit => HelmInv
  <1> SUFFICES ASSUME HrInit PROVE HelmInv
    OBVIOUS
  <1>1. HrDomains
    BY DEF HrInit, HrDomains, GitRepositories
  <1>2. \A r \in Releases :
          wait[r] = [d \in {} |-> "none"] /\ phase[r] = "absent" /\ status[r] = "None"
    BY DEF HrInit
  <1>3. WaitsSound
    BY <1>2 DEF WaitsSound
  <1>4. WaitedForAll /\ ReadySound
    BY <1>2 DEF WaitedForAll, ReadySound, Past
  <1>5. QED
    BY <1>1, <1>3, <1>4 DEF HelmInv

(* The type part. *)
LEMMA DomainsKept == ASSUME HrDomains, [HrNext]_hrVars PROVE HrDomains'
  <1> DEFINE Same == /\ DOMAIN status' = DOMAIN status
                     /\ DOMAIN phase' = Releases
                     /\ DOMAIN wait' = Releases
                     /\ stored' \subseteq Documents
  <1> USE DEF HrDomains
  <1>1. ASSUME NEW D \in Applied, ApplyOutput(D) PROVE Same
    BY <1>1, HeardKeeps, HelmAssumption DEF ApplyOutput
  <1>2. ASSUME NEW g, GitRepositoryFetched(g) PROVE Same
    BY <1>2 DEF GitRepositoryFetched, SetStatus
  <1>3. ASSUME NEW r \in Releases, ReleaseStep(r) PROVE Same
    <2>1. CASE StartRelease(r)
      BY <2>1 DEF StartRelease, SetStatus, Enter
    <2>2. CASE WaitsTimeOut(r)
      BY <2>2 DEF WaitsTimeOut, Fail, SetStatus, Enter, CancelWaits
    <2>3. CASE DependenciesReady(r)
      BY <2>3, TemplateKeeps DEF DependenciesReady, Enter
    <2>4. CASE UpdateStep(r)
      BY <2>4, TemplateKeeps
      DEF UpdateStep, OpenConfig, WriteConfig, UpdateSucceeds, UpdateFails, Fail, SetStatus, Enter
    <2>5. CASE RenderFails(r)
      BY <2>5 DEF RenderFails, Fail, SetStatus, Enter
    <2>6. CASE ApplyFails(r) \/ RenderSucceeds(r)
      <3>1. \A D \in SUBSET Rendered[r] : D \subseteq Documents
        BY HelmAssumption
      <3>2. QED
        BY <2>6, <3>1, HeardKeeps DEF ApplyFails, RenderSucceeds, SetStatus, Ends
    <2>7. CASE TakeCancellation(r)
      BY <2>7 DEF TakeCancellation, CancelWaits, Enter
    <2>8. QED
      BY <1>3, <2>1, <2>2, <2>3, <2>4, <2>5, <2>6, <2>7 DEF ReleaseStep, RenderStep
  <1>4. ASSUME NEW r \in Releases, NEW id, WaitEnds(r, id) PROVE Same
    BY <1>4 DEF WaitEnds
  <1>5. CASE OtherStep
    BY <1>5 DEF OtherStep, Close, CancelReleases, hrVars
  <1>6. Same
    BY <1>1, <1>2, <1>3, <1>4, <1>5 DEF HrNext, OtherStep
  <1>7. QED
    BY <1>6 DEF Releases, GitRepositories, OfKind, Object

(* Waits end with what they are for. *)
LEMMA WaitsSoundKept ==
    ASSUME HrDomains, WaitsSound, [HrNext]_hrVars
    PROVE  WaitsSound'
  <1> DEFINE Seen == \A q \in Releases : \A i \in DOMAIN wait'[q] :
                        wait'[q][i] = "done" =>
                           Available(i) \/ (i \in DOMAIN wait[q] /\ wait[q][i] = "done")
  <1> USE DEF HrDomains
  <1>1. ASSUME wait' = wait PROVE Seen
    BY <1>1
  <1>2. ASSUME NEW r \in Releases, NEW id, WaitEnds(r, id) PROVE Seen
    BY <1>2 DEF WaitEnds
  <1>3. ASSUME NEW r \in Releases, StartRelease(r) PROVE Seen
    BY <1>3 DEF StartRelease
  <1>4. ASSUME NEW r \in Releases, CancelWaits(r) PROVE Seen
    BY <1>4 DEF CancelWaits
  <1>5. Seen
    <2>1. ASSUME NEW D \in Applied, ApplyOutput(D) PROVE wait' = wait
      BY <2>1 DEF ApplyOutput
    <2>2. ASSUME NEW g, GitRepositoryFetched(g) PROVE wait' = wait
      BY <2>2 DEF GitRepositoryFetched
    <2>3. ASSUME NEW r \in Releases, ReleaseStep(r)
          PROVE  wait' = wait \/ StartRelease(r) \/ CancelWaits(r)
      BY <2>3 DEF ReleaseStep, WaitsTimeOut, DependenciesReady, UpdateStep, OpenConfig, WriteConfig,
             UpdateSucceeds, UpdateFails, RenderStep, RenderFails, ApplyFails, RenderSucceeds,
             TakeCancellation
    <2>4. CASE OtherStep
      BY <1>1, <2>4 DEF OtherStep, Close, CancelReleases, hrVars
    <2>5. QED
      BY <1>1, <1>2, <1>3, <1>4, <2>1, <2>2, <2>3, <2>4 DEF HrNext, OtherStep
  <1>6. \A q \in Releases : \A i \in DOMAIN wait'[q] : wait'[q][i] = "done" => Available(i)
    BY <1>5 DEF WaitsSound
  <1>7. \A q \in Releases : \A i \in DOMAIN wait'[q] : wait'[q][i] = "done" => Available(i)'
    BY <1>6, StepKeeps, AvailableKept
  <1>8. QED
    BY <1>7 DEF WaitsSound, Releases, OfKind, Object

(* No release is past its waits before they are done. *)
LEMMA WaitedForAllKept ==
    ASSUME HrDomains, WaitedForAll, [HrNext]_hrVars
    PROVE  WaitedForAll'
  <1> DEFINE ForAll ==
        \A q \in Releases :
            /\ phase'[q] \in Past \union {"waiting"} => DOMAIN wait'[q] = Dependencies(q)
            /\ phase'[q] \in Past => \A i \in DOMAIN wait'[q] : wait'[q][i] = "done"
  <1> USE DEF HrDomains, WaitedForAll, Waited, Past
  <1>1. ASSUME NEW D \in Applied, ApplyOutput(D) PROVE ForAll
    BY <1>1 DEF ApplyOutput
  <1>2. ASSUME NEW g, GitRepositoryFetched(g) PROVE ForAll
    BY <1>2 DEF GitRepositoryFetched
  <1>3. ASSUME NEW r \in Releases, ReleaseStep(r) PROVE ForAll
    <2>1. CASE StartRelease(r)
      BY <2>1 DEF StartRelease, Enter
    <2>2. CASE WaitsTimeOut(r)
      BY <2>2 DEF WaitsTimeOut, Fail, Enter, CancelWaits
    <2>3. CASE DependenciesReady(r)
      BY <2>3, TemplateKeeps DEF DependenciesReady, Enter
    <2>4. CASE UpdateStep(r)
      BY <2>4, TemplateKeeps
      DEF UpdateStep, OpenConfig, WriteConfig, UpdateSucceeds, UpdateFails, Fail, Enter
    <2>5. CASE RenderFails(r)
      BY <2>5 DEF RenderFails, Fail, Enter
    <2>6. CASE ApplyFails(r) \/ RenderSucceeds(r)
      BY <2>6 DEF ApplyFails, RenderSucceeds, Ends
    <2>7. CASE TakeCancellation(r)
      BY <2>7 DEF TakeCancellation, CancelWaits, Enter
    <2>8. QED
      BY <1>3, <2>1, <2>2, <2>3, <2>4, <2>5, <2>6, <2>7 DEF ReleaseStep, RenderStep
  <1>4. ASSUME NEW r \in Releases, NEW id, WaitEnds(r, id) PROVE ForAll
    BY <1>4 DEF WaitEnds
  <1>5. CASE OtherStep
    BY <1>5 DEF OtherStep, Close, CancelReleases, hrVars
  <1>6. ForAll
    BY <1>1, <1>2, <1>3, <1>4, <1>5 DEF HrNext, OtherStep
  <1>7. QED
    BY <1>6 DEF Releases, OfKind, Object, Dependencies

(* Only a release whose output is complete becomes READY. *)
LEMMA ReadySoundKept ==
    ASSUME HelmInv, [HrNext]_hrVars
    PROVE  ReadySound'
  <1> DEFINE Was(q) == status'[q] = "Ready" => status[q] = "Ready"
  <1> USE DEF HelmInv, HrDomains
  <1>1. ASSUME NEW r \in Releases, ReleaseStep(r), ~RenderSucceeds(r), NEW q \in Releases
        PROVE  Was(q)
    <2>1. CASE StartRelease(r)
      BY <2>1 DEF StartRelease, SetStatus
    <2>2. CASE WaitsTimeOut(r) \/ RenderFails(r) \/ ApplyFails(r)
      BY <2>2 DEF WaitsTimeOut, RenderFails, ApplyFails, Fail, SetStatus
    <2>3. CASE DependenciesReady(r)
      BY <2>3, TemplateKeeps DEF DependenciesReady
    <2>4. CASE UpdateStep(r)
      BY <2>4, TemplateKeeps
      DEF UpdateStep, OpenConfig, WriteConfig, UpdateSucceeds, UpdateFails, Fail, SetStatus
    <2>5. CASE TakeCancellation(r)
      BY <2>5 DEF TakeCancellation
    <2>6. QED
      BY <1>1, <2>1, <2>2, <2>3, <2>4, <2>5 DEF ReleaseStep, RenderStep
  <1>2. ASSUME NEW g \in GitRepositories, GitRepositoryFetched(g), NEW q \in Releases
        PROVE  Was(q)
    BY <1>2, ReleasesAreNoRepositories DEF GitRepositoryFetched, SetStatus
  <1>3. ASSUME NEW r \in Releases, RenderSucceeds(r), NEW q \in Releases
        PROVE  /\ q # r => Was(q)
               /\ q = r => /\ Rendered[q] \subseteq stored' /\ q \in artifact'
                          /\ \A id \in Dependencies(q) : Available(id)
    BY <1>3, HeardKeeps
    DEF RenderSucceeds, SetStatus, WaitedForAll, WaitsSound, Waited, Past
  <1>4. ASSUME NEW q \in Releases, status'[q] = "Ready"
        PROVE  \/ status[q] = "Ready"
               \/ /\ Rendered[q] \subseteq stored' /\ q \in artifact'
                  /\ \A id \in Dependencies(q) : Available(id)
    <2>1. ASSUME NEW D \in Applied, ApplyOutput(D) PROVE status' = status
      BY <2>1 DEF ApplyOutput
    <2>2. ASSUME NEW r \in Releases, NEW id, WaitEnds(r, id) PROVE status' = status
      BY <2>2 DEF WaitEnds
    <2>3. CASE OtherStep
      BY <1>4, <2>3 DEF OtherStep, Close, CancelReleases, hrVars
    <2>4. QED
      BY <1>1, <1>2, <1>3, <1>4, <2>1, <2>2, <2>3 DEF HrNext, OtherStep, GitRepositories
  <1>5. ASSUME NEW q \in Releases, status'[q] = "Ready"
        PROVE  /\ Rendered[q] \subseteq stored' /\ q \in artifact'
               /\ \A id \in Dependencies(q) : Available(id)
    BY <1>4, <1>5, StepKeeps DEF ReadySound, Kept
  <1>6. ASSUME NEW q \in Releases, status'[q] = "Ready", NEW id \in Dependencies(q)
        PROVE  Available(id)'
    BY <1>5, <1>6, StepKeeps, AvailableKept
  <1>7. QED
    BY <1>5, <1>6 DEF ReadySound, Releases, OfKind, Object, Dependencies

LEMMA SoundImplies == HelmInv => ReadyReleaseIsSound
  <1> SUFFICES ASSUME HelmInv, NEW r \in Releases, status[r] = "Ready"
               PROVE  /\ \A v \in ToSet(Object[r].valuesFrom) : Required(v) =>
                           Found(Resource(v.kind, Object[r].namespace, v.name)) # {}
                      /\ \E d \in Found(Object[r].chart.repo) :
                           Object[d].kind = "GitRepository" => status[d] = "Ready"
    BY DEF ReadyReleaseIsSound, HelmInv, ReadySound
  <1>1. \A id \in Dependencies(r) : Available(id)
    BY DEF HelmInv, ReadySound
  <1>2. ASSUME NEW v \in ToSet(Object[r].valuesFrom), Required(v)
        PROVE  Found(Resource(v.kind, Object[r].namespace, v.name)) # {}
    <2> DEFINE id == Resource(v.kind, Object[r].namespace, v.name)
    <2>1. id \in Dependencies(r)
      BY <1>2 DEF Dependencies
    <2>2. id.kind # "GitRepository"
      BY <1>2 DEF Required, Resource
    <2>3. QED
      BY <1>1, <2>1, <2>2 DEF Available
  <1>3. Object[r].chart.repo \in Dependencies(r)
    BY DEF Dependencies
  <1>4. \E d \in Found(Object[r].chart.repo) :
           Object[d].kind = "GitRepository" => status[d] = "Ready"
    BY <1>1, <1>3 DEF Available, Found, Id, Resource
  <1>5. QED
    BY <1>2, <1>4

(* A READY release has rendered completely, and with everything it refers to  *)
(* in the store.                                                           *)
THEOREM ReadyReleaseIsSoundHolds == HrSpec => []ReadyReleaseIsSound
  <1>1. HelmInv /\ [HrNext]_hrVars => HelmInv'
    BY DomainsKept, WaitsSoundKept, WaitedForAllKept, ReadySoundKept DEF HelmInv
  <1>2. QED
    BY <1>1, InitHelm, SoundImplies, PTL DEF HrSpec
-----------------------------------------------------------------------------
(* The lists that the client and the controller keep.  A repository is handed *)
(* over when it is added or, if it is a GitRepository, when it has been       *)
(* fetched; what the store has told of before it does not tell of again.     *)
ReposListed ==
    /\ repos \in Seq(Documents)
    /\ IsInjective(repos)
    /\ ToSet(repos) \subseteq stored
    /\ ToSet(repos) \intersect GitRepositories \subseteq artifact

TasksListed ==
    /\ tasks \in Seq(Documents)
    /\ IsInjective(tasks)
    /\ ToSet(tasks) = stored \intersect Releases

LEMMA ListsEachOnce ==
    ASSUME NEW S \in SUBSET Documents, NEW q \in SetToSeqs(S)
    PROVE  q \in Seq(Documents) /\ IsInjective(q) /\ ToSet(q) = S
  <1> DEFINE n == Cardinality(S)
  <1>1. IsFiniteSet(S)
    BY FS_Subset, HelmAssumption
  <1>2. n \in Nat
    BY <1>1, FS_CardinalityType
  <1>3. IsFiniteSet(1 .. n) /\ Cardinality(1 .. n) = n
    BY <1>2, FS_Interval
  <1>4. q \in [1 .. n -> S] /\ IsInjective(q)
    BY DEF SetToSeqs, IsInjective
  <1> HIDE DEF n
  <1>5. q \in Injection(1 .. n, S)
    BY <1>4 DEF Injection
  <1>6. q \in Surjection(1 .. n, S)
    BY <1>1, <1>3, <1>5, FS_Injection DEF n
  <1>7. ToSet(q) = S
    BY <1>4, <1>6 DEF Surjection, ToSet
  <1>8. q \in Seq(Documents)
    BY <1>2, <1>4
  <1>9. QED
    BY <1>4, <1>7, <1>8

LEMMA ListGrows ==
    ASSUME NEW T, NEW s \in Seq(T), NEW q \in Seq(T), IsInjective(s), IsInjective(q),
           ToSet(s) \intersect ToSet(q) = {}
    PROVE  s \o q \in Seq(T) /\ IsInjective(s \o q) /\ ToSet(s \o q) = ToSet(s) \union ToSet(q)
  <1> DEFINE m == Len(s)
             n == Len(q)
  <1>1. m \in Nat /\ n \in Nat /\ DOMAIN s = 1 .. m /\ DOMAIN q = 1 .. n
    OBVIOUS
  <1>2. /\ s \o q \in Seq(T) /\ DOMAIN (s \o q) = 1 .. (m + n)
        /\ \A i \in 1 .. (m + n) : (s \o q)[i] = IF i <= m THEN s[i] ELSE q[i - m]
    OBVIOUS
  <1> DEFINE sq == s \o q
  <1> HIDE DEF sq, m, n
  <1>3. IsInjective(sq)
    <2> SUFFICES ASSUME NEW a \in 1 .. (m + n), NEW b \in 1 .. (m + n), sq[a] = sq[b]
                 PROVE  a = b
      BY <1>2 DEF IsInjective, sq
    <2>1. \A i \in 1 .. (m + n) : /\ i <= m => i \in 1 .. m /\ sq[i] = s[i]
                                  /\ ~ (i <= m) => i - m \in 1 .. n /\ sq[i] = q[i - m]
      BY <1>1, <1>2 DEF sq
    <2>2. \A i \in 1 .. m, j \in 1 .. n : s[i] # q[j]
      BY <1>1 DEF ToSet
    <2>3. CASE a <= m /\ b <= m
      BY <1>1, <2>1, <2>3 DEF IsInjective
    <2>4. CASE ~ (a <= m) /\ ~ (b <= m)
      <3>1. a - m = b - m
        BY <1>1, <2>1, <2>4 DEF IsInjective
      <3>2. QED
        BY <1>1, <3>1
    <2>5. QED
      BY <2>1, <2>2, <2>3, <2>4
  <1>4. ToSet(sq) \subseteq ToSet(s) \union ToSet(q)
    <2>1. ASSUME NEW i \in 1 .. (m + n) PROVE sq[i] \in ToSet(s) \union ToSet(q)
      <3>1. CASE i <= m
        BY <1>1, <1>2, <3>1 DEF ToSet, sq
      <3>2. CASE ~ (i <= m)
        <4>1. i - m \in 1 .. n /\ sq[i] = q[i - m]
          BY <1>1, <1>2, <3>2 DEF sq
        <4>2. QED
          BY <1>1, <4>1 DEF ToSet
      <3>3. QED
        BY <3>1, <3>2
    <2>2. QED
      BY <1>2, <2>1 DEF ToSet, sq
  <1>5. ToSet(s) \union ToSet(q) \subseteq ToSet(sq)
    <2>1. ASSUME NEW i \in 1 .. m PROVE s[i] \in ToSet(sq)
      <3>1. i \in 1 .. (m + n) /\ sq[i] = s[i]
        BY <1>1, <1>2 DEF sq
      <3>2. QED
        BY <1>2, <3>1 DEF ToSet, sq
    <2>2. ASSUME NEW i \in 1 .. n PROVE q[i] \in ToSet(sq)
      <3>1. i + m \in 1 .. (m + n) /\ sq[i + m] = q[i]
        BY <1>1, <1>2 DEF sq
      <3>2. QED
        BY <1>2, <3>1 DEF ToSet, sq
    <2>3. QED
      BY <1>1, <2>1, <2>2 DEF ToSet
  <1>6. QED
    BY <1>2, <1>3, <1>4, <1>5 DEF sq

NewRepos(D) == New(D) \intersect (OfKind("HelmRepository") \union OfKind("OCIRepository"))

LEMMA HeardLists ==
    ASSUME ReposListed, TasksListed, NEW D \in SUBSET Documents, Heard(D)
    PROVE  /\ repos' \in Seq(Documents) /\ IsInjective(repos')
           /\ ToSet(repos') = ToSet(repos) \union NewRepos(D)
           /\ tasks' \in Seq(Documents) /\ IsInjective(tasks')
           /\ ToSet(tasks') = stored' \intersect Releases
  <1>1. PICK q \in SetToSeqs(NewRepos(D)) : repos' = repos \o q
    BY DEF Heard, NewRepos
  <1>2. PICK t \in SetToSeqs(New(D) \intersect Releases) : tasks' = tasks \o t
    BY DEF Heard
  <1>3. NewRepos(D) \in SUBSET Documents /\ NewRepos(D) \intersect stored = {}
    BY DEF NewRepos, New
  <1>4. New(D) \intersect Releases \in SUBSET Documents
    BY DEF New
  <1>5. q \in Seq(Documents) /\ IsInjective(q) /\ ToSet(q) = NewRepos(D)
    BY <1>1, <1>3, ListsEachOnce
  <1>6. t \in Seq(Documents) /\ IsInjective(t) /\ ToSet(t) = New(D) \intersect Releases
    BY <1>2, <1>4, ListsEachOnce
  <1>7. ToSet(repos) \intersect ToSet(q) = {} /\ ToSet(tasks) \intersect ToSet(t) = {}
    BY <1>3, <1>5, <1>6 DEF ReposListed, TasksListed, New
  <1>8. /\ repos' \in Seq(Documents) /\ IsInjective(repos')
        /\ ToSet(repos') = ToSet(repos) \union NewRepos(D)
    BY <1>1, <1>5, <1>7, ListGrows DEF ReposListed
  <1>9. /\ tasks' \in Seq(Documents) /\ IsInjective(tasks')
        /\ ToSet(tasks') = ToSet(tasks) \union (New(D) \intersect Releases)
    BY <1>2, <1>6, <1>7, ListGrows DEF TasksListed
  <1>10. ToSet(tasks') = stored' \intersect Releases
    BY <1>9, HeardKeeps DEF TasksListed, New
  <1>11. QED
    BY <1>8, <1>9, <1>10
(* A step tells the listeners of documents, hands over a GitRepository, or     *)
(* leaves the lists alone.                                                  *)
LEMMA StepListens ==
    ASSUME [HrNext]_hrVars
    PROVE  \/ \E D \in SUBSET Documents : Heard(D)
           \/ \E g \in GitRepositories : GitRepositoryFetched(g)
           \/ UNCHANGED <<stored, repos, tasks>>
  <1>1. ASSUME NEW D \in Applied, ApplyOutput(D) PROVE Heard(D) /\ D \in SUBSET Documents
    BY <1>1, HelmAssumption DEF ApplyOutput
  <1>2. ASSUME NEW r \in Releases, NEW id, WaitEnds(r, id)
        PROVE  UNCHANGED <<stored, repos, tasks>>
    BY <1>2 DEF WaitEnds, helmVars
  <1>3. CASE OtherStep
    BY <1>3 DEF OtherStep, Close, CancelReleases, hrVars, helmVars
  <1>4. ASSUME NEW r \in Releases, ReleaseStep(r)
        PROVE  \/ \E D \in SUBSET Documents : Heard(D)
               \/ UNCHANGED <<stored, repos, tasks>>
    <2>1. CASE ApplyFails(r) \/ RenderSucceeds(r)
      BY <2>1, HelmAssumption DEF ApplyFails, RenderSucceeds
    <2>2. CASE ~ (ApplyFails(r) \/ RenderSucceeds(r))
      BY <1>4, <2>2
      DEF ReleaseStep, StartRelease, WaitsTimeOut, DependenciesReady, UpdateStep, OpenConfig,
          WriteConfig, UpdateSucceeds, UpdateFails, RenderStep, RenderFails, TakeCancellation,
          helmVars
    <2>3. QED
      BY <2>1, <2>2
  <1>5. QED
    BY <1>1, <1>2, <1>3, <1>4 DEF HrNext, OtherStep, GitRepositories

LEMMA GitRepositoryIsNew ==
    ASSUME ReposListed, NEW g \in GitRepositories, GitRepositoryFetched(g)
    PROVE  /\ repos' \in Seq(Documents) /\ IsInjective(repos')
           /\ ToSet(repos') = ToSet(repos) \union {g}
  <1>1. g \in Documents /\ g \notin ToSet(repos)
    BY DEF GitRepositoryFetched, ReposListed, GitRepositories, OfKind
  <1> DEFINE one == <<g>>
  <1>2. one \in Seq(Documents) /\ IsInjective(one) /\ ToSet(one) = {g}
    BY <1>1 DEF IsInjective, ToSet
  <1>3. repos' = repos \o one
    BY <1>1 DEF GitRepositoryFetched, ReposListed
  <1> HIDE DEF one
  <1>4. ToSet(repos) \intersect ToSet(one) = {}
    BY <1>1, <1>2
  <1>5. QED
    BY <1>2, <1>3, <1>4, ListGrows DEF ReposListed

LEMMA ListsKept ==
    ASSUME HrDomains, ReposListed, TasksListed, [HrNext]_hrVars
    PROVE  ReposListed' /\ TasksListed'
  <1>a. GitRepositories' = GitRepositories /\ Releases' = Releases
    BY DEF GitRepositories, Releases, OfKind, Object
  <1>b. stored \subseteq stored' /\ artifact \subseteq artifact'
    BY StepKeeps DEF Kept
  <1>1. ASSUME NEW D \in SUBSET Documents, Heard(D) PROVE ReposListed' /\ TasksListed'
    <2>1. stored' = stored \union D
      BY <1>1, HeardKeeps
    <2>2. NewRepos(D) \subseteq D /\ NewRepos(D) \intersect GitRepositories = {}
      BY DEF NewRepos, New, GitRepositories, OfKind
    <2>3. QED
      BY <1>a, <1>b, <1>1, <2>1, <2>2, HeardLists DEF ReposListed, TasksListed
  <1>2. ASSUME NEW g \in GitRepositories, GitRepositoryFetched(g)
        PROVE  ReposListed' /\ TasksListed'
    <2>1. artifact' = artifact \union {g} /\ g \in stored /\ UNCHANGED <<stored, tasks>>
      BY <1>2 DEF GitRepositoryFetched
    <2>2. QED
      BY <1>a, <1>b, <1>2, <2>1, GitRepositoryIsNew DEF ReposListed, TasksListed
  <1>3. CASE UNCHANGED <<stored, repos, tasks>>
    BY <1>a, <1>b, <1>3 DEF ReposListed, TasksListed
  <1>4. QED
    BY <1>1, <1>2, <1>3, StepListens

-----------------------------------------------------------------------------
(* The types of what is not a list; a release has a task from when it is in   *)
(* the store on, and an update is about repositories the client has.        *)
PhasesTyped ==
    /\ status \in [Releases \union GitRepositories -> {"None", "Pending", "Ready", "Failed"}]
    /\ phase \in [Releases -> Phases]
    /\ artifact \subseteq stored
    /\ \A r \in Releases : phase[r] = "absent" <=> r \notin stored

ConfigTyped ==
    /\ needUpdate \in BOOLEAN
    /\ snapshot \in [Releases -> SUBSET Documents]
    /\ updated \subseteq SUBSET Documents
    /\ config \subseteq ToSet(repos)
    /\ \A r \in Updating : snapshot[r] \subseteq ToSet(repos)

LEMMA PhasesKept ==
    ASSUME HrDomains, PhasesTyped, [HrNext]_hrVars
    PROVE  PhasesTyped'
  <1> DEFINE Typed ==
        /\ status' \in [Releases \union GitRepositories -> {"None", "Pending", "Ready", "Failed"}]
        /\ phase' \in [Releases -> Phases]
        /\ artifact' \subseteq stored'
        /\ \A r \in Releases : phase'[r] = "absent" <=> r \notin stored'
  <1> USE DEF PhasesTyped, Phases
  <1>1. ASSUME NEW D \in Applied, ApplyOutput(D) PROVE Typed
    BY <1>1, HeardKeeps DEF ApplyOutput, Scheduled, New
  <1>2. ASSUME NEW g \in GitRepositories, GitRepositoryFetched(g) PROVE Typed
    BY <1>2 DEF GitRepositoryFetched, SetStatus
  <1>3. ASSUME NEW r \in Releases, ReleaseStep(r) PROVE Typed
    <2>1. CASE StartRelease(r)
      BY <2>1 DEF StartRelease, SetStatus, Enter
    <2>2. CASE WaitsTimeOut(r)
      BY <2>2 DEF WaitsTimeOut, MayTimeOut, Fail, SetStatus, Enter
    <2>3. CASE DependenciesReady(r)
      BY <2>3, TemplateKeeps DEF DependenciesReady, Enter
    <2>4. CASE UpdateStep(r)
      BY <2>4, TemplateKeeps
      DEF UpdateStep, OpenConfig, WriteConfig, UpdateSucceeds, UpdateFails, Fail, SetStatus, Enter
    <2>5. CASE RenderFails(r)
      BY <2>5 DEF RenderFails, Fail, SetStatus, Enter
    <2>6. ASSUME NEW D, Heard(D), Ends(r, D), phase[r] = "rendering",
                 UNCHANGED artifact \/ artifact' = artifact \union {r},
                 \E v \in {"Ready", "Failed"} : SetStatus(r, v)
          PROVE  Typed
      BY <2>6, HeardKeeps DEF Ends, Scheduled, New, SetStatus
    <2>7. CASE ApplyFails(r) \/ RenderSucceeds(r)
      BY <2>6, <2>7 DEF ApplyFails, RenderSucceeds
    <2>8. CASE TakeCancellation(r)
      BY <2>8 DEF TakeCancellation, Enter, Busy, Updating
    <2>9. QED
      BY <1>3, <2>1, <2>2, <2>3, <2>4, <2>5, <2>7, <2>8 DEF ReleaseStep, RenderStep
  <1>4. ASSUME NEW r \in Releases, NEW id, WaitEnds(r, id) PROVE Typed
    BY <1>4 DEF WaitEnds
  <1>5. CASE OtherStep
    BY <1>5 DEF OtherStep, Close, CancelReleases, hrVars
  <1>6. Typed
    BY <1>1, <1>2, <1>3, <1>4, <1>5 DEF HrNext, OtherStep, GitRepositories
  <1>7. QED
    BY <1>6 DEF Releases, GitRepositories, OfKind, Object
-----------------------------------------------------------------------------
(* What of the client's repositories is in helm's configuration.  An update   *)
(* writes those that the client had when it began, and what is added later,  *)
(* while it is under way, is late; from the write on, up to another update  *)
(* that opens the file, the configuration has all that is not late.         *)
At(p) == {r \in Releases : phase[r] = p}

UpdatesCover == \A r \in Updating : IndexedRepos \subseteq snapshot[r] \union late

ConfigCovers ==
    cancelled = {} /\ At("writing") = {} /\ (~needUpdate \/ At("fetching") # {}) =>
        IndexedRepos \subseteq config \union late

ConfigInv == ConfigTyped /\ UpdatesCover /\ ConfigCovers

LEMMA UpdatingAt == Updating = At("opening") \union At("writing") \union At("fetching")
  BY DEF Updating, At

LEMMA SameIndexed == ASSUME repos' = repos PROVE IndexedRepos' = IndexedRepos
  BY DEF IndexedRepos, ToSet, Object

LEMMA ListeningConfig ==
    ASSUME ConfigInv, ReposListed, TasksListed, NEW D \in SUBSET Documents, Heard(D),
           UNCHANGED <<config, updated, snapshot, cancelled>>,
           Updating' = Updating, At("writing")' = At("writing"), At("fetching")' = At("fetching")
    PROVE  ConfigInv'
  <1> USE DEF ConfigInv
  <1>1. ToSet(repos') = ToSet(repos) \union NewRepos(D)
    BY HeardLists
  <1>2. /\ needUpdate' = (needUpdate \/ NewRepos(D) # {})
        /\ late' = IF Updating # {} THEN late \union NewRepos(D) ELSE late
    BY DEF Heard, NewRepos
  <1>3. IndexedRepos' \subseteq IndexedRepos \union NewRepos(D)
    BY <1>1 DEF IndexedRepos, Object
  <1>4. ConfigTyped'
    BY <1>1, <1>2 DEF ConfigTyped
  <1>5. UpdatesCover'
    BY <1>2, <1>3 DEF UpdatesCover
  <1>6. ConfigCovers'
    BY <1>2, <1>3, UpdatingAt DEF ConfigCovers
  <1>7. QED
    BY <1>4, <1>5, <1>6

LEMMA UpdateSteps ==
    ASSUME HrDomains, PhasesTyped, ReposListed, ConfigInv, NEW r \in Releases,
           UpdateStep(r) \/ DependenciesReady(r)
    PROVE  ConfigInv'
  <1> USE DEF ConfigInv, ConfigTyped, PhasesTyped
  <1>1. /\ repos' = repos /\ IndexedRepos' = IndexedRepos
        /\ UNCHANGED <<late, cancelled>>
    BY SameIndexed
    DEF UpdateStep, OpenConfig, WriteConfig, UpdateSucceeds, UpdateFails, DependenciesReady,
        helmVars, closeVars
  <1>3. IndexedRepos \subseteq ToSet(repos) /\ IndexedRepos \subseteq Documents
    <2>1. ToSet(repos) \subseteq Documents
      BY DEF ReposListed, ToSet
    <2>2. QED
      BY <2>1 DEF IndexedRepos
  <1> DEFINE Leaves == \E p \in {"done", "rendering"} : phase' = [phase EXCEPT ![r] = p]
  <1>4. ASSUME Leaves
        PROVE  /\ Updating' = Updating \ {r}
               /\ At("writing")' = At("writing") \ {r}
               /\ At("fetching")' = At("fetching") \ {r}
    BY <1>4 DEF Updating, At, Releases, OfKind, Object
  <1>5. CASE DependenciesReady(r)
    <2>1. CASE needUpdate /\ IndexedRepos # {}
      <3>1. /\ snapshot' = [snapshot EXCEPT ![r] = IndexedRepos]
            /\ phase' = [phase EXCEPT ![r] = "opening"]
            /\ UNCHANGED <<needUpdate, config, updated>> /\ phase[r] = "waiting"
        BY <1>5, <2>1 DEF DependenciesReady, Enter
      <3>2. /\ Updating' = Updating \union {r}
            /\ At("writing")' = At("writing") /\ At("fetching")' = At("fetching")
        BY <3>1 DEF Updating, At, Releases, OfKind, Object
      <3>3. ConfigTyped' /\ UpdatesCover'
        BY <1>1, <1>3, <3>1, <3>2 DEF UpdatesCover
      <3>4. ConfigCovers'
        BY <1>1, <3>1, <3>2 DEF ConfigCovers
      <3>5. QED
        BY <3>3, <3>4
    <2>2. CASE ~ (needUpdate /\ IndexedRepos # {})
      <3>1. /\ needUpdate' = FALSE /\ Template(r) /\ phase[r] = "waiting"
            /\ UNCHANGED <<snapshot, config, updated>>
        BY <1>5, <2>2 DEF DependenciesReady
      <3>2. /\ Updating' = Updating
            /\ At("writing")' = At("writing") /\ At("fetching")' = At("fetching")
        BY <1>4, <3>1, TemplateKeeps DEF Updating, At
      <3>3. ConfigTyped' /\ UpdatesCover'
        BY <1>1, <3>1, <3>2 DEF UpdatesCover
      <3>4. ConfigCovers'
        BY <1>1, <2>2, <3>1, <3>2 DEF ConfigCovers
      <3>5. QED
        BY <3>3, <3>4
    <2>3. QED
      BY <2>1, <2>2
  <1>6. CASE OpenConfig(r)
    <2>1. /\ config' = {} /\ phase' = [phase EXCEPT ![r] = "writing"] /\ phase[r] = "opening"
          /\ UNCHANGED <<needUpdate, snapshot, updated>>
      BY <1>6 DEF OpenConfig, Enter
    <2>2. Updating' = Updating /\ r \in At("writing")'
      BY <2>1 DEF Updating, At, Releases, OfKind, Object
    <2>3. QED
      BY <1>1, <2>1, <2>2 DEF UpdatesCover, ConfigCovers
  <1>7. CASE WriteConfig(r)
    <2>1. r \in Updating /\ config' = config \union snapshot[r] /\ UNCHANGED <<snapshot, updated>>
      BY <1>7 DEF WriteConfig, WrittenConfig, Updating
    <2>2. ConfigCovers'
      BY <1>1, <2>1 DEF UpdatesCover, ConfigCovers
    <2>3. /\ Leaves \/ phase' = [phase EXCEPT ![r] = "fetching"]
          /\ needUpdate' \in BOOLEAN
      BY <1>7, TemplateKeeps DEF WriteConfig, Enter
    <2>4. Updating' \subseteq Updating
      BY <1>4, <2>1, <2>3 DEF Updating, Releases, OfKind, Object
    <2>5. ConfigTyped' /\ UpdatesCover'
      BY <1>1, <2>1, <2>3, <2>4 DEF UpdatesCover
    <2>6. QED
      BY <2>2, <2>5
  <1>8. CASE UpdateSucceeds(r) \/ UpdateFails(r)
    <2>1. r \in At("fetching") /\ r \notin At("writing") /\ UNCHANGED <<snapshot, config>>
      BY <1>8 DEF UpdateSucceeds, UpdateFails, At, helmVars
    <2>2. /\ Leaves /\ needUpdate' \in BOOLEAN
          /\ updated' \in {updated, updated \union {snapshot[r]}}
      BY <1>8, TemplateKeeps DEF UpdateSucceeds, UpdateFails, Fail, Enter, helmVars
    <2>3. ConfigTyped' /\ UpdatesCover'
      <3>1. Updating' \subseteq Updating
        BY <1>4, <2>2
      <3>2. updated' \subseteq SUBSET Documents
        BY <2>2
      <3>3. QED
        BY <1>1, <2>1, <2>2, <3>1, <3>2 DEF UpdatesCover
    <2>4. ConfigCovers'
      BY <1>1, <1>4, <2>1, <2>2 DEF ConfigCovers
    <2>5. QED
      BY <2>3, <2>4
  <1>9. QED
    BY <1>5, <1>6, <1>7, <1>8 DEF UpdateStep
LEMMA NextConfig ==
    ASSUME HrDomains, PhasesTyped, ReposListed, TasksListed, ConfigInv, [HrNext]_hrVars
    PROVE  ConfigInv'
  <1> USE DEF PhasesTyped
  <1> DEFINE SamePhases ==
        /\ Updating' = Updating
        /\ At("writing")' = At("writing") /\ At("fetching")' = At("fetching")
  <1>a. ASSUME UNCHANGED <<config, updated, snapshot, late, needUpdate, cancelled>>,
               SamePhases, repos' = repos
        PROVE  ConfigInv'
    BY <1>a, SameIndexed
    DEF ConfigInv, ConfigTyped, UpdatesCover, ConfigCovers
  <1>b. ASSUME phase' = phase PROVE SamePhases
    BY <1>b DEF Updating, At, Releases, OfKind, Object
  <1>1. ASSUME NEW D \in Applied, ApplyOutput(D) PROVE ConfigInv'
    <2>1. D \in SUBSET Documents
      BY HelmAssumption
    <2>2. SamePhases
      BY <1>1 DEF ApplyOutput, Scheduled, New, Updating, At, Releases, OfKind, Object
    <2>3. QED
      BY <1>1, <2>1, <2>2, ListeningConfig DEF ApplyOutput, closeVars
  <1>2. ASSUME NEW g \in GitRepositories, GitRepositoryFetched(g) PROVE ConfigInv'
    <2>1. SamePhases
      BY <1>2, <1>b DEF GitRepositoryFetched
    <2>2. IndexedRepos' = IndexedRepos /\ ToSet(repos') = ToSet(repos) \union {g}
      <3>1. ToSet(repos') = ToSet(repos) \union {g}
        BY <1>2, GitRepositoryIsNew
      <3>2. QED
        BY <3>1 DEF IndexedRepos, Object, GitRepositories, OfKind
    <2>3. /\ needUpdate' = TRUE
          /\ UNCHANGED <<config, updated, snapshot, late, cancelled>>
      BY <1>2 DEF GitRepositoryFetched, closeVars
    <2>4. QED
      BY <2>1, <2>2, <2>3
      DEF ConfigInv, ConfigTyped, UpdatesCover, ConfigCovers
  <1>3. ASSUME NEW r \in Releases, ReleaseStep(r) PROVE ConfigInv'
    <2>1. CASE UpdateStep(r) \/ DependenciesReady(r)
      BY <2>1, UpdateSteps
    <2>2. CASE StartRelease(r) \/ WaitsTimeOut(r) \/ RenderFails(r)
      <3>1. \/ phase[r] = "scheduled" /\ phase' = [phase EXCEPT ![r] = "waiting"]
            \/ phase[r] \in {"waiting", "rendering"} /\ phase' = [phase EXCEPT ![r] = "done"]
        BY <2>2 DEF StartRelease, WaitsTimeOut, MayTimeOut, RenderFails, Fail, Enter
      <3>2. SamePhases
        BY <3>1 DEF Updating, At, Releases, OfKind, Object
      <3>3. QED
        BY <1>a, <2>2, <3>2 DEF StartRelease, WaitsTimeOut, RenderFails, helmVars, closeVars
    <2>3. CASE ApplyFails(r) \/ RenderSucceeds(r)
      <3>1. PICK D \in SUBSET Documents : Heard(D) /\ Ends(r, D)
        BY <2>3, HelmAssumption DEF ApplyFails, RenderSucceeds
      <3>2. phase[r] = "rendering"
        BY <2>3 DEF ApplyFails, RenderSucceeds
      <3>3. SamePhases
        BY <3>1, <3>2 DEF Ends, Scheduled, New, Updating, At, Releases, OfKind, Object
      <3>4. UNCHANGED <<config, updated, snapshot, cancelled>>
        BY <2>3 DEF ApplyFails, RenderSucceeds, closeVars
      <3>5. QED
        BY <3>1, <3>3, <3>4, ListeningConfig
    <2>4. CASE TakeCancellation(r)
      <3>1. /\ cancelled # {} /\ phase' = [phase EXCEPT ![r] = "cancelled"]
            /\ UNCHANGED <<repos, config, updated, snapshot, late, needUpdate, cancelled>>
        BY <2>4 DEF TakeCancellation, Enter, helmVars, closeVars
      <3>2. Updating' \subseteq Updating
        BY <3>1 DEF Updating, Releases, OfKind, Object
      <3>3. QED
        BY <3>1, <3>2, SameIndexed
        DEF ConfigInv, ConfigTyped, UpdatesCover, ConfigCovers
    <2>5. QED
      BY <1>3, <2>1, <2>2, <2>3, <2>4 DEF ReleaseStep, RenderStep
  <1>4. ASSUME NEW r \in Releases, NEW id, WaitEnds(r, id) PROVE ConfigInv'
    BY <1>4, <1>a, <1>b DEF WaitEnds, helmVars, closeVars
  <1>5. CASE OtherStep
    <2>1. cancelled \subseteq cancelled' /\ SamePhases
      BY <1>5, <1>b DEF OtherStep, Close, CloseFrom, CancelReleases, hrVars, closeVars
    <2>2. UNCHANGED <<repos, config, updated, snapshot, late, needUpdate>>
      BY <1>5 DEF OtherStep, Close, CancelReleases, hrVars, helmVars
    <2>3. QED
      BY <2>1, <2>2, SameIndexed
      DEF ConfigInv, ConfigTyped, UpdatesCover, ConfigCovers
  <1>6. QED
    BY <1>1, <1>2, <1>3, <1>4, <1>5 DEF HrNext, OtherStep, GitRepositories

-----------------------------------------------------------------------------
ClientInv == HrDomains /\ PhasesTyped /\ ReposListed /\ TasksListed /\ ConfigInv

LEMMA InitClient == HrInit => ClientInv
  <1> SUFFICES ASSUME HrInit PROVE ClientInv
    OBVIOUS
  <1>1. HrDomains
    BY InitHelm DEF HelmInv
  <1>2. PhasesTyped
    BY DEF HrInit, PhasesTyped, Phases, GitRepositories
  <1>3. /\ repos = <<>> /\ tasks = <<>> /\ stored = {} /\ artifact = {} /\ config = {}
        /\ needUpdate = FALSE /\ cancelled = {} /\ updated = UpdatedBefore
        /\ snapshot = [r \in Releases |-> {}] /\ phase = [r \in Releases |-> "absent"]
    BY DEF HrInit
  <1>4. ReposListed /\ TasksListed
    BY <1>3 DEF ReposListed, TasksListed, IsInjective, ToSet
  <1>5. Updating = {} /\ IndexedRepos = {}
    BY <1>3 DEF Updating, IndexedRepos, ToSet
  <1>6. ConfigInv
    BY <1>3, <1>5, HelmAssumption
    DEF ConfigInv, ConfigTyped, UpdatesCover, ConfigCovers
  <1>7. QED
    BY <1>1, <1>2, <1>4, <1>6 DEF ClientInv

(* The invariant of the client's lists, its configuration and the tasks. *)
THEOREM ClientCorrect == HrSpec => []ClientInv
  <1>1. ClientInv /\ [HrNext]_hrVars => ClientInv'
    BY DomainsKept, PhasesKept, ListsKept, NextConfig DEF ClientInv
  <1>2. QED
    BY <1>1, InitClient, PTL DEF HrSpec

(* Type correctness; a repository is handed to the client once, and _tasks     *)
(* holds one task of each release in the store.                             *)
THEOREM HrTypeCorrect == HrSpec => []HrTypeOK
  <1>1. ClientInv => HrTypeOK
    BY DEF ClientInv, HrDomains, PhasesTyped, ReposListed, TasksListed, ConfigInv, ConfigTyped,
           HrTypeOK, GitRepositories
  <1>2. QED
    BY <1>1, ClientCorrect, PTL

(* A repository that the client has and helm's configuration has not, with no  *)
(* update due or under way, was added while an update was under way.        *)
THEOREM StaleConfig == HrSpec => []StaleConfigExplained
  <1>1. ClientInv => StaleConfigExplained
    BY UpdatingAt DEF ClientInv, ConfigInv, ConfigCovers, StaleConfigExplained
  <1>2. QED
    BY <1>1, ClientCorrect, PTL
=============================================================================
