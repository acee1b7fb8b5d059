--------------------------- MODULE SourceController ---------------------------
(***************************************************************************)
(* The SourceController (source_controller/controller.py): a listener makes *)
(* a task for every GitRepository and OCIRepository that is added to the    *)
(* store; the task fetches it and sets its artifact and status.            *)
(*                                                                         *)
(* The fetches proper have no await in them: cloning and pulling happen in  *)
(* the one step that sets the status, and either work or raise.  Only an    *)
(* OCIRepository with a secretRef waits, through a DependencyWaiter.        *)
(***************************************************************************)
EXTENDS FiniteSetsExt, SequencesExt

CONSTANTS
    Sources,         \* GitRepositories and OCIRepositories
    GitSources,      \* the GitRepositories among them
    NoSource,        \* no resource
    SecretRef        \* the Secret an OCIRepository names, or NoSource; a
                     \* GitRepository names none (OrchestratorAssumption)

VARIABLES
    stored,          \* the objects in the store
    status,          \* the status of each
    artifact,        \* those with an artifact
    enableOci,       \* enable_oci of the configuration
    fetch,           \* how far the task of each source is
    secret,          \* the outcome of its wait for its Secret
    fetchCancelled,  \* those whose task somebody called cancel() on
    tasks,           \* _tasks: the sources in the order of their tasks
    closing,         \* close(): "no", "cancelling", "over"
    awaited          \* the position in _tasks of the task close() waits for

fetchVars == <<enableOci, fetch, secret, fetchCancelled, tasks, closing, awaited>>
scVars    == <<stored, status, artifact, fetchVars>>

Fetching == {s \in Sources : fetch[s] \in {"scheduled", "waiting", "reaping"}}

SetSourceStatus(s, v) == status' = [status EXCEPT ![s] = v]
Leave(s, f) == fetch' = [fetch EXCEPT ![s] = f]

(* The listener is called for what is stored when it is added. *)
FetchInit ==
    /\ enableOci \in BOOLEAN
    /\ fetch = [s \in Sources |-> IF s \in stored THEN "scheduled" ELSE "absent"]
    /\ secret = [s \in Sources |-> "Unwatched"]
    /\ fetchCancelled = {}
    /\ tasks \in SetToSeqs(Sources \intersect stored)
    /\ closing = "no"
    /\ awaited = 0

(* It is called in the step that adds a source, and is never removed. *)
Listen(new) ==
    /\ fetch' = [s \in Sources |-> IF s \in new THEN "scheduled" ELSE fetch[s]]
    /\ \E q \in SetToSeqs(new) : tasks' = tasks \o q
    /\ UNCHANGED <<enableOci, secret, fetchCancelled, closing, awaited>>

-----------------------------------------------------------------------------
(* on_source_added: OCI may be disabled, and a GitRepository that has an    *)
(* artifact is left alone.                                                 *)
SkipFetch(s) ==
    /\ fetch[s] = "scheduled"
    /\ s \notin fetchCancelled
    /\ \/ s \notin GitSources /\ ~enableOci /\ SetSourceStatus(s, "Ready")
       \/ s \in GitSources /\ s \in artifact /\ UNCHANGED status
    /\ Leave(s, "done")
    /\ UNCHANGED <<stored, enableOci, artifact, secret,
                   fetchCancelled, tasks, closing, awaited>>

MustFetch(s) == IF s \in GitSources THEN s \notin artifact ELSE enableOci

(* Nobody catches what fetch_git, fetch_oci or get_auth_from_secret raise. *)
FetchOrRaise(s) ==
    \/ /\ artifact' = artifact \union {s}
       /\ SetSourceStatus(s, "Ready")
       /\ Leave(s, "done")
    \/ /\ Leave(s, "raised")
       /\ UNCHANGED <<status, artifact>>

Fetch(s) ==
    /\ fetch[s] = "scheduled"
    /\ s \notin fetchCancelled
    /\ MustFetch(s)
    /\ SecretRef[s] = NoSource
    /\ FetchOrRaise(s)
    /\ UNCHANGED <<stored, enableOci, secret, fetchCancelled, tasks, closing, awaited>>

(* MUTANT (KustomizationsImplemented): a source that waits is PENDING. *)
WaitPending(s) ==
    /\ fetch[s] = "scheduled"
    /\ s \notin fetchCancelled
    /\ MustFetch(s)
    /\ SecretRef[s] # NoSource
    /\ secret' = [secret EXCEPT ![s] = "Pending"]
    /\ SetSourceStatus(s, "Pending")
    /\ Leave(s, "waiting")
    /\ UNCHANGED <<stored, enableOci, artifact, fetchCancelled, tasks, closing, awaited>>

WaitForSecret(s) ==
    /\ fetch[s] = "scheduled"
    /\ s \notin fetchCancelled
    /\ MustFetch(s)
    /\ SecretRef[s] # NoSource
    /\ secret' = [secret EXCEPT ![s] = "Pending"]
    /\ Leave(s, "waiting")
    /\ UNCHANGED <<stored, enableOci, status, artifact,
                   fetchCancelled, tasks, closing, awaited>>

(* A Secret has no status: it is there or not, until the watch times out. *)
SettleSecret(s, o) ==
    /\ fetch[s] \in {"waiting", "reaping"}
    /\ secret[s] = "Pending"
    /\ o = "Ready" => SecretRef[s] \in stored
    /\ o = "Cancelled" => fetch[s] = "reaping"
    /\ secret' = [secret EXCEPT ![s] = o]
    /\ UNCHANGED <<stored, enableOci, status, artifact, fetch,
                   fetchCancelled, tasks, closing, awaited>>

(* The loop over watch() goes on with its one event, though it may be one   *)
(* that watch() hands out on its way out of a cancellation.                *)
EndSecretWait(s) ==
    /\ \/ fetch[s] = "waiting" /\ s \notin fetchCancelled
       \/ fetch[s] = "reaping"
    /\ \/ /\ secret[s] \in {"Timeout", "Cancelled"}
          /\ SetSourceStatus(s, "Failed")
          /\ Leave(s, "done")
          /\ UNCHANGED artifact
       \/ /\ secret[s] = "Ready"
          /\ FetchOrRaise(s)
    /\ UNCHANGED <<stored, enableOci, secret, fetchCancelled, tasks, closing, awaited>>

(* The CancelledError of a task that somebody cancelled. *)
TakeFetchCancellation(s) ==
    /\ s \in fetchCancelled
    /\ \/ fetch[s] = "scheduled" /\ Leave(s, "cancelled")
       \/ fetch[s] = "waiting" /\ Leave(s, "reaping")
    /\ UNCHANGED <<stored, enableOci, status, artifact, secret,
                   fetchCancelled, tasks, closing, awaited>>

(* MUTANT (RunEnds): the wait for a Secret has no timeout. *)
UntimedSecretOutcomes == {"Ready", "Cancelled"}

SecretOutcomes == {"Ready", "Timeout", "Cancelled"}

FetchStep(s) ==
    \/ SkipFetch(s)
    \/ Fetch(s)
    \/ WaitForSecret(s)
    \/ \E o \in SecretOutcomes : SettleSecret(s, o)
    \/ EndSecretWait(s)
    \/ TakeFetchCancellation(s)

CancelFetches(T) == fetchCancelled' = fetchCancelled \union T

-----------------------------------------------------------------------------
(* MUTANT (LeftRunningExplained): the CancelledError of a task that was     *)
(* awaited is not caught.                                                  *)
CloseUpToCancelled(n) ==
    LET left == {i \in n .. Len(tasks) : fetch[tasks[i]] # "done"}
    IN  IF left = {} \/ tasks[Min(left)] \notin Fetching
        THEN closing' = "over" /\ UNCHANGED <<awaited, fetchCancelled>>
        ELSE /\ closing' = "cancelling"
             /\ awaited' = Min(left)
             /\ CancelFetches({tasks[Min(left)]})

(* close() cancels its tasks in order and awaits each before the next; one   *)
(* that has raised ends the loop with its exception.                       *)
CloseFrom(n) ==
    LET left == {i \in n .. Len(tasks) : fetch[tasks[i]] \notin {"done", "cancelled"}}
    IN  IF left = {} \/ fetch[tasks[Min(left)]] = "raised"
        THEN closing' = "over" /\ UNCHANGED <<awaited, fetchCancelled>>
        ELSE /\ closing' = "cancelling"
             /\ awaited' = Min(left)
             /\ CancelFetches({tasks[Min(left)]})

ContinueSourceClose ==
    /\ closing = "cancelling"
    /\ tasks[awaited] \notin Fetching
    /\ CloseFrom(awaited)
    /\ UNCHANGED <<stored, enableOci, status, artifact, fetch, secret, tasks>>

=============================================================================
