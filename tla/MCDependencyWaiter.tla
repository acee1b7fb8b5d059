------------------------ MODULE MCDependencyWaiter ------------------------
(* A Kustomization that depends on another one (`ks`, which gets a status)  *)
(* and on a ConfigMap (`cm`, which only exists), with a waiter of another   *)
(* parent for one of them.                                                 *)
EXTENDS DependencyWaiter
=============================================================================
