-------------------------- MODULE MCInMemoryStore --------------------------
(* InMemoryStore on two resources: `ks` has a status and is watched for by  *)
(* kind, `cm` only exists or not.                                           *)
EXTENDS InMemoryStore

ASSUME OfKindSelects ==
    \A s \in UNION {[1 .. n -> Resources] : n \in 0 .. 3} :
        OfKind(s) = SelectSeq(s, LAMBDA r : r \in WatchedKind)
=============================================================================
