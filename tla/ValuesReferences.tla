--------------------------- MODULE ValuesReferences ---------------------------
(***************************************************************************)
(* expand_value_references (values.py): the values of a HelmRelease are      *)
(* those of its valuesFrom references, merged in their order, and its own on *)
(* top.  A value is a tree: a leaf or a dictionary of values.                 *)
(***************************************************************************)
EXTENDS Naturals, Sequences, SequencesExt

CONSTANTS
    References,     \* what valuesFrom may hold
    Clusters,       \* what the ConfigMaps and Secrets may hold
    MaxReferences,  \* bound on the length of valuesFrom
    OwnValues,      \* what a release may have as values of its own
    Dictionary,     \* a node of a tree that is no leaf
    NoTarget, NoData, Undecodable, Placeholder

ObjectOf(ref) == <<ref.kind, ref.name>>
Objects == {ObjectOf(ref) : ref \in {r \in References : r.kind \in {"ConfigMap", "Secret"}}}

(* A text is no dictionary, whatever it is as YAML; a target path has a part. *)
ASSUME ValuesAssumption ==
    /\ MaxReferences \in Nat
    /\ NoData # Undecodable /\ Placeholder.string # Dictionary
    /\ \A texts \in Clusters :
          /\ Objects \subseteq DOMAIN texts
          /\ \A object \in Objects : texts[object] \notin {NoData, Undecodable} =>
                \A key \in DOMAIN texts[object] : texts[object][key].string # Dictionary
    /\ \A ref \in References : ref.target # <<>>

VARIABLES
    data,           \* of each ConfigMap and Secret: NoData, Undecodable, or texts
    valuesFrom,     \* the references of the release
    own,            \* its own values
    next,           \* the reference that is expanded next
    values,         \* what was merged so far
    outcome         \* "expanding", "expanded", or "error"

valuesVars == <<data, valuesFrom, own, next, values, outcome>>

(* A tree is what it has at each path, a sequence of keys; its root is at <<>>. *)
Empty == [path \in {<<>>} |-> Dictionary]
IsDict(v) == v[<<>>] = Dictionary
Leaves(v) == {path \in DOMAIN v : v[path] # Dictionary}

-----------------------------------------------------------------------------
(* _deep_merge: the base keeps what is under a dictionary of the override, or  *)
(* under a key that it does not have, but nothing under one of its leaves.   *)
DeepMerge(base, override) ==
    LET kept == {path \in DOMAIN base :
                    \A leaf \in Leaves(override) : ~IsPrefix(leaf, path)}
    IN  [path \in DOMAIN override \union kept |->
            IF path \in DOMAIN override THEN override[path] ELSE base[path]]

(* A part of the target before its last that is not a dictionary. *)
LeafOnTheWay(v, target) == \E leaf \in Leaves(v) : IsStrictPrefix(leaf, target)

(* The assignment to a target path; dictionaries on the way are created. *)
PutAt(v, target, x) ==
    LET way  == {SubSeq(target, 1, n) : n \in 0 .. Len(target) - 1}
        kept == {path \in DOMAIN v : ~IsPrefix(target, path)}
    IN  [path \in {target} \union way \union kept |->
            IF path = target THEN x ELSE IF path \in kept THEN v[path] ELSE Dictionary]

-----------------------------------------------------------------------------
(* _lookup_value_reference: how it ends, and the text that it finds.  A text   *)
(* is a record: itself as a leaf, and the tree that it is as YAML.          *)
Found(ref) ==
    IF ref.kind \notin {"ConfigMap", "Secret"} THEN [is |-> "invalid"]
    ELSE LET texts == data[ObjectOf(ref)]
         IN  IF texts = Undecodable THEN [is |-> "error"]
             ELSE IF texts = NoData
             THEN IF ref.target # NoTarget THEN [is |-> "text", text |-> Placeholder]
                                           ELSE [is |-> "nothing"]
             ELSE IF ref.key \in DOMAIN texts
             THEN [is |-> "text", text |-> texts[ref.key]]
             ELSE [is |-> "invalid"]

(* MUTANT (ErrorHasReason): a target must be there already. *)
MisplacedOrMissing(v, ref, text) ==
    IF ref.target # NoTarget
    THEN \E n \in 1 .. Len(ref.target) - 1 :
             SubSeq(ref.target, 1, n) \notin DOMAIN v \ Leaves(v)
    ELSE ~IsDict(text.yaml)

(* _update_helmrelease_values raises. *)
Misplaced(v, ref, text) ==
    IF ref.target # NoTarget THEN LeafOnTheWay(v, ref.target) ELSE ~IsDict(text.yaml)

(* MUTANT (LastReferenceWins): what is there already stays. *)
UpdatedBelow(v, ref, text) ==
    IF ref.target # NoTarget THEN PutAt(v, ref.target, text.string)
    ELSE DeepMerge(text.yaml, v)

Updated(v, ref, text) ==
    IF ref.target # NoTarget THEN PutAt(v, ref.target, text.string)
    ELSE DeepMerge(v, text.yaml)

ValuesInit ==
    /\ data \in Clusters
    /\ valuesFrom \in UNION {[1 .. n -> References] : n \in 1 .. MaxReferences}
    /\ own \in OwnValues
    /\ next = 1
    /\ values = Empty
    /\ outcome = "expanding"

Expanding == outcome = "expanding" /\ next <= Len(valuesFrom)
Ref == valuesFrom[next]

(* Nothing is found, or the reference is skipped with a warning. *)
SkipReference ==
    /\ Expanding
    /\ Found(Ref).is \in {"nothing", "invalid"}
    /\ next' = next + 1
    /\ UNCHANGED <<data, valuesFrom, own, values, outcome>>

UseReference ==
    /\ Expanding
    /\ Found(Ref).is = "text"
    /\ ~Misplaced(values, Ref, Found(Ref).text)
    /\ values' = Updated(values, Ref, Found(Ref).text)
    /\ next' = next + 1
    /\ UNCHANGED <<data, valuesFrom, own, outcome>>

(* A HelmException, which fails the whole build. *)
ReferenceRaises ==
    /\ Expanding
    /\ \/ Found(Ref).is = "error"
       \/ Found(Ref).is = "text" /\ Misplaced(values, Ref, Found(Ref).text)
    /\ outcome' = "error"
    /\ UNCHANGED <<data, valuesFrom, own, next, values>>

AddOwnValues ==
    /\ outcome = "expanding"
    /\ next > Len(valuesFrom)
    /\ values' = IF own = Empty THEN values ELSE DeepMerge(values, own)
    /\ outcome' = "expanded"
    /\ UNCHANGED <<data, valuesFrom, own, next>>

ValuesNext == SkipReference \/ UseReference \/ ReferenceRaises \/ AddOwnValues

ValuesSpec == ValuesInit /\ [][ValuesNext]_valuesVars

-----------------------------------------------------------------------------
(* What each reference writes, by itself, and the release at the end: nodes,   *)
(* each with the path to it.                                               *)
Nodes(v) == {<<path, v[path]>> : path \in DOMAIN v}

Written(i) ==
    IF i > Len(valuesFrom) THEN Nodes(own)
    ELSE LET found == Found(valuesFrom[i])
         IN  IF found.is # "text" THEN {}
             ELSE IF valuesFrom[i].target = NoTarget THEN Nodes(found.text.yaml)
             ELSE {<<valuesFrom[i].target, found.text.string>>}

WrittenLeaves(i) == {node \in Written(i) : node[2] # Dictionary}

(* A dictionary is written over a leaf, but around what is under it. *)
Overwrites(node, leaf) ==
    \/ node[1] = leaf[1]
    \/ IsStrictPrefix(node[1], leaf[1]) /\ node[2] # Dictionary

(* The leaves of what the first n references have written, each by the last. *)
LeftAfter(n) ==
    UNION {{leaf \in WrittenLeaves(i) :
               \A j \in i + 1 .. n : \A node \in Written(j) : ~Overwrites(node, leaf)} :
           i \in 1 .. n}

(* The values are exactly the leaves that no later reference, and not the     *)
(* release itself, has written over, be it with a value at the same path, a  *)
(* dictionary in the place of a leaf, or a leaf in that of a dictionary.     *)
LastReferenceWins ==
    outcome = "expanded" =>
        {node \in Nodes(values) : node[2] # Dictionary} = LeftAfter(Len(valuesFrom) + 1)

(* Only data that cannot be decoded, a text that is no dictionary, or a       *)
(* target below a leaf that an earlier reference wrote fails the build: never *)
(* a reference to what is not there.                                       *)
ErrorHasReason ==
    outcome = "error" =>
        \/ Found(Ref).is = "error"
        \/ Ref.target = NoTarget /\ ~IsDict(Found(Ref).text.yaml)
        \/ \E i \in 1 .. next - 1 : \E leaf \in WrittenLeaves(i) :
              IsStrictPrefix(leaf[1], Ref.target)
=============================================================================
