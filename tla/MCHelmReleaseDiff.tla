--------------------------- MODULE MCHelmReleaseDiff ---------------------------
(* ConfigMaps and Secrets that overlap in every way: leaves and dictionaries   *)
(* at the same key, one that is not there, one without the key, one that does *)
(* not decode, a text that is no dictionary, and a Secret with the name of a   *)
(* ConfigMap.  In the other revision a ConfigMap has changed, or the version  *)
(* of the chart.                                                           *)
EXTENDS HelmReleaseDiff, TLC

(* Trees as Python nests them, and as the model has them. *)
Leaf(x) == [leaf |-> x]
Dict(f) == [dict |-> f]
NestedKeys(v) == IF "dict" \in DOMAIN v THEN DOMAIN v.dict ELSE {}
IsNested(v) == "dict" \in DOMAIN v

RECURSIVE PathsOf(_)
PathsOf(v) ==
    {<<>>} \union UNION {{<<key>> \o path : path \in PathsOf(v.dict[key])} : key \in NestedKeys(v)}

RECURSIVE NodeAt(_, _)
NodeAt(v, path) ==
    IF path # <<>> THEN NodeAt(v.dict[Head(path)], Tail(path))
    ELSE IF IsNested(v) THEN Dictionary ELSE v.leaf

Tree(v) == [path \in PathsOf(v) |-> NodeAt(v, path)]

(* _deep_merge and the loop of _update_helmrelease_values as they are written. *)
RECURSIVE NestedMerge(_, _)
NestedMerge(base, override) ==
    Dict([k \in NestedKeys(base) \union NestedKeys(override) |->
             IF k \notin NestedKeys(override) THEN base.dict[k]
             ELSE IF k \in NestedKeys(base) /\ IsNested(base.dict[k]) /\ IsNested(override.dict[k])
             THEN NestedMerge(base.dict[k], override.dict[k])
             ELSE override.dict[k]])

RECURSIVE NestedLeafWithin(_, _)
NestedLeafWithin(v, target) ==
    /\ Len(target) > 1
    /\ Head(target) \in NestedKeys(v)
    /\ \/ ~IsNested(v.dict[Head(target)])
       \/ NestedLeafWithin(v.dict[Head(target)], Tail(target))

RECURSIVE NestedPutAt(_, _, _)
NestedPutAt(v, target, x) ==
    LET key   == Head(target)
        inner == IF key \in NestedKeys(v) THEN v.dict[key] ELSE Dict(<<>>)
    IN  Dict([k \in NestedKeys(v) \union {key} |->
                 IF k # key THEN v.dict[k]
                 ELSE IF Len(target) = 1 THEN Leaf(x) ELSE NestedPutAt(inner, Tail(target), x)])

Text(string, yaml) == [string |-> string, yaml |-> Tree(yaml)]
Replicas(n) == Dict([replicas |-> Leaf(n)])

OneData ==
       <<"ConfigMap", "base">> :>
           [values |-> Text("base", Dict([web |-> Replicas("1"), host |-> Leaf("base")]))]
    @@ <<"ConfigMap", "flat">> :>
           [values |-> Text("flat", Dict([web |-> Leaf("flat")]))]
    @@ <<"Secret", "more">> :>
           [values |-> Text("more", Dict([web |-> Dict([image |-> Replicas("2")])]))]
    @@ <<"ConfigMap", "list">> :>
           [values |-> Text("list", Leaf("list")), other |-> Text("", Dict(<<>>))]
    @@ <<"Secret", "binary">> :> Undecodable
    @@ <<"Secret", "gone">> :> NoData
    @@ <<"Secret", "list">> :> [values |-> Text("list", Dict([host |-> Leaf("hidden")]))]
OtherData == [OneData EXCEPT ![<<"ConfigMap", "list">>].values.string = "new"]
AllData == {OneData, OtherData}

Reference(kind, name, key, target) == [kind |-> kind, name |-> name, key |-> key, target |-> target]
AllReferences ==
    {Reference("ConfigMap", "base", "values", NoTarget),
     Reference("ConfigMap", "flat", "values", NoTarget),
     Reference("Secret", "more", "values", NoTarget),
     Reference("ConfigMap", "list", "values", NoTarget),
     Reference("ConfigMap", "list", "other", NoTarget),
     Reference("Secret", "list", "values", NoTarget),
     Reference("ConfigMap", "list", "values", <<"web", "replicas">>),
     Reference("ConfigMap", "base", "none", <<"web">>),
     Reference("Secret", "binary", "values", NoTarget),
     Reference("Secret", "gone", "values", NoTarget),
     Reference("Secret", "gone", "values", <<"web", "image", "tag">>),
     Reference("GitRepository", "base", "values", NoTarget)}
AllOwn ==
    {Tree(Dict(<<>>)), Tree(Dict([web |-> Replicas("3")])),
     Tree(Dict([web |-> Leaf("own"), host |-> Replicas("4")])),
     Tree(Dict([web |-> Dict(<<>>)]))}
ReleaseId == <<"HelmRelease", "web">>
ChartId == <<"HelmChart", "web">>
AllVersions == {<<"1", "1">>, <<"2", "1">>, <<"1", NoVersion>>}
RepositoryId == <<"HelmRepository", "charts">>
PlaceholderText == Text("placeholder", Leaf("placeholder"))

(* The dictionaries of at most two keys, two levels deep, and the paths to      *)
(* three: the model's trees do on them what the code does.                  *)
DictsOver(S) == {Dict(f) : f \in UNION {[keys -> S] : keys \in SUBSET {"web", "host"}}}
SmallLeaves == {Leaf("1"), Leaf("2")}
SmallDicts == DictsOver(SmallLeaves \union DictsOver(SmallLeaves))
SmallPaths == UNION {[1 .. n -> {"web", "host"}] : n \in 1 .. 3}

ASSUME TreesMergeAsNested ==
    \A base, override \in SmallDicts :
        Tree(NestedMerge(base, override)) = DeepMerge(Tree(base), Tree(override))

ASSUME TreesAssignAsNested ==
    \A v \in SmallDicts, target \in SmallPaths :
        /\ LeafOnTheWay(Tree(v), target) <=> NestedLeafWithin(v, target)
        /\ NestedLeafWithin(v, target)
              \/ Tree(NestedPutAt(v, target, "3")) = PutAt(Tree(v), target, "3")
=============================================================================
