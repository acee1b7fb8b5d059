---------------------------- MODULE MCBuildManifest ----------------------------
(* The cluster's path holds `infra`, `extra`, `apps` and `gone`.  infra and    *)
(* extra have the same path, which holds the ConfigMap `settings`, and        *)
(* substitute from a Secret of the cluster's path: infra builds `twin` from   *)
(* it, and extra both twin and `web`, which have one name.  apps substitutes  *)
(* from settings and builds web, which is from an OCIRepository like twin,    *)
(* and `old`, which the selector leaves out.  The paths of gone and of twin,  *)
(* an absolute one, are not there.                                         *)
EXTENDS BuildManifest, TLC

CONSTANTS infra, apps, extra, web, twin, gone, old, settings, secret

Flux == <<"flux", "system">>
Kustomization(name, kind, source, path, substituteFrom) ==
    [kind |-> "Kustomization", group |-> "kustomize.toolkit.fluxcd.io",
     namespace |-> Flux, name |-> name, labels |-> [team |-> "web"],
     path |-> path, substituteFrom |-> substituteFrom,
     sourceRef |-> [kind |-> kind, name |-> source]]
Local(name, path, substituteFrom) ==
    Kustomization(name, "GitRepository", "repo", path, substituteFrom)
OfWeb(path) ==
    [Kustomization(<<"web">>, "OCIRepository", "web", path, {}) EXCEPT !.namespace = <<"web">>]

ClusterDoc ==
       infra :> Local(<<"infra">>, <<"infra">>, {secret})
    @@ extra :> Local(<<"extra">>, <<"/", "infra">>, {secret})
    @@ gone :> Local(<<"gone">>, <<"gone">>, {})
    @@ apps :> Local(<<"apps">>, <<"apps">>, {settings})
    @@ web :> OfWeb(<<"deploy">>)
    @@ twin :> OfWeb(<<"/", "deploy">>)
    @@ old :> [Local(<<"old">>, <<"apps">>, {}) EXCEPT !.labels = <<>>]
NoDependencies == [k \in Kustomizations |-> <<>>]
Named(name) == [name |-> <<name>>]
Within(name, namespace) == [name |-> <<name>>, namespace |-> namespace]
ClusterGraphs ==
    {NoDependencies,
     [NoDependencies EXCEPT ![apps] = <<Named("infra"), Named("absent"), Named("old")>>,
                            ![web] = <<Within("infra", Flux), Within("extra", Flux)>>],
     [NoDependencies EXCEPT ![web] = <<Within("gone", Flux)>>],
     [NoDependencies EXCEPT ![gone] = <<Named("infra")>>, ![web] = <<Within("gone", Flux)>>],
     [NoDependencies EXCEPT ![apps] = <<Within("web", <<"web">>)>>,
                            ![web] = <<Within("apps", Flux)>>,
                            ![extra] = <<Within("web", <<"web">>)>>]}
ClusterSources ==
    <<[name |-> "repo", namespace |-> Nothing, root |-> Nothing],
      [name |-> "web", namespace |-> <<"web">>, root |-> <<"oci">>]>>
OfTeam ==
    [enabled |-> TRUE, name |-> Nothing, namespace |-> Nothing, labels |-> [team |-> "web"]]
ClusterDir == <<"cluster">>
ClusterDirectories == {ClusterDir, <<"infra">>, <<"apps">>, <<"oci", "deploy">>}
Holds(kustomizations, configs) == [kustomizations |-> kustomizations, configs |-> configs]
ClusterOutput ==
    [t \in {infra, apps, extra, web, twin, gone, old, Root} |->
        [C \in SUBSET {settings, secret} |->
            CASE t = Root -> Holds({infra, apps, extra, gone}, {secret})
              [] t = infra -> Holds({twin}, {settings})
              [] t = extra -> Holds({twin, web}, {settings})
              [] t = apps -> Holds({web, old}, {})
              [] OTHER -> Holds({}, {})]]
=============================================================================
