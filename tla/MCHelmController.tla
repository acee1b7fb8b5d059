--------------------------- MODULE MCHelmController ---------------------------
(* The release `web` has its chart in the HelmRepository `hr1` and renders to  *)
(* the ConfigMap `cm`; `api` names the HelmChart `hc`, whose chart is in      *)
(* `hr2`, and has its values from `cm` and, optionally, from a Secret that    *)
(* there is not; the chart of `local` is in the GitRepository `git`.         *)
EXTENDS HelmController, TLC

Document(kind, group, name) ==
    [kind |-> kind, group |-> group, namespace |-> <<"default">>, name |-> name]
Source(kind, name) ==
    Document(kind, "source.toolkit.fluxcd.io", name) @@ [url |-> "url"]
Release(name) == Document("HelmRelease", "helm.toolkit.fluxcd.io", name)
ChartFrom(kind, name) ==
    [chart |-> "chart", version |-> "1", sourceRef |-> [kind |-> kind, name |-> name]]
Values(kind, name, optional) == [kind |-> kind, name |-> name, optional |-> optional]

ClusterDoc ==
    [hr1   |-> Source("HelmRepository", <<"hr", "1">>),
     hr2   |-> Source("HelmRepository", <<"hr", "2">>),
     git   |-> Source("GitRepository", <<"git">>),
     hc    |-> Document("HelmChart", "source.toolkit.fluxcd.io", <<"hc">>)
                 @@ ChartFrom("HelmRepository", <<"hr", "2">>),
     cm    |-> Document("ConfigMap", "v1", <<"cm">>),
     web   |-> Release(<<"web">>) @@ [chart |-> ChartFrom("HelmRepository", <<"hr", "1">>)],
     api   |-> Release(<<"api">>)
                 @@ [chartRef |-> [kind |-> "HelmChart", name |-> <<"hc">>],
                     valuesFrom |-> <<Values("ConfigMap", <<"cm">>, FALSE),
                                      Values("Secret", <<"sec">>, TRUE)>>],
     local |-> Release(<<"local">>) @@ [chart |-> ChartFrom("GitRepository", <<"git">>)]]

ClusterRendered == [web |-> {"cm"}, api |-> {}, local |-> {}]
Outputs == {{"hr1", "web"}, {"hr1", "hc", "api"}, {"hr2", "git", "local"}}
UpdatedRepos == {{"hr1", "hr2"}}
=============================================================================
