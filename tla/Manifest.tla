------------------------------- MODULE Manifest -------------------------------
(***************************************************************************)
(* What flux-local makes of Kubernetes documents (manifest.py).  A document *)
(* is a record that may lack fields; metadata is flattened into it.  The    *)
(* parsers yield an object, or Nothing where the code raises an             *)
(* InputException.  A name is the sequence of the words between its dashes, *)
(* which is what decides when two joined names are the same.               *)
(***************************************************************************)
EXTENDS Sequences

CONSTANT Nothing            \* None

Get(doc, f) == IF f \in DOMAIN doc THEN doc[f] ELSE Nothing
GetOr(doc, f, default) == IF f \in DOMAIN doc THEN doc[f] ELSE default
Has(doc, fields) == \A f \in fields : Get(doc, f) # Nothing

Resource(kind, namespace, name) == [kind |-> kind, namespace |-> namespace, name |-> name]
Id(obj) == Resource(obj.kind, obj.namespace, obj.name)

(* f"{namespace}-{name}", the identifier of every kind of repository. *)
FullName(id) == id.namespace \o id.name

DefaultNamespace == <<"flux", "system">>

(* _check_version, by the API group that an apiVersion begins with. *)
OfGroup(doc, group) == Get(doc, "group") = group

-----------------------------------------------------------------------------
(* HelmChart.parse_doc: the chart a HelmRelease names, in one of two ways. *)
ChartOfRef(ref, namespace) ==
    IF ~Has(ref, {"kind", "name"}) THEN Nothing
    ELSE [name |-> ref.name, version |-> Nothing,
          repo |-> Resource(ref.kind, GetOr(ref, "namespace", namespace), ref.name)]

ChartOfSpec(spec, namespace) ==
    IF ~Has(spec, {"chart", "sourceRef"}) \/ ~Has(spec.sourceRef, {"name"}) THEN Nothing
    ELSE [name |-> spec.chart, version |-> Get(spec, "version"),
          repo |-> Resource(GetOr(spec.sourceRef, "kind", "HelmRepository"),
                            GetOr(spec.sourceRef, "namespace", namespace),
                            spec.sourceRef.name)]

ParseHelmChart(doc) ==
    CASE Has(doc, {"chartRef"}) -> ChartOfRef(doc.chartRef, doc.namespace)
      [] ~Has(doc, {"chartRef"}) /\ Has(doc, {"chart"}) -> ChartOfSpec(doc.chart, doc.namespace)
      [] OTHER -> Nothing

ParseHelmRelease(doc) ==
    IF \/ ~OfGroup(doc, "helm.toolkit.fluxcd.io")
       \/ ~Has(doc, {"name", "namespace"})
       \/ ParseHelmChart(doc) = Nothing
    THEN Nothing
    ELSE [kind |-> "HelmRelease", namespace |-> doc.namespace, name |-> doc.name,
          chart |-> ParseHelmChart(doc), valuesFrom |-> GetOr(doc, "valuesFrom", <<>>)]

(* HelmChartSource.parse_doc: a HelmChart that is a resource of its own. *)
ParseHelmChartSource(doc) ==
    LET namespace == GetOr(doc, "namespace", DefaultNamespace)
        chart     == ChartOfSpec(doc, namespace)
    IN  IF ~OfGroup(doc, "source.toolkit.fluxcd.io") \/ ~Has(doc, {"name"}) \/ chart = Nothing
        THEN Nothing
        ELSE [kind |-> "HelmChart", namespace |-> namespace, name |-> doc.name, chart |-> chart]

(* HelmChart.from_helm_chart_source, once a release refers to it without a   *)
(* version of its own; one without a version is not resolved.              *)
ResolveChart(chart, source) ==
    IF chart.repo.kind = "HelmChart" /\ chart.version = Nothing /\ source.chart.version # Nothing
    THEN source.chart
    ELSE chart

-----------------------------------------------------------------------------
(* What the documents of the three kinds of repository must have. *)
IsRepository(doc) ==
    OfGroup(doc, "source.toolkit.fluxcd.io") /\ Has(doc, {"name", "namespace", "url"})

ParseHelmRepository(doc) ==
    IF ~IsRepository(doc) THEN Nothing
    ELSE [kind |-> "HelmRepository", namespace |-> doc.namespace, name |-> doc.name,
          url |-> doc.url, type |-> GetOr(doc, "type", "default")]

ParseGitRepository(doc) ==
    IF ~IsRepository(doc) THEN Nothing
    ELSE [kind |-> "GitRepository", namespace |-> doc.namespace, name |-> doc.name,
          url |-> doc.url, ref |-> Get(doc, "ref")]

ParseOCIRepository(doc) ==
    IF ~IsRepository(doc) THEN Nothing
    ELSE [kind |-> "OCIRepository", namespace |-> doc.namespace, name |-> doc.name,
          url |-> doc.url, ref |-> Get(doc, "ref"), secretRef |-> Get(doc, "secretRef")]

ParseConfig(doc) ==
    IF ~OfGroup(doc, "v1") \/ ~Has(doc, {"name"}) THEN Nothing
    ELSE [kind |-> doc.kind, namespace |-> Get(doc, "namespace"), name |-> doc.name]

ParseRawObject(doc) ==
    IF ~Has(doc, {"name"}) THEN Nothing
    ELSE [kind |-> doc.kind, namespace |-> GetOr(doc, "namespace", DefaultNamespace),
          name |-> doc.name]

-----------------------------------------------------------------------------
(* The Kustomizations that dependsOn names; a namespace is that of the        *)
(* Kustomization itself unless the reference says otherwise.                *)
DependsOn(refs, namespace) ==
    {Resource("Kustomization", GetOr(refs[i], "namespace", namespace), refs[i].name) :
        i \in DOMAIN refs}

(* The fields of spec are flattened like those of metadata. *)
HasSpec(doc) == DOMAIN doc \ {"kind", "group", "namespace", "name", "labels"} # {}

ParseKustomization(doc) ==
    LET source == GetOr(doc, "sourceRef", <<>>)
        refs   == GetOr(doc, "dependsOn", <<>>)
    IN  IF \/ ~OfGroup(doc, "kustomize.toolkit.fluxcd.io")
           \/ ~Has(doc, {"name", "namespace"})
           \/ ~HasSpec(doc)
           \/ \E i \in DOMAIN refs : ~Has(refs[i], {"name"})
        THEN Nothing
        ELSE [kind |-> "Kustomization", namespace |-> doc.namespace, name |-> doc.name,
              path |-> Get(doc, "path"), labels |-> GetOr(doc, "labels", <<>>),
              sourceKind |-> Get(source, "kind"), sourceName |-> Get(source, "name"),
              sourceNamespace |-> GetOr(source, "namespace", doc.namespace),
              substituteFrom |-> GetOr(doc, "substituteFrom", {}),
              dependsOn |-> DependsOn(refs, doc.namespace)]

(* parse_raw_obj *)
ParseRawObj(doc) ==
    CASE ~Has(doc, {"kind", "group"})       -> Nothing
      [] Get(doc, "kind") = "Kustomization" /\ OfGroup(doc, "kustomize.toolkit.fluxcd.io")
                                             -> ParseKustomization(doc)
      [] Get(doc, "kind") = "HelmRelease"    -> ParseHelmRelease(doc)
      [] Get(doc, "kind") = "HelmRepository" -> ParseHelmRepository(doc)
      [] Get(doc, "kind") = "HelmChart" /\ OfGroup(doc, "source.toolkit.fluxcd.io")
                                             -> ParseHelmChartSource(doc)
      [] Get(doc, "kind") = "GitRepository"  -> ParseGitRepository(doc)
      [] Get(doc, "kind") = "OCIRepository"  -> ParseOCIRepository(doc)
      [] Get(doc, "kind") \in {"ConfigMap", "Secret"} -> ParseConfig(doc)
      [] OTHER                               -> ParseRawObject(doc)
=============================================================================
