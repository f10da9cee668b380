------------------------- MODULE RequestClassifier -------------------------
(***************************************************************************)
(* RequestInfoFactory.NewRequestInfo (pkg/aiserver/request/requestinfo.go): *)
(* the HTTP method, the URL path and the query become the attributes that   *)
(* authorization decides on.  A path is the sequence of its "/"-separated   *)
(* segments; a segment is a model string from a small alphabet.  The query  *)
(* is abstracted to what the classifier reads of it: the watch parameter,   *)
(* whether another list option is malformed (so that decoding fails), an    *)
(* exact metadata.name field selector, a workspace label selector.          *)
(*                                                                         *)
(* Classification is a pure function.  The state machine only enumerates    *)
(* requests: Init picks one, Classify computes its attributes.              *)
(***************************************************************************)
EXTENDS Naturals, Sequences, SequencesExt, Functions

CONSTANTS FirstSegments,   \* segments allowed first in a path
          Segments,        \* segments allowed elsewhere
          MaxSegments,     \* longest path explored
          Methods,         \* HTTP methods explored
          WatchValues,     \* the watch query parameter: "absent" or its value
          LabelSelectors   \* whether a workspace label selector is present

VARIABLES req, info

vars == <<req, info>>

\* RequestInfoFactory as buildHandlerChain configures it (aiserver.go).
APIPrefixes == {"api", "apis", "ai-apis", "ai-api"}
GrouplessAPIPrefixes == {"api", "ai-api"}
KubernetesAPIPrefixes == {"api", "apis"}
NamespaceSubresources == {"status", "finalize"}
SpecialVerbs == {"proxy", "watch"}
SpecialVerbsNoSubresources == {"proxy"}

\* The value a field selector metadata.name=<n> or a label selector
\* ai.io/workspace=<w> carries.
SelectedName == "selected"
SelectedWorkspace == "selectedws"

Query == [watch : WatchValues, malformed : BOOLEAN, nameSelector : BOOLEAN,
          workspaceSelector : LabelSelectors]

\* A path "/s1/.../sn" splits into <<"", s1, ..., sn>>, and into one more
\* empty segment when it ends with "/".
RawPaths ==
    {<<"">> \o p \o t : p \in {<<>>} \cup {<<f>> \o r : f \in FirstSegments,
                                                    r \in BoundedSeq(Segments, MaxSegments - 1)},
                       t \in {<<>>, <<"">>}}

Requests == [method : Methods, path : RawPaths, query : Query]

NoInfo == [verb |-> "none"]

(***************************************************************************)
(* splitPath: strings.Trim(path, "/") then strings.Split.                  *)
(***************************************************************************)
SplitPathTrimLeftOnly(raw) ==
    LET first == SelectInSeq(raw, LAMBDA s : s # "")
    IN  IF first = 0 THEN <<>> ELSE SubSeq(raw, first, Len(raw))

SplitPath(raw) ==
    LET first == SelectInSeq(raw, LAMBDA s : s # "")
        last  == SelectLastInSeq(raw, LAMBDA s : s # "")
    IN  IF first = 0 THEN <<>> ELSE SubSeq(raw, first, last)

MethodVerbRaw(m) ==
    CASE m = "POST"            -> "create"
      [] m \in {"GET", "HEAD"} -> "get"
      [] m = "PUT"             -> "update"
      [] m = "PATCH"           -> "patch"
      [] m = "DELETE"          -> "delete"
      [] OTHER                 -> m

MethodVerb(m) ==
    CASE m = "POST"            -> "create"
      [] m \in {"GET", "HEAD"} -> "get"
      [] m = "PUT"             -> "update"
      [] m = "PATCH"           -> "patch"
      [] m = "DELETE"          -> "delete"
      [] OTHER                 -> ""

ResolveResourceScope(namespace, workspace) ==
    IF namespace # "" THEN "Namespace"
    ELSE IF workspace # "" THEN "Workspace"
    ELSE "Global"

\* DecodeParameters fails when a list option (limit, timeoutSeconds, a
\* selector) does not parse.
DecodeOk(q) == ~q.malformed

\* opts.Watch: the decoder converts a present watch value to true unless it
\* is "0" or "false"; the fallback after a decoding error applies the same
\* test to the raw value.
WatchRequested(q) ==
    IF DecodeOk(q) THEN q.watch \notin {"absent", "0", "false"}
    ELSE q.watch \notin {"absent", "false", "0"}

\* The deferred IsKubernetesRequest: the API prefix, or for a path of one or
\* two segments its first segment.
IsKubernetes(apiPrefix, parts) ==
    LET prefix == IF apiPrefix = "" /\ Len(parts) \in 1..2 THEN parts[1] ELSE apiPrefix
    IN  prefix \in KubernetesAPIPrefixes

NonResource(method, parts, apiPrefix) ==
    [isResource |-> FALSE, err |-> FALSE, verb |-> method, apiPrefix |-> apiPrefix,
     apiGroup |-> "", apiVersion |-> "", workspace |-> "", namespace |-> "",
     resource |-> "", name |-> "", subresource |-> "", scope |-> "",
     isKubernetes |-> IsKubernetes(apiPrefix, parts)]

(***************************************************************************)
(* The resource part of NewRequestInfo, from the segment after the API     *)
(* version (p3) on: special verb, workspace and namespace markers,         *)
(* positional resource/name/subresource, then the list/watch/              *)
(* deletecollection corrections.                                            *)
(***************************************************************************)
ResourceInfo(method, q, prefix, group, version, p3) ==
    LET special == Len(p3) > 0 /\ p3[1] \in SpecialVerbs
        verb0 == IF special THEN p3[1] ELSE MethodVerb(method)
        p4 == IF special THEN Tail(p3) ELSE p3
        isWs == p4[1] = "workspaces"
        workspace == IF isWs /\ Len(p4) > 1 THEN p4[2] ELSE ""
        p5 == IF isWs /\ Len(p4) > 2 THEN SubSeq(p4, 3, Len(p4)) ELSE p4
        isNs == p5[1] = "namespaces"
        namespace == IF isNs /\ Len(p5) > 1 THEN p5[2] ELSE ""
        parts == IF isNs /\ Len(p5) > 2 /\ p5[3] \notin NamespaceSubresources
                 THEN SubSeq(p5, 3, Len(p5)) ELSE p5
        subresource == IF Len(parts) >= 3 /\ verb0 \notin SpecialVerbsNoSubresources
                       THEN parts[3] ELSE ""
        name0 == IF Len(parts) >= 2 THEN parts[2] ELSE ""
        listing == name0 = "" /\ verb0 = "get"
        verb1 == IF ~listing THEN verb0
                 ELSE IF WatchRequested(q) THEN "watch" ELSE "list"
        name1 == IF listing /\ DecodeOk(q) /\ q.nameSelector THEN SelectedName ELSE name0
        bySelector == verb1 = "watch" /\ q.workspaceSelector
        verb2 == IF name1 = "" /\ verb1 = "delete" THEN "deletecollection" ELSE verb1
    IN  [isResource |-> TRUE, err |-> FALSE, verb |-> verb2, apiPrefix |-> prefix,
         apiGroup |-> group, apiVersion |-> version,
         workspace |-> IF bySelector THEN SelectedWorkspace ELSE workspace,
         namespace |-> namespace, resource |-> parts[1], name |-> name1,
         subresource |-> subresource,
         scope |-> IF bySelector THEN "Workspace"
                   ELSE ResolveResourceScope(namespace, workspace),
         isKubernetes |-> prefix \in KubernetesAPIPrefixes]

NewRequestInfo(r) ==
    LET parts == SplitPath(r.path)
        prefix == parts[1]
        p1 == Tail(parts)
        grouped == prefix \notin GrouplessAPIPrefixes
        group == IF grouped THEN p1[1] ELSE ""
        p2 == IF grouped THEN Tail(p1) ELSE p1
        p3 == Tail(p2)
    IN  CASE Len(parts) < 3 \/ prefix \notin APIPrefixes ->
                NonResource(r.method, parts, "")
          [] grouped /\ Len(p1) < 3 ->
                NonResource(r.method, parts, prefix)
          [] Len(p3) = 1 /\ p3[1] \in SpecialVerbs ->
                [NonResource(r.method, parts, prefix) EXCEPT
                    !.isResource = TRUE, !.err = TRUE,
                    !.apiGroup = group, !.apiVersion = p2[1]]
          [] OTHER ->
                ResourceInfo(r.method, r.query, prefix, group, p2[1], p3)

Init ==
    /\ req \in Requests
    /\ info = NoInfo

Classify ==
    /\ info = NoInfo
    /\ info' = NewRequestInfo(req)
    /\ UNCHANGED req

Next == Classify

Spec == Init /\ [][Next]_vars

(***************************************************************************)
(* Properties.                                                              *)
(***************************************************************************)
ResourceVerbs == {"create", "get", "list", "watch", "update", "patch", "delete",
                  "deletecollection", "proxy", ""}
Scopes == {"Namespace", "Workspace", "Global"}

TypeOK ==
    /\ req \in Requests
    /\ info # NoInfo =>
         /\ info.isResource \in BOOLEAN
         /\ info.isResource /\ ~info.err => info.verb \in ResourceVerbs /\ info.scope \in Scopes
         /\ ~info.isResource => info.verb \in Methods /\ info.scope = ""

(***************************************************************************)
(* The classification of the specification (section 4.1), written by      *)
(* segment positions: s[v] is the API version, s[a] the first segment      *)
(* after it, s[b] the resource after the scope markers.                     *)
(***************************************************************************)
SpecMethodVerb ==
    [m \in Methods |-> IF m \in {"POST", "GET", "HEAD", "PUT", "PATCH", "DELETE"}
                       THEN ("POST" :> "create" @@ "GET" :> "get" @@ "HEAD" :> "get" @@
                             "PUT" :> "update" @@ "PATCH" :> "patch" @@ "DELETE" :> "delete")[m]
                       ELSE ""]

SpecClassify(r) ==
    LET s == SelectSeq(r.path, LAMBDA x : x # "")
        n == Len(s)
        v == IF n > 0 /\ s[1] \in GrouplessAPIPrefixes THEN 2 ELSE 3
        a == v + 1
        resourceRequest == n >= 3 /\ s[1] \in APIPrefixes /\ n >= a
        special == resourceRequest /\ s[a] \in SpecialVerbs
        w == IF special THEN a + 1 ELSE a
        wsMarker == n >= w /\ s[w] = "workspaces"
        workspace == IF wsMarker /\ n >= w + 1 THEN s[w + 1] ELSE ""
        m == IF wsMarker /\ n >= w + 2 THEN w + 2 ELSE w
        nsMarker == n >= m /\ s[m] = "namespaces"
        namespace == IF nsMarker /\ n >= m + 1 THEN s[m + 1] ELSE ""
        b == IF nsMarker /\ n >= m + 2 /\ s[m + 2] \notin {"status", "finalize"}
             THEN m + 2 ELSE m
        verb0 == IF special THEN s[a] ELSE SpecMethodVerb[r.method]
        name0 == IF n >= b + 1 THEN s[b + 1] ELSE ""
        unnamedGet == verb0 = "get" /\ name0 = ""
        verb1 == IF ~unnamedGet THEN verb0
                 ELSE IF r.query.watch = "true" THEN "watch" ELSE "list"
        name == IF unnamedGet /\ DecodeOk(r.query) /\ r.query.nameSelector
                THEN SelectedName ELSE name0
    IN  IF ~resourceRequest
        THEN [isResource |-> FALSE, err |-> FALSE]
        ELSE IF special /\ n = a
        THEN [isResource |-> TRUE, err |-> TRUE]
        ELSE [isResource |-> TRUE, err |-> FALSE,
              verb |-> IF verb1 = "delete" /\ name = "" THEN "deletecollection" ELSE verb1,
              workspace |-> workspace, namespace |-> namespace,
              resource |-> s[b], name |-> name,
              subresource |-> IF n >= b + 2 /\ verb0 # "proxy" THEN s[b + 2] ELSE "",
              scope |-> IF namespace # "" THEN "Namespace"
                        ELSE IF workspace # "" THEN "Workspace" ELSE "Global"]

\* NewRequestInfo classifies every request as section 4.1 of the
\* specification does: short or unknown-root paths are non-resource
\* requests without error, a bare watch/proxy is the only error, verbs,
\* scope markers, positional resource/name/subresource and the
\* list/watch/deletecollection corrections agree.
ClassifiedAsSpecified ==
    info # NoInfo =>
        LET ref == SpecClassify(req)
        IN  [f \in DOMAIN ref |-> info[f]] = ref

\* The scope authorization resolves bindings at is the one the namespace
\* and workspace of the request determine (resolveResourceScope); the
\* label-selector branch for watches overrides it.
ScopeMatchesNamespace ==
    info # NoInfo /\ info.isResource /\ ~info.err =>
        info.scope = ResolveResourceScope(info.namespace, info.workspace)

=============================================================================
