-------------------------- MODULE DependencyGraph --------------------------
(***************************************************************************)
(* The call graph of internal/operator/dependency (graph.go, jaeger.go) as *)
(* a set of edges <<caller, callee>>, and what is asked of it: the         *)
(* neighbours of a service, everything above or below it, and the root     *)
(* cause of an alert (rootcause/analyzer.go).                              *)
(***************************************************************************)
EXTENDS Naturals, FiniteSets

GetParents(edges, s) == {e[1] : e \in {d \in edges : d[2] = s}}
GetChildren(edges, s) == {e[2] : e \in {d \in edges : d[1] = s}}

\* The depth-first search visits what is reached in at most as many steps as
\* there are edges, and leaves out the service it started from.
Reached(edges, s, next(_, _)) ==
  LET visited[n \in 0..Cardinality(edges)] ==
        IF n = 0 THEN {s}
        ELSE LET before == visited[n - 1]
             IN  before \cup UNION {next(edges, v) : v \in before}
  IN  visited[Cardinality(edges)] \ {s}

GetUpstream(edges, s) == Reached(edges, s, GetParents)
GetDownstream(edges, s) == Reached(edges, s, GetChildren)

\* A plausible mistake, for the checks of the properties: observed traffic
\* replaces the declared graph.
ReplacedBy(seed, observed) == {e \in observed : e[1] # e[2]}

\* A refresh: the seed, and what Jaeger saw often enough.
Merged(seed, observed) == seed \cup {e \in observed : e[1] # e[2]}

\* A plausible mistake, for the checks of the properties: the two directions
\* are mixed up.
DepthBelow(edges, s) == Cardinality(GetDownstream(edges, s))

\* The depth of a service is estimated by how many are above it.
Depth(edges, s) == Cardinality(GetUpstream(edges, s))

\* The services Analyze may name: the alerted one when nothing below it
\* violates its objectives, else any of the deepest that do.
RootCauses(edges, alerted, violating) ==
  LET degraded == GetDownstream(edges, alerted) \cap violating
      depth == [d \in degraded |-> Depth(edges, d)]
  IN  IF degraded = {} THEN {alerted}
      ELSE {d \in degraded : \A other \in degraded : depth[other] <= depth[d]}

=============================================================================
