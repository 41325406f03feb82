----------------------------- MODULE MCNavigation -----------------------------
(* Three pages of one site: the first two share a shell, the third has none  *)
(* and is also what a fourth, old URL leads to.                              *)
EXTENDS Navigation, Routing

MCPages == {"guide", "intro", "home", "old"}
MCRedirect == [p \in MCPages |-> IF p = "old" THEN "home" ELSE p]
MCShell == [p \in MCPages |-> IF p \in {"guide", "intro"} THEN "docs" ELSE "none"]

-----------------------------------------------------------------------------
(* Which page answers a URL: apps of up to three routes, each of at most two *)
(* segments of every kind, with two params by name, and every URL of up to   *)
(* three segments.                                                           *)

RouteSegments ==
    {[kind |-> k, name |-> 1] : k \in Range(Kinds)} \cup {[kind |-> "param", name |-> 2]}
RoutePaths == {<<>>} \cup {<<s>> : s \in RouteSegments} \cup {<<s, t>> : s, t \in RouteSegments}
Routes == [path : RoutePaths, type : RouteTypes, tree : RouteTrees]
AppPages == [path : RoutePaths, type : {"page"}, tree : {"app"}]

Texts == [text : {1, 2}, plain : BOOLEAN]
Urls == {u \in [segments : UNION {[1..n -> Texts] : n \in 0..3}, slash : BOOLEAN] :
            u.slash => u.segments # <<>>}

Agree(routes) ==
    RouteProblems(routes) \/ \A url \in {u \in Urls : Plain(u)} :
        DevResolves(routes, url) = WorkerResolves(routes, url)

\* The walk and the table find the same route and the same params, for every app the
\* build accepts ("the depth-first walk and the sorted table pick the same winner",
\* packages/june/src/route-rank.ts:5-7).
ASSUME WalkIsTable ==
    /\ \A r \in Routes, s \in Routes : Agree({r, s})
    /\ \A r \in AppPages, s \in AppPages, t \in AppPages :
          CompareRoutePatterns(r.path, s.path) /\ CompareRoutePatterns(s.path, t.path) =>
              Agree({r, s, t})

\* A path that is not written plainly is another matter, if only one route is there: the
\* walk decodes each segment and drops a slash at the end, the table's expressions see
\* the path as it was sent.
ASSUME WalkDecodes ==
    \A spelling \in {"encoded", "slash"} : \E r \in AppPages, u \in Urls :
        /\ spelling = "encoded" => ~u.slash
        /\ spelling = "slash" => \A i \in DOMAIN u.segments : u.segments[i].plain
        /\ DevResolves({r}, u) # NoHit /\ WorkerResolves({r}, u) = NoHit
=============================================================================
