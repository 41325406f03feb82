-------------------------------- MODULE Routing --------------------------------
(* File routing, which June does twice. `june dev` walks the app directory    *)
(* for every request (router.ts, matchRouteTree); the built worker has no     *)
(* directory and takes the first match of a table of patterns (worker.ts).    *)
(* Both are to find the same route with the same params. Layouts, loading and *)
(* error files and the modules behind a route are left out. A route group     *)
(* `(name)` is not part of a route's path, and directories that differ in     *)
(* groups only are one level of the walk: a directory is its path here.       *)
EXTENDS Integers, Sequences, SequencesExt, FiniteSetsExt, Functions

(* A directory name is [kind, name]; the text of a static one is its name.    *)
(* Names are numbers, in the order of their texts.                            *)
Kinds == <<"static", "param", "optional", "catchAll", "optionalCatchAll">>
RANK == [k \in Range(Kinds) |-> CHOOSE i \in DOMAIN Kinds : Kinds[i] = k]
EndsPath == {"optional", "catchAll", "optionalCatchAll"}

(* A route is [path, type, tree]: a page or a resource (route.ts), of app/ or *)
(* of the generated .june/routes/.                                            *)
RouteTypes == {"page", "resource"}
RouteTrees == {"app", "generated"}

(* A request's path is [segments, slash]: of each segment its decoded text    *)
(* and whether it is written plainly, with no percent-encoding, and whether a *)
(* slash follows the last one.                                                *)
Plain(url) == ~url.slash /\ \A i \in DOMAIN url.segments : url.segments[i].plain

NoHit == [path |-> <<>>, type |-> "none", tree |-> "none", params |-> <<>>]

-----------------------------------------------------------------------------
(* Precedence (route-rank.ts).                                               *)

CompareSegments(a, b) ==
  \/ RANK[a.kind] < RANK[b.kind]
  \/ RANK[a.kind] = RANK[b.kind] /\ a.name < b.name

\* The first segment where two patterns differ decides; one that ends there
\* comes before the one that goes on.
CompareRoutePatterns(p, q) ==
  \/ IsStrictPrefix(p, q)
  \/ \E i \in DOMAIN p \cap DOMAIN q :
        /\ SubSeq(p, 1, i - 1) = SubSeq(q, 1, i - 1)
        /\ CompareSegments(p[i], q[i])

First(S, Before(_, _)) == CHOOSE x \in S : \A y \in S \ {x} : Before(x, y)

-----------------------------------------------------------------------------
(* What the build accepts (route-scan.ts).                                   *)

\* Two files of one tree at one path, unless one is a page and one a resource,
\* and a segment that must end its path and does not, are refused.
RouteConflicts(routes) ==
  \E r \in routes, s \in routes :
     r # s /\ r.path = s.path /\ r.type = s.type /\ r.tree = s.tree
MisplacedSegment(path) == \E i \in 1..Len(path) - 1 : path[i].kind \in EndsPath
RouteProblems(routes) ==
  RouteConflicts(routes) \/ \E r \in routes : MisplacedSegment(r.path)

\* A generated route gives way to a route of app/ with its path.
ScanAppRoutes(routes) ==
  {r \in routes : r.tree = "generated" =>
                     ~\E s \in routes : s.tree = "app" /\ s.path = r.path}

-----------------------------------------------------------------------------
(* june dev: the walk (router.ts).                                           *)

\* descend[dir, n]: what answers in directory dir once n segments of the URL are
\* consumed. A page comes before a resource; at the end of the URL an optional
\* child matches the absence of its segment.
MatchRouteTree(routes, url) ==
  LET segs == url.segments
      prefixes == UNION {{SubSeq(r.path, 1, i) : i \in 0..Len(r.path)} : r \in routes}
      children(dir) == {p \in prefixes : Len(p) = Len(dir) + 1 /\ IsPrefix(dir, p)}
      rest(n) == [i \in 1..Len(segs) - n |-> segs[n + i].text]
      here(dir) == {r \in routes : r.path = dir}
      found(r) == [path |-> r.path, type |-> r.type, tree |-> r.tree,
                   params |-> <<>>]
      with(hit, s, value) ==
        IF hit = NoHit THEN NoHit
        ELSE [hit EXCEPT !.params = @ @@ (s.name :> value)]
      descend[dir \in prefixes, n \in 0..Len(segs)] ==
        LET child(p) ==
              LET s == Last(p)
              IN  IF n = Len(segs)
                  THEN IF s.kind \in {"optional", "optionalCatchAll"}
                       THEN descend[p, n] ELSE NoHit
                  ELSE CASE s.kind \in {"param", "optional"} ->
                              with(descend[p, n + 1], s, <<segs[n + 1].text>>)
                         [] s.kind \in {"catchAll", "optionalCatchAll"} ->
                              with(descend[p, Len(segs)], s, rest(n))
                         [] s.kind = "static" ->
                              IF s.name = segs[n + 1].text
                              THEN descend[p, n + 1] ELSE NoHit
            hits == {p \in children(dir) : child(p) # NoHit}
        IN  IF n = Len(segs) /\ here(dir) # {}
            THEN found(First(here(dir), LAMBDA r, s : r.type = "page"))
            ELSE IF hits = {} THEN NoHit
            ELSE child(First(hits, LAMBDA p, q : CompareSegments(Last(p), Last(q))))
  IN  IF routes = {} THEN NoHit ELSE descend[<<>>, 0]

\* app/ first, then the generated tree.
DevResolves(routes, url) ==
  LET of(tree) == {r \in routes : r.tree = tree}
      app == MatchRouteTree(of("app"), url)
  IN  IF app # NoHit THEN app ELSE MatchRouteTree(of("generated"), url)

-----------------------------------------------------------------------------
(* The built worker: the table (worker.ts).                                  *)

\* The pattern's expression on the path as it is written: a static segment is
\* matched literally, a slash at the end only as the tail of a catch-all.
CompilePattern(path, url) ==
  LET segs == url.segments
      ends == path # <<>> /\ Last(path).kind \in EndsPath
      fixed == IF ends THEN Len(path) - 1 ELSE Len(path)
      left == Len(segs) - fixed
  IN  /\ left >= 0
      /\ \A i \in 1..fixed :
            path[i].kind = "static" => segs[i].plain /\ segs[i].text = path[i].name
      /\ IF ~ends THEN left = 0
         ELSE CASE Last(path).kind = "optional" -> left <= 1
                [] Last(path).kind = "catchAll" -> left >= 1
                [] Last(path).kind = "optionalCatchAll" -> TRUE
      /\ url.slash => ends /\ Last(path).kind # "optional" /\ left >= 1

\* The captures, decoded; a name used twice keeps the last, an optional segment
\* that is absent has no param.
Captures(path, url) ==
  LET segs == url.segments
      texts(i) == IF path[i].kind \in {"catchAll", "optionalCatchAll"}
                  THEN [k \in 1..Len(segs) - i + 1 |-> segs[i + k - 1].text]
                  ELSE <<segs[i].text>>
      named == {i \in DOMAIN path : path[i].kind # "static" /\ i <= Len(segs)}
  IN  [x \in {path[i].name : i \in named} |->
         texts(CHOOSE i \in named :
                 path[i].name = x /\ \A j \in named : path[j].name = x => j <= i)]

TableOrder(r, s) ==
  \/ r.tree = "app" /\ s.tree = "generated"
  \/ /\ r.tree = s.tree
     /\ \/ CompareRoutePatterns(r.path, s.path)
        \/ r.path = s.path /\ r.type = "page" /\ s.type = "resource"

\* A page of app/ without params is looked up by the path itself, before the table.
WorkerResolves(routes, url) ==
  LET rows == ScanAppRoutes(routes)
      static == {r \in rows : /\ r.tree = "app" /\ r.type = "page"
                              /\ \A i \in DOMAIN r.path : r.path[i].kind = "static"
                              /\ CompilePattern(r.path, url)}
      matches == {r \in rows : CompilePattern(r.path, url)}
      answer(r) == [path |-> r.path, type |-> r.type, tree |-> r.tree,
                    params |-> Captures(r.path, url)]
  IN  IF static # {} THEN answer(CHOOSE r \in static : TRUE)
      ELSE IF matches = {} THEN NoHit
      ELSE answer(First(matches, TableOrder))
=============================================================================
