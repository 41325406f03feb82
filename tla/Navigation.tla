------------------------------ MODULE Navigation ------------------------------
(***************************************************************************)
(* The page a reader is on, under June's client routers: startClientRouter *)
(* of packages/core/src/client-router.ts (HTML fragments morphed into the  *)
(* document), startFlightRouter of client-router-flight.ts (React Flight), *)
(* and the live update of the development server (islands-client.ts,       *)
(* client-live.ts), which re-renders the page while the reader moves on.   *)
(*                                                                         *)
(* A URL is a page, the path and query a navigation is keyed on, with or   *)
(* without a #fragment.  The server redirects some pages to others and     *)
(* renders each inside a shell.  The browser is external: its history, its *)
(* popstate events, and a load of a document, which is one step.  The      *)
(* awaits of one fetch (response, body, decoding) are one: nothing happens *)
(* between them but the staleness check that follows them too.             *)
(***************************************************************************)
EXTENDS Integers, Sequences, FiniteSets

CONSTANTS
    Pages,
    Redirect,       \* where the server sends the reader who asks for a page
    Shell,          \* the shell a page is rendered in: "none" without a boundary
    Routers,        \* the routers to consider: "morph", "flight"
    MaxMoves,       \* bound: clicks and traversals
    MaxFailures,    \* bound: fetches that fail
    MaxLive,        \* bound: live updates
    MaxToken        \* bound: the generation after which no popstate follows an assignment

ASSUME NavigationAssumption ==
    /\ Redirect \in [Pages -> Pages]
    /\ \A p \in Pages : Redirect[Redirect[p]] = Redirect[p]
    /\ DOMAIN Shell = Pages
    /\ Routers \subseteq {"morph", "flight"}
    /\ MaxMoves \in Nat /\ MaxFailures \in Nat /\ MaxLive \in Nat /\ MaxToken \in Nat

VARIABLES
    router, transitions,    \* which router; does the browser have view transitions?
    entries, at,            \* the session history and where the reader is in it
    shown, shell,           \* the page in the document, and the shell around it
    loads,                  \* the documents loaded after the first; numbers them
    token, lastPage,        \* the router's generation, the page it takes for shown
    navs,                   \* calls of navigate() that have not returned
    live,                   \* the live update in progress
    asked,                  \* the page of the last click, traversal or reload
    astray,                 \* "no"; left behind at a "fragment" (Assign); a "live" update of a
                            \* page the reader has left (LiveApply)
    used                    \* what the bounds count

setup    == <<router, transitions>>
bar      == <<entries, at>>
document == <<shown, shell, loads>>
script   == <<token, lastPage, navs>>
vars == <<setup, bar, document, script, live, asked, astray, used>>

Here == entries[at]
NoLive == [stage |-> "none"]
Count(what) == used' = [used EXCEPT ![what] = @ + 1]
-----------------------------------------------------------------------------
\* A page loaded the ordinary way, with no history.
Init ==
    \E p \in {q \in Pages : Redirect[q] = q} :
        /\ router \in Routers /\ transitions \in IF router = "morph" THEN BOOLEAN ELSE {FALSE}
        /\ entries = <<[page |-> p, hash |-> FALSE, doc |-> 0]>> /\ at = 1
        /\ shown = p /\ shell = Shell[p] /\ loads = 0
        /\ token = 0 /\ lastPage = p /\ navs = {} /\ live = NoLive
        /\ asked = p /\ astray = "no"
        /\ used = [moves |-> 0, failures |-> 0, live |-> 0]

\* An entry behind the current one; those ahead of it are gone.
Pushed(p, h, doc) == Append(SubSeq(entries, 1, at), [page |-> p, hash |-> h, doc |-> doc])

\* A document is loaded for a page, and the script begins anew.
Loaded(p) ==
    /\ shown' = Redirect[p] /\ shell' = Shell[Redirect[p]] /\ loads' = loads + 1
    /\ token' = 0 /\ lastPage' = Redirect[p] /\ navs' = {} /\ live' = NoLive
    /\ astray' = "no"

\* location.reload(), or the load of an entry of another document.
LoadEntry(i) ==
    /\ at' = i /\ entries' = [entries EXCEPT ![i].page = Redirect[@]]
    /\ Loaded(entries[i].page)

\* navigate(), up to its fetch, with the calls that have yet to return.  An abort of an
\* earlier call's fetch may come too late: its answer is then seen to be stale.
Navigate(p, h, push, others) ==
    /\ token' = token + 1
    /\ navs' = others \cup {[page |-> p, hash |-> h, push |-> push, mine |-> token + 1,
                             stage |-> "fetch"]}
    /\ UNCHANGED lastPage

\* Mutant: a navigation in flight is left to land.
PopstateLeaves(others) ==
    IF entries'[at'].page = lastPage THEN navs' = others /\ UNCHANGED <<token, lastPage>>
    ELSE Navigate(entries'[at'].page, entries'[at'].hash, FALSE, others)

\* The popstate listener, over the history as it has just become.
Popstate(others) ==
    IF entries'[at'].page = lastPage
    THEN token' = token + 1 /\ navs' = others /\ UNCHANGED lastPage
    ELSE Navigate(entries'[at'].page, entries'[at'].hash, FALSE, others)

Move == used.moves < MaxMoves /\ Count("moves") /\ UNCHANGED setup

\* The reader clicks a link to another page.
Click(p, h) ==
    /\ Move
    /\ p # Here.page /\ asked' = p
    /\ Navigate(p, h, TRUE, navs)
    /\ UNCHANGED <<bar, document, live, astray>>

\* The reader clicks a #fragment of this page, which the browser sees to.
Jump ==
    /\ Move
    /\ asked' = Here.page
    /\ entries' = Pushed(Here.page, TRUE, Here.doc) /\ at' = at + 1
    /\ Popstate(navs)
    /\ UNCHANGED <<document, live, astray>>

\* The reader goes back or forward; an entry of another document is loaded.
Traverse(i) ==
    /\ Move
    /\ i # at /\ asked' = entries[i].page
    /\ \/ /\ entries[i].doc = Here.doc
          /\ at' = i /\ UNCHANGED entries
          /\ Popstate(navs)
          /\ UNCHANGED <<document, live, astray>>
       \/ entries[i].doc # Here.doc /\ LoadEntry(i)

\* location.href = a URL, by a call that returns.  For the URL one is at, with a
\* #fragment, a browser loads nothing: it moves to the fragment, and may or may not
\* fire popstate.
Assign(p, h, others) ==
    \/ /\ p = Here.page /\ h /\ UNCHANGED <<bar, document, live>>
       /\ \/ token < MaxToken /\ Popstate(others)
          \/ navs' = others /\ UNCHANGED <<token, lastPage>>
       /\ astray' = IF astray = "live" THEN "live" ELSE "fragment"
    \/ /\ p = Here.page /\ ~h
       /\ entries' = [entries EXCEPT ![at] = [page |-> Redirect[p], hash |-> h, doc |-> loads + 1]]
       /\ UNCHANGED at
       /\ Loaded(p)
    \/ /\ p # Here.page
       /\ entries' = Pushed(Redirect[p], h, loads + 1) /\ at' = at + 1
       /\ Loaded(p)

\* resolveSwapTarget() has an element for a fragment with this shell key.
Fits(s) == s \in {"none", shell}

\* Mutant: only the fetch is aborted.
NeverStale(n) == FALSE

Stale(n) == n.mine # token

\* A superseded call returns without effect, whatever its fetch brought.
Drop(n) ==
    /\ Stale(n)
    /\ navs' = navs \ {n}
    /\ UNCHANGED <<setup, bar, document, token, lastPage, live, asked, astray, used>>

\* The fetch fails, leads to another origin or brings no page: the browser takes over.
\* Once an answer has begun, the morph router's href is the final URL.
Fail(n) ==
    /\ n.stage = "fetch" /\ ~Stale(n)
    /\ used.failures < MaxFailures /\ Count("failures")
    /\ \E p \in {n.page} \union (IF router = "morph" THEN {Redirect[n.page]} ELSE {}) :
           Assign(p, n.hash, navs \ {n})
    /\ UNCHANGED <<setup, asked>>

\* The shell of the fragment is not the one mounted.
Misfit(n) ==
    /\ router = "morph" /\ n.stage = "fetch" /\ ~Stale(n)
    /\ ~Fits(Shell[Redirect[n.page]])
    /\ Assign(Redirect[n.page], n.hash, navs \ {n})
    /\ UNCHANGED <<setup, asked, used>>

\* A fragment with no shell key takes the whole root, one with a key the outlet.
Morphed(p) == IF Shell[p] = "none" THEN "none" ELSE shell

\* The page of a navigation goes into the document.  Flight renders the whole root.
Applied(p) ==
    /\ shown' = p /\ shell' = IF router = "flight" THEN Shell[p] ELSE Morphed(p)
    /\ lastPage' = entries'[at'].page
    /\ astray' = IF astray = "live" THEN "live" ELSE "no"
    /\ UNCHANGED <<loads, token>>

\* Mutant: the page counts as shown once it is in the history.
AnswerRecords(n) ==
    LET p == Redirect[n.page] IN
    /\ router = "morph" /\ n.stage = "fetch" /\ ~Stale(n) /\ Fits(Shell[p])
    /\ IF n.push THEN entries' = Pushed(p, n.hash, Here.doc) /\ at' = at + 1 ELSE UNCHANGED bar
    /\ \/ ~transitions /\ Applied(p) /\ navs' = navs \ {n}
       \/ /\ transitions
          /\ navs' = (navs \ {n}) \cup {[n EXCEPT !.stage = "gap", !.page = p]}
          /\ lastPage' = entries'[at'].page
          /\ UNCHANGED <<document, token, astray>>
    /\ UNCHANGED <<setup, live, asked, used>>

\* The morph router has its fragment: it moves the history to the final URL if this was
\* a click, and applies the fragment, or lets a view transition do so.
Answer(n) ==
    LET p == Redirect[n.page] IN
    /\ router = "morph" /\ n.stage = "fetch" /\ ~Stale(n) /\ Fits(Shell[p])
    /\ IF n.push THEN entries' = Pushed(p, n.hash, Here.doc) /\ at' = at + 1 ELSE UNCHANGED bar
    /\ \/ ~transitions /\ Applied(p) /\ navs' = navs \ {n}
       \/ /\ transitions
          /\ navs' = (navs \ {n}) \cup {[n EXCEPT !.stage = "gap", !.page = p]}
          /\ UNCHANGED <<document, token, lastPage, astray>>
    /\ UNCHANGED <<setup, live, asked, used>>

\* The view transition runs apply().
Transition(n) ==
    /\ n.stage = "gap" /\ ~Stale(n)
    /\ UNCHANGED bar
    /\ Applied(n.page) /\ navs' = navs \ {n}
    /\ UNCHANGED <<setup, live, asked, used>>

\* The Flight router renders the page and then moves the history to the URL requested.
Render(n) ==
    /\ router = "flight" /\ n.stage = "fetch" /\ ~Stale(n)
    /\ IF n.push THEN entries' = Pushed(n.page, n.hash, Here.doc) /\ at' = at + 1
       ELSE UNCHANGED bar
    /\ Applied(Redirect[n.page]) /\ navs' = navs \ {n}
    /\ UNCHANGED <<setup, live, asked, used>>
-----------------------------------------------------------------------------
(* The live update of the development server.                              *)

\* The server is back: __juneLiveReload asks for the page one is on.
LiveFetch ==
    /\ router = "morph" /\ live = NoLive
    /\ used.live < MaxLive /\ Count("live")
    /\ live' = [stage |-> "fetch", page |-> Here.page]
    /\ UNCHANGED <<setup, bar, document, script, asked, astray>>

\* The response is for the page one is on: its body is awaited.
LiveCheck ==
    /\ live.stage = "fetch" /\ Redirect[live.page] = Here.page
    /\ live' = [stage |-> "body", page |-> Redirect[live.page]]
    /\ UNCHANGED <<setup, bar, document, script, asked, astray, used>>

\* There is no such response, no body, or no element for it: the page is loaded again,
\* and a click under way with it is gone.
LiveReload ==
    /\ live # NoLive
    /\ \/ live.stage = "fetch" /\ Redirect[live.page] # Here.page /\ UNCHANGED used
       \/ live.stage = "body" /\ ~Fits(Shell[live.page]) /\ UNCHANGED used
       \/ used.failures < MaxFailures /\ Count("failures")
    /\ LoadEntry(at) /\ asked' = Here.page
    /\ UNCHANGED setup

\* applyLiveUpdate(): it touches neither the history nor what the router keeps.
LiveApply ==
    /\ live.stage = "body" /\ Fits(Shell[live.page])
    /\ shown' = live.page /\ shell' = Morphed(live.page)
    /\ live' = NoLive
    /\ astray' = IF live.page # lastPage THEN "live" ELSE astray
    /\ UNCHANGED <<setup, bar, loads, script, asked, used>>
-----------------------------------------------------------------------------
Reader ==
    \/ \E p \in Pages, h \in BOOLEAN : Click(p, h)
    \/ Jump
    \/ \E i \in DOMAIN entries : Traverse(i)

Call(n) == Drop(n) \/ Fail(n) \/ Misfit(n) \/ Answer(n) \/ Transition(n) \/ Render(n)

Router == \E n \in navs : Call(n)

LiveUpdate == LiveFetch \/ LiveCheck \/ LiveReload \/ LiveApply

\* Nothing is under way.
Rest == navs = {} /\ live = NoLive /\ UNCHANGED vars

Next == Reader \/ Router \/ LiveUpdate \/ Rest

Spec == Init /\ [][Next]_vars

\* Fetches are answered and view transitions run.
FairSpec == Spec /\ WF_vars(Router) /\ WF_vars(LiveUpdate)
-----------------------------------------------------------------------------
(* Properties.                                                             *)

Settled == \A n \in navs : Stale(n)

\* The document shows the page its URL leads to, whenever no navigation is under way:
\* whatever was clicked and gone back on, and in whatever order the answers came.  The
\* two ways of going astray that the code has are left out.  And a page always sits in
\* its shell: a segment never goes into another's outlet.
ShowsLocation ==
    /\ Settled /\ astray = "no" => shown = Redirect[Here.page]
    /\ astray # "live" => shell = Shell[shown]

\* The same without exception.
AlwaysShowsLocation == Settled => shown = Redirect[Here.page]

\* The reader ends up at the page of the last click or traversal, not at one that was
\* slow to arrive (the race the comment at client-router.ts:139 is about).
LastAskedWins == Settled => Redirect[Here.page] = Redirect[asked]

\* Liveness: what the reader asks for is shown, or given up for something else.
AskedIsShown ==
    \A p \in Pages : asked = p ~> shown = Redirect[p] \/ asked # p \/ astray # "no"
=============================================================================
