--------------------------- MODULE NavigationProofs ---------------------------
(***************************************************************************)
(* Where a reader ends up, for every value of the constants: any set of    *)
(* pages, redirects and shells, either router, and any number of clicks,   *)
(* traversals, failing fetches and live updates.                           *)
(***************************************************************************)
EXTENDS Navigation, SequenceTheorems, TLAPS

Entry == [page : Pages, hash : BOOLEAN, doc : Nat]
Nav == [page : Pages, hash : BOOLEAN, push : BOOLEAN, mine : Nat, stage : {"fetch", "gap"}]
Live == {NoLive} \cup [stage : {"fetch", "body"}, page : Pages]

TypeInv ==
    /\ router \in {"morph", "flight"}
    /\ entries \in Seq(Entry) /\ at \in DOMAIN entries
    /\ shown \in Pages /\ lastPage \in Pages /\ asked \in Pages
    /\ loads \in Nat /\ token \in Nat
    /\ navs \subseteq Nav /\ live \in Live
    /\ astray \in {"no", "fragment", "live"}

\* Two pages are one to the reader: the server leads from either to the same.
Leads(p, q) == Redirect[p] = Redirect[q]

\* One call at most is current, and it is on its way to what the reader asked for.  One
\* that has moved the history, or needs not, is on its way to where the URL is, and fits.
NavInv ==
    /\ \A n \in navs : n.mine <= token
    /\ \A n, m \in navs : n.mine = m.mine => n = m
    /\ \A n \in navs : ~Stale(n) =>
           /\ Leads(n.page, asked)
           /\ ~n.push \/ n.stage = "gap" => Leads(n.page, Here.page)
           /\ n.stage = "gap" => Redirect[n.page] = n.page /\ (astray # "live" => Fits(Shell[n.page]))

\* The router knows what is shown, unless a live update went astray.
DocInv ==
    /\ Redirect[shown] = shown
    /\ astray # "live" => shown = Redirect[lastPage] /\ shell = Shell[shown]
    /\ live.stage = "body" => Redirect[live.page] = live.page

\* At rest the router and the reader agree with the URL.
RestInv ==
    /\ Settled /\ astray = "no" => Leads(lastPage, Here.page)
    /\ Settled => Leads(Here.page, asked)

Inv == TypeInv /\ NavInv /\ DocInv /\ RestInv
-----------------------------------------------------------------------------
LEMMA Redirects ==
    \A p \in Pages : Redirect[p] \in Pages /\ Redirect[Redirect[p]] = Redirect[p] /\ Leads(Redirect[p], p)
  BY NavigationAssumption DEF Leads

LEMMA EntryIs ==
    ASSUME TypeInv, NEW i \in DOMAIN entries
    PROVE  entries[i] \in Entry /\ entries[i].page \in Pages
<1>1. entries[i] \in Entry
  BY DEF TypeInv
<1> QED
  BY <1>1 DEF Entry

\* The entry one is at.
LEMMA HereIs ==
    ASSUME TypeInv
    PROVE  Here \in Entry /\ Here.page \in Pages /\ at \in 1..Len(entries) /\ Len(entries) \in Nat
<1>1. entries \in Seq(Entry) /\ at \in DOMAIN entries
  BY DEF TypeInv
<1>2. DOMAIN entries = 1..Len(entries) /\ Len(entries) \in Nat /\ entries[at] \in Entry
  BY <1>1
<1> QED
  BY <1>1, <1>2 DEF Here, Entry

LEMMA PushedDoes ==
    ASSUME TypeInv, NEW p \in Pages, NEW h \in BOOLEAN, NEW doc \in Nat
    PROVE  /\ Pushed(p, h, doc) \in Seq(Entry) /\ at + 1 \in DOMAIN Pushed(p, h, doc)
           /\ Pushed(p, h, doc)[at + 1].page = p
<1>1. /\ entries \in Seq(Entry) /\ at \in 1..Len(entries) /\ Len(entries) \in Nat
  BY HereIs DEF TypeInv
<1>2. PICK e \in Entry : e = [page |-> p, hash |-> h, doc |-> doc]
  BY DEF Entry
<1>3. SubSeq(entries, 1, at) \in Seq(Entry) /\ Len(SubSeq(entries, 1, at)) = at
  <2>1. \A i \in 1..at : entries[i] \in Entry
    BY <1>1
  <2> QED
    BY <1>1, <2>1, SubSeqProperties
<1>4. PICK some \in Seq(Entry) : some = SubSeq(entries, 1, at) /\ Len(some) = at
  BY <1>3
<1>5. Append(some, e) \in Seq(Entry) /\ Len(Append(some, e)) = at + 1 /\ Append(some, e)[at + 1] = e
  BY <1>4, AppendProperties
<1>6. at + 1 \in DOMAIN Append(some, e)
  BY <1>1, <1>5
<1> QED
  BY <1>2, <1>4, <1>5, <1>6 DEF Pushed

LEMMA ReplacedDoes ==
    ASSUME TypeInv, NEW i \in DOMAIN entries, NEW e \in Entry
    PROVE  /\ [entries EXCEPT ![i] = e] \in Seq(Entry) /\ i \in DOMAIN [entries EXCEPT ![i] = e]
           /\ [entries EXCEPT ![i] = e][i] = e
  BY DEF TypeInv

\* The history one is left with.
HistoryOK == entries' \in Seq(Entry) /\ at' \in DOMAIN entries'

LEMMA HistoryHere ==
    ASSUME HistoryOK
    PROVE  entries'[at'].page \in Pages /\ entries'[at'].hash \in BOOLEAN
<1>1. entries'[at'] \in Entry
  BY DEF HistoryOK
<1> QED
  BY <1>1 DEF Entry
-----------------------------------------------------------------------------
(* What the steps are made of.                                             *)

\* A document begins anew, at the page the server leads to.
LEMMA LoadedDoes ==
    ASSUME TypeInv, HistoryOK, router' = router, NEW p \in Pages, Loaded(p),
           entries'[at'].page = Redirect[p], asked' \in Pages, Leads(p, asked')
    PROVE  Inv'
<1>1. /\ shown' = Redirect[p] /\ shell' = Shell[Redirect[p]] /\ loads' = loads + 1
      /\ token' = 0 /\ lastPage' = Redirect[p] /\ navs' = {} /\ live' = NoLive /\ astray' = "no"
  BY DEF Loaded
<1>2. Redirect[p] \in Pages /\ Redirect[Redirect[p]] = Redirect[p]
  BY Redirects
<1>3. TypeInv'
  BY <1>1, <1>2 DEF TypeInv, HistoryOK, Live
<1>4. NavInv'
  BY <1>1 DEF NavInv
<1>5. DocInv'
  BY <1>1, <1>2 DEF DocInv, NoLive
<1>6. RestInv'
  BY <1>1, <1>2 DEF RestInv, Leads, Here
<1> QED
  BY <1>3, <1>4, <1>5, <1>6 DEF Inv

\* What a step that leaves the document alone keeps.
Unshown == UNCHANGED <<router, shown, shell, loads, live, lastPage>> /\ (astray' = "live" <=> astray = "live")

LEMMA DocKept ==
    ASSUME DocInv, Unshown
    PROVE  DocInv'
  BY DEF DocInv, Unshown

\* A new call supersedes the others.
LEMMA NavigateDoes ==
    ASSUME Inv, HistoryOK, Unshown, asked' \in Pages, astray' \in {"no", "fragment", "live"},
           NEW p \in Pages, NEW h \in BOOLEAN, NEW push \in BOOLEAN, NEW others \in SUBSET navs,
           Navigate(p, h, push, others), Leads(p, asked'), push \/ p = entries'[at'].page
    PROVE  Inv'
<1>i. TypeInv /\ NavInv /\ DocInv
  BY DEF Inv
<1>n. PICK new : new = [page |-> p, hash |-> h, push |-> push, mine |-> token + 1, stage |-> "fetch"]
  OBVIOUS
<1>1. token' = token + 1 /\ navs' = others \cup {new} /\ token \in Nat /\ navs \subseteq Nav
  BY <1>i, <1>n DEF Navigate, TypeInv
<1>2. new \in Nav /\ new.page = p /\ new.push = push /\ new.mine = token + 1 /\ new.stage = "fetch"
  BY <1>1, <1>n DEF Nav
<1>3. \A n \in others : n \in navs /\ n \in Nav /\ n.mine \in Nat /\ n.mine <= token
  BY <1>i, <1>1 DEF NavInv, Nav
<1>4. TypeInv'
  BY <1>i, <1>1, <1>2, <1>3 DEF TypeInv, Unshown, HistoryOK
<1>5. NavInv'
  <2>1. \A n \in navs' : n.mine <= token'
    BY <1>1, <1>2, <1>3
  <2>2. \A n, m \in navs' : n.mine = m.mine => n = m
    BY <1>i, <1>1, <1>2, <1>3 DEF NavInv
  <2>3. \A n \in navs' : ~Stale(n)' => n = new
    BY <1>1, <1>2, <1>3 DEF Stale
  <2>4. Leads(new.page, asked') /\ (~new.push => Leads(new.page, entries'[at'].page))
    BY <1>2 DEF Leads
  <2> QED
    BY <1>2, <2>1, <2>2, <2>3, <2>4 DEF NavInv, Here, Leads
<1>6. RestInv'
  <2>1. new \in navs' /\ ~Stale(new)'
    BY <1>1, <1>2 DEF Stale
  <2> QED
    BY <2>1 DEF RestInv, Settled
<1> QED
  BY <1>i, <1>4, <1>5, <1>6, DocKept DEF Inv

\* The router hears of a traversal, and goes there unless that is what is shown.
LEMMA PopstateDoes ==
    ASSUME Inv, HistoryOK, UNCHANGED <<router, shown, shell, loads, live>>, astray' = "live" <=> astray = "live",
           asked' \in Pages, astray' \in {"no", "fragment", "live"},
           NEW others \in SUBSET navs, Popstate(others), Leads(entries'[at'].page, asked')
    PROVE  Inv'
<1>i. TypeInv /\ NavInv /\ DocInv
  BY DEF Inv
<1>0. entries'[at'].page \in Pages /\ entries'[at'].hash \in BOOLEAN
  BY HistoryHere
<1>1. CASE entries'[at'].page = lastPage
  <2>1. token' = token + 1 /\ navs' = others /\ lastPage' = lastPage /\ token \in Nat /\ navs \subseteq Nav
    BY <1>i, <1>1 DEF Popstate, TypeInv
  <2>2. Unshown
    BY <2>1 DEF Unshown
  <2>3. \A n \in others : n \in navs /\ n.mine \in Nat /\ n.mine <= token
    BY <1>i, <2>1 DEF NavInv, Nav
  <2>4. TypeInv'
    BY <1>i, <2>1, <2>2, <2>3 DEF TypeInv, Unshown, HistoryOK
  <2>5. \A n \in navs' : n.mine <= token' /\ Stale(n)'
    BY <2>1, <2>3 DEF Stale
  <2>6. NavInv'
    BY <1>i, <2>1, <2>3, <2>5 DEF NavInv
  <2>7. RestInv'
    BY <1>1, <2>1 DEF RestInv, Leads, Here
  <2> QED
    BY <1>i, <2>2, <2>4, <2>6, <2>7, DocKept DEF Inv
<1>2. CASE entries'[at'].page # lastPage
  <2>1. Navigate(entries'[at'].page, entries'[at'].hash, FALSE, others)
    BY <1>2 DEF Popstate
  <2>2. Unshown
    BY <2>1 DEF Navigate, Unshown
  <2> QED
    BY <1>0, <2>1, <2>2, NavigateDoes
<1> QED
  BY <1>1, <1>2

\* Without the current call all that are left are stale.
LEMMA OthersAreStale ==
    ASSUME NavInv, NEW n \in navs, ~Stale(n), NEW m \in navs \ {n}
    PROVE  Stale(m)
  BY DEF NavInv, Stale

\* location.href = p, by the current call.
LEMMA AssignDoes ==
    ASSUME Inv, NEW n \in navs, ~Stale(n), UNCHANGED <<router, asked>>, NEW p \in Pages, Leads(p, n.page),
           Assign(p, n.hash, navs \ {n})
    PROVE  Inv'
<1>i. TypeInv /\ NavInv /\ DocInv /\ RestInv
  BY DEF Inv
<1>0. /\ n.hash \in BOOLEAN /\ asked \in Pages /\ token \in Nat /\ loads + 1 \in Nat
      /\ astray \in {"no", "fragment", "live"} /\ navs \subseteq Nav
  BY <1>i DEF TypeInv, Nav
<1>1. Leads(p, asked)
  BY <1>i DEF NavInv, Leads
<1>2. Redirect[p] \in Pages /\ Redirect[Redirect[p]] = Redirect[p]
  BY Redirects
<1>3. CASE /\ p = Here.page /\ n.hash /\ UNCHANGED <<bar, document, live>>
           /\ \/ token < MaxToken /\ Popstate(navs \ {n})
              \/ navs' = navs \ {n} /\ UNCHANGED <<token, lastPage>>
           /\ astray' = IF astray = "live" THEN "live" ELSE "fragment"
  <2>1. /\ HistoryOK /\ UNCHANGED <<entries, at, shown, shell, loads, live>> /\ entries'[at'].page = p
        /\ astray' \in {"fragment", "live"} /\ (astray' = "live" <=> astray = "live")
    BY <1>i, <1>3 DEF bar, document, TypeInv, HistoryOK, Here
  <2>2. CASE Popstate(navs \ {n})
    BY <1>0, <1>1, <2>1, <2>2, PopstateDoes
  <2>3. CASE navs' = navs \ {n} /\ UNCHANGED <<token, lastPage>>
    <3>1. Unshown
      BY <2>1, <2>3 DEF Unshown
    <3>2. TypeInv'
      BY <1>i, <2>1, <2>3 DEF TypeInv, HistoryOK
    <3>3. \A m \in navs' : m \in navs /\ m.mine <= token' /\ Stale(m)'
      BY <1>i, <2>3, OthersAreStale DEF NavInv, Stale
    <3>4. NavInv'
      BY <1>i, <3>3 DEF NavInv
    <3>5. RestInv'
      BY <1>1, <2>1 DEF RestInv, Leads, Here
    <3> QED
      BY <1>i, <3>1, <3>2, <3>4, <3>5, DocKept DEF Inv
  <2> QED
    BY <1>3, <2>2, <2>3
<1>4. CASE /\ entries' = [entries EXCEPT ![at] = [page |-> Redirect[p], hash |-> n.hash, doc |-> loads + 1]]
           /\ UNCHANGED at /\ Loaded(p)
  <2>1. PICK e : e = [page |-> Redirect[p], hash |-> n.hash, doc |-> loads + 1]
    OBVIOUS
  <2>e. e \in Entry /\ e.page = Redirect[p]
    BY <1>0, <1>2, <2>1 DEF Entry
  <2>2. HistoryOK /\ entries'[at'] = e
    BY <1>i, <1>4, <2>1, <2>e, ReplacedDoes DEF HistoryOK, TypeInv
  <2> QED
    BY <1>i, <1>0, <1>1, <1>4, <2>e, <2>2, LoadedDoes
<1>5. CASE entries' = Pushed(Redirect[p], n.hash, loads + 1) /\ at' = at + 1 /\ Loaded(p)
  <2>1. HistoryOK /\ entries'[at'].page = Redirect[p]
    BY <1>i, <1>0, <1>2, <1>5, PushedDoes DEF HistoryOK
  <2> QED
    BY <1>i, <1>0, <1>1, <1>5, <2>1, LoadedDoes
<1> QED
  BY <1>3, <1>4, <1>5 DEF Assign

\* The current call puts its page into the document.
LEMMA AppliedDoes ==
    ASSUME Inv, HistoryOK, UNCHANGED <<router, live, asked>>, NEW n \in navs, ~Stale(n), navs' = navs \ {n},
           NEW p \in Pages, p = Redirect[n.page], Applied(p),
           Leads(entries'[at'].page, n.page), router = "flight" \/ astray = "live" \/ Fits(Shell[p])
    PROVE  Inv'
<1>i. TypeInv /\ NavInv /\ DocInv
  BY DEF Inv
<1>0. n \in Nav /\ n.page \in Pages /\ navs \subseteq Nav /\ astray \in {"no", "fragment", "live"}
  BY <1>i DEF TypeInv, Nav
<1>1. /\ shown' = p /\ shell' = IF router = "flight" THEN Shell[p] ELSE Morphed(p)
      /\ lastPage' = entries'[at'].page /\ astray' = IF astray = "live" THEN "live" ELSE "no"
      /\ loads' = loads /\ token' = token
  BY DEF Applied
<1>2. Redirect[p] = p /\ Redirect[entries'[at'].page] = p
  BY <1>0, Redirects DEF Leads
<1>3. Leads(n.page, asked)
  BY <1>i DEF NavInv
<1>4. entries'[at'].page \in Pages
  BY HistoryHere
<1>5. TypeInv'
  BY <1>i, <1>0, <1>1, <1>4 DEF TypeInv, HistoryOK
<1>6. \A m \in navs' : m \in navs /\ m.mine <= token' /\ Stale(m)'
  BY <1>i, <1>1, OthersAreStale DEF NavInv, Stale
<1>7. NavInv'
  BY <1>i, <1>6 DEF NavInv
<1>8. DocInv'
  <2>1. astray # "live" => shell' = Shell[p]
    BY <1>1 DEF Fits, Morphed
  <2>2. live'.stage = "body" => Redirect[live'.page] = live'.page
    BY <1>i DEF DocInv
  <2> QED
    BY <1>1, <1>2, <2>1, <2>2 DEF DocInv
<1>9. RestInv'
  BY <1>1, <1>2, <1>3 DEF RestInv, Leads, Here
<1> QED
  BY <1>5, <1>7, <1>8, <1>9 DEF Inv

\* Fewer calls, and nothing else: those that are gone were stale.
LEMMA DropDoes ==
    ASSUME Inv, NEW n \in navs, Drop(n)
    PROVE  Inv'
<1>i. TypeInv /\ NavInv /\ DocInv /\ RestInv
  BY DEF Inv
<1>1. Stale(n) /\ navs' = navs \ {n} /\ UNCHANGED <<router, entries, at, shown, shell, loads, token, lastPage, live, asked, astray>>
  BY DEF Drop, setup, bar, document
<1>2. Unshown /\ TypeInv'
  BY <1>i, <1>1 DEF Unshown, TypeInv
<1>3. \A m \in navs' : m \in navs /\ (Stale(m)' <=> Stale(m))
  BY <1>1 DEF Stale
<1>4. NavInv'
  BY <1>i, <1>1, <1>3 DEF NavInv, Here, Fits
<1>5. Settled' => Settled
  BY <1>1, <1>3 DEF Settled
<1>6. RestInv'
  BY <1>i, <1>1, <1>5 DEF RestInv, Here
<1> QED
  BY <1>i, <1>2, <1>4, <1>6, DocKept DEF Inv

\* The history after the current call has its answer: it leads where the call went.
LEMMA MovesHistory ==
    ASSUME Inv, NEW n \in navs, ~Stale(n), NEW p \in Pages, Leads(p, n.page),
           IF n.push THEN entries' = Pushed(p, n.hash, Here.doc) /\ at' = at + 1 ELSE UNCHANGED bar
    PROVE  HistoryOK /\ Leads(entries'[at'].page, n.page)
<1>i. TypeInv /\ NavInv /\ n.hash \in BOOLEAN /\ n.push \in BOOLEAN
  BY DEF Inv, TypeInv, Nav
<1>1. CASE n.push
  <2>1. Here.doc \in Nat
    BY <1>i, HereIs DEF Entry
  <2>2. HistoryOK /\ entries'[at'].page = p
    BY <1>i, <1>1, <2>1, PushedDoes DEF HistoryOK
  <2> QED
    BY <2>2
<1>2. CASE ~n.push
  <2>1. Leads(n.page, Here.page)
    BY <1>i, <1>2 DEF NavInv
  <2>2. entries' = entries /\ at' = at
    BY <1>2 DEF bar
  <2> QED
    BY <1>i, <2>1, <2>2 DEF Leads, Here, HistoryOK, TypeInv
<1> QED
  BY <1>1, <1>2

\* The fragment waits for the view transition, with the history moved.
LEMMA GapDoes ==
    ASSUME Inv, HistoryOK, NEW n \in navs, ~Stale(n), NEW p \in Pages, p = Redirect[n.page], Fits(Shell[p]),
           navs' = (navs \ {n}) \cup {[n EXCEPT !.stage = "gap", !.page = p]},
           Leads(entries'[at'].page, n.page),
           UNCHANGED <<router, shown, shell, loads, token, lastPage, live, asked, astray>>
    PROVE  Inv'
<1>i. TypeInv /\ NavInv /\ DocInv
  BY DEF Inv
<1>0. n \in Nav /\ n.page \in Pages /\ n.mine = token /\ n.mine \in Nat /\ navs \subseteq Nav
  BY <1>i DEF TypeInv, Nav, Stale
<1>n. PICK new : new = [n EXCEPT !.stage = "gap", !.page = p]
  OBVIOUS
<1>1. new \in Nav /\ new.page = p /\ new.mine = token /\ new.stage = "gap"
  BY <1>0, <1>n DEF Nav
<1>2. navs' = (navs \ {n}) \cup {new}
  BY <1>n
<1>3. \A m \in navs \ {n} : Stale(m)' /\ m.mine <= token' /\ m.mine # token
  BY <1>i, OthersAreStale DEF Stale, NavInv
<1>4. Redirect[p] = p /\ Leads(p, n.page) /\ Leads(n.page, asked)
  BY <1>i, <1>0, Redirects DEF NavInv
<1>5. TypeInv'
  BY <1>i, <1>0, <1>1, <1>2 DEF TypeInv, HistoryOK
<1>6. NavInv'
  <2>1. \A m \in navs' : m.mine <= token'
    BY <1>0, <1>1, <1>2, <1>3
  <2>2. \A m, o \in navs' : m.mine = o.mine => m = o
    BY <1>i, <1>1, <1>2, <1>3 DEF NavInv
  <2>3. \A m \in navs' : ~Stale(m)' => m = new
    BY <1>2, <1>3
  <2>4. /\ Leads(new.page, asked') /\ Leads(new.page, entries'[at'].page) /\ Redirect[new.page] = new.page
        /\ Fits(Shell[new.page])'
    BY <1>1, <1>4 DEF Leads, Fits
  <2> QED
    BY <2>1, <2>2, <2>3, <2>4 DEF NavInv, Here, Leads, Fits
<1>7. Unshown
  BY DEF Unshown
<1>8. RestInv'
  <2>1. new \in navs' /\ new.mine = token'
    BY <1>1, <1>2
  <2> QED
    BY <2>1 DEF RestInv, Settled, Stale
<1> QED
  BY <1>i, <1>5, <1>6, <1>7, <1>8, DocKept DEF Inv

\* A live update of the page the router takes for shown changes nothing; any other goes
\* astray.
LEMMA LiveApplyDoes ==
    ASSUME Inv, LiveApply
    PROVE  Inv'
<1>i. TypeInv /\ NavInv /\ DocInv /\ RestInv
  BY DEF Inv
<1>1. /\ live.stage = "body" /\ Fits(Shell[live.page]) /\ shown' = live.page /\ shell' = Morphed(live.page)
      /\ live' = NoLive /\ astray' = IF live.page # lastPage THEN "live" ELSE astray
      /\ UNCHANGED <<router, entries, at, loads, token, lastPage, navs, asked>>
  BY DEF LiveApply, setup, bar, script
<1>2. live.page \in Pages /\ Redirect[live.page] = live.page
  BY <1>i, <1>1 DEF TypeInv, Live, NoLive, DocInv
<1>3. astray' # "live" => /\ astray = astray' /\ live.page = lastPage /\ shown' = Redirect[lastPage]
                         /\ shell' = Shell[shown'] /\ shell = Shell[shown'] /\ shell' = shell
  BY <1>i, <1>1, <1>2 DEF DocInv, Morphed, Fits
<1>4. TypeInv'
  BY <1>i, <1>1, <1>2 DEF TypeInv, Live
<1>5. DocInv'
  BY <1>1, <1>2, <1>3 DEF DocInv, NoLive
<1>6. \A n \in navs : Stale(n)' <=> Stale(n)
  BY <1>1 DEF Stale
<1>7. NavInv'
  <2>1. \A n \in navs' : n.mine <= token'
    BY <1>i, <1>1 DEF NavInv
  <2>2. \A n, m \in navs' : n.mine = m.mine => n = m
    BY <1>i, <1>1 DEF NavInv
  <2>3. ASSUME NEW n \in navs', ~Stale(n)'
        PROVE  /\ Leads(n.page, asked') /\ (~n.push \/ n.stage = "gap" => Leads(n.page, Here.page)')
               /\ n.stage = "gap" => Redirect[n.page] = n.page /\ (astray' # "live" => Fits(Shell[n.page])')
    <3>1. n \in navs /\ ~Stale(n) /\ Here' = Here /\ asked' = asked
      BY <1>1, <1>6, <2>3 DEF Here
    <3>2. /\ Leads(n.page, asked) /\ (~n.push \/ n.stage = "gap" => Leads(n.page, Here.page))
          /\ n.stage = "gap" => Redirect[n.page] = n.page /\ (astray # "live" => Fits(Shell[n.page]))
      BY <1>i, <3>1 DEF NavInv
    <3>3. astray' # "live" /\ Fits(Shell[n.page]) => Fits(Shell[n.page])'
      BY <1>3 DEF Fits
    <3> QED
      BY <1>3, <3>1, <3>2, <3>3 DEF Leads
  <2> QED
    BY <2>1, <2>2, <2>3 DEF NavInv, Leads
<1>8. Settled' <=> Settled
  BY <1>1, <1>6 DEF Settled
<1>9. RestInv'
  BY <1>i, <1>1, <1>3, <1>8 DEF RestInv, Here
<1> QED
  BY <1>4, <1>5, <1>7, <1>9 DEF Inv

\* The entry one is at, or goes to, is loaded.
LEMMA LoadEntryDoes ==
    ASSUME TypeInv, NEW i \in DOMAIN entries, LoadEntry(i), router' = router, asked' = entries[i].page
    PROVE  Inv'
<1>1. entries[i] \in Entry /\ entries[i].page \in Pages
  BY EntryIs
<1>2. PICK e : e = [entries[i] EXCEPT !.page = Redirect[@]]
  OBVIOUS
<1>3. e \in Entry /\ e.page = Redirect[entries[i].page]
  BY <1>1, <1>2, Redirects DEF Entry
<1>4. at' = i /\ entries' = [entries EXCEPT ![i] = e] /\ Loaded(entries[i].page)
  BY <1>2 DEF LoadEntry
<1>5. HistoryOK /\ entries'[at'] = e
  BY <1>3, <1>4, ReplacedDoes DEF HistoryOK
<1> QED
  BY <1>1, <1>3, <1>4, <1>5, LoadedDoes DEF Leads
-----------------------------------------------------------------------------
LEMMA NavigationInit == Init => Inv
<1> SUFFICES ASSUME Init PROVE Inv
  OBVIOUS
<1>1. PICK p \in Pages : /\ Redirect[p] = p /\ router \in Routers
                        /\ entries = <<[page |-> p, hash |-> FALSE, doc |-> 0]>> /\ at = 1
                        /\ shown = p /\ shell = Shell[p] /\ loads = 0
                        /\ token = 0 /\ lastPage = p /\ navs = {} /\ live = NoLive
                        /\ asked = p /\ astray = "no"
  BY DEF Init
<1>2. PICK e \in Entry : e = [page |-> p, hash |-> FALSE, doc |-> 0]
  BY DEF Entry
<1>3. entries = <<e>> /\ Here = e /\ e.page = p
  BY <1>1, <1>2 DEF Here
<1>4. entries \in Seq(Entry) /\ at \in DOMAIN entries
  <2>1. <<e>> \in Seq(Entry) /\ 1 \in DOMAIN <<e>>
    BY <1>2
  <2> QED
    BY <1>1, <1>3, <2>1
<1>5. TypeInv
  BY <1>1, <1>4, NavigationAssumption DEF TypeInv, Live
<1> QED
  BY <1>1, <1>3, <1>5 DEF Inv, NavInv, DocInv, RestInv, Leads, NoLive

LEMMA ReaderKeeps == ASSUME Inv, Reader PROVE Inv'
<1>i. TypeInv /\ NavInv /\ DocInv /\ RestInv
  BY DEF Inv
<1>0. Here \in Entry /\ Here.page \in Pages /\ Here.doc \in Nat /\ astray \in {"no", "fragment", "live"} /\ navs \in SUBSET navs
  BY <1>i, HereIs DEF TypeInv, Entry
<1>1. ASSUME NEW p \in Pages, NEW h \in BOOLEAN, Click(p, h) PROVE Inv'
  <2>1. /\ asked' = p /\ Navigate(p, h, TRUE, navs)
        /\ UNCHANGED <<router, entries, at, shown, shell, loads, live, astray, lastPage>>
    BY <1>1 DEF Click, Move, setup, bar, document, Navigate
  <2>2. HistoryOK /\ Unshown /\ Leads(p, asked')
    BY <1>i, <2>1 DEF HistoryOK, Unshown, TypeInv, Leads
  <2>3. asked' \in Pages /\ astray' \in {"no", "fragment", "live"}
    BY <1>0, <2>1
  <2> QED
    BY <1>0, <2>1, <2>2, <2>3, NavigateDoes
<1>2. CASE Jump
  <2>1. /\ asked' = Here.page /\ entries' = Pushed(Here.page, TRUE, Here.doc) /\ at' = at + 1 /\ Popstate(navs)
        /\ UNCHANGED <<router, shown, shell, loads, live, astray>>
    BY <1>2 DEF Jump, Move, setup, document
  <2>2. HistoryOK /\ entries'[at'].page = Here.page
    BY <1>i, <1>0, <2>1, PushedDoes DEF HistoryOK
  <2>3. Leads(entries'[at'].page, asked')
    BY <2>1, <2>2 DEF Leads
  <2>4. asked' \in Pages /\ astray' \in {"no", "fragment", "live"} /\ (astray' = "live" <=> astray = "live")
    BY <1>0, <2>1
  <2> QED
    BY <1>0, <2>1, <2>2, <2>3, <2>4, PopstateDoes
<1>3. ASSUME NEW i \in DOMAIN entries, Traverse(i) PROVE Inv'
  <2>1. router' = router /\ asked' = entries[i].page /\ entries[i].page \in Pages
    BY <1>i, <1>3, EntryIs DEF Traverse, Move, setup
  <2>2. CASE at' = i /\ UNCHANGED entries /\ Popstate(navs) /\ UNCHANGED <<document, live, astray>>
    <3>1. HistoryOK /\ Leads(entries'[at'].page, asked')
      BY <1>i, <2>1, <2>2 DEF HistoryOK, Leads, TypeInv
    <3>2. UNCHANGED <<shown, shell, loads, live, astray>>
      BY <2>2 DEF document
    <3>3. asked' \in Pages /\ astray' \in {"no", "fragment", "live"} /\ (astray' = "live" <=> astray = "live")
      BY <1>0, <2>1, <3>2
    <3> QED
      BY <1>0, <2>1, <2>2, <3>1, <3>2, <3>3, PopstateDoes
  <2>3. CASE LoadEntry(i)
    BY <1>i, <2>1, <2>3, LoadEntryDoes
  <2> QED
    BY <1>3, <2>2, <2>3 DEF Traverse
<1> QED
  BY <1>1, <1>2, <1>3 DEF Reader

LEMMA CallKeeps == ASSUME Inv, NEW n \in navs, Call(n) PROVE Inv'
<1>i. TypeInv /\ NavInv /\ DocInv /\ RestInv
  BY DEF Inv
<1>0. n \in Nav /\ n.page \in Pages /\ n.hash \in BOOLEAN
  BY <1>i DEF TypeInv, Nav
<1>r. Redirect[n.page] \in Pages /\ Leads(Redirect[n.page], n.page) /\ Leads(n.page, n.page)
  BY <1>0, Redirects DEF Leads
<1>p. PICK p \in Pages : p = Redirect[n.page]
  BY <1>r
<1>1. CASE Drop(n)
  BY <1>1, DropDoes
<1>2. CASE Fail(n)
  <2>1. ~Stale(n) /\ UNCHANGED <<router, asked>>
    BY <1>2 DEF Fail, setup
  <2>2. PICK q \in {n.page, Redirect[n.page]} : Assign(q, n.hash, navs \ {n})
    BY <1>2 DEF Fail
  <2>3. q \in Pages /\ Leads(q, n.page)
    BY <1>0, <1>r
  <2> QED
    BY <1>0, <2>1, <2>2, <2>3, AssignDoes
<1>3. CASE Misfit(n)
  <2>1. ~Stale(n) /\ UNCHANGED <<router, asked>> /\ Assign(p, n.hash, navs \ {n}) /\ Leads(p, n.page)
    BY <1>p, <1>r, <1>3 DEF Misfit, setup
  <2> QED
    BY <2>1, AssignDoes
<1>4. CASE Answer(n)
  <2>1. /\ ~Stale(n) /\ Fits(Shell[p]) /\ Leads(p, n.page)
        /\ IF n.push THEN entries' = Pushed(p, n.hash, Here.doc) /\ at' = at + 1 ELSE UNCHANGED bar
        /\ UNCHANGED <<router, live, asked>>
        /\ \/ Applied(p) /\ navs' = navs \ {n}
           \/ /\ navs' = (navs \ {n}) \cup {[n EXCEPT !.stage = "gap", !.page = p]}
              /\ UNCHANGED <<shown, shell, loads, token, lastPage, astray>>
    BY <1>p, <1>r, <1>4 DEF Answer, setup, document
  <2>2. HistoryOK /\ Leads(entries'[at'].page, n.page)
    BY <2>1, MovesHistory
  <2>3. CASE Applied(p) /\ navs' = navs \ {n}
    BY <1>p, <2>1, <2>2, <2>3, AppliedDoes
  <2>4. CASE /\ navs' = (navs \ {n}) \cup {[n EXCEPT !.stage = "gap", !.page = p]}
             /\ UNCHANGED <<shown, shell, loads, token, lastPage, astray>>
    BY <1>p, <2>1, <2>2, <2>4, GapDoes
  <2> QED
    BY <2>1, <2>3, <2>4
<1>5. CASE Transition(n)
  <2>1. /\ ~Stale(n) /\ n.stage = "gap" /\ UNCHANGED <<router, entries, at, live, asked>>
        /\ Applied(n.page) /\ navs' = navs \ {n}
    BY <1>5 DEF Transition, setup, bar
  <2>2. n.page = Redirect[n.page] /\ Leads(n.page, Here.page) /\ (astray # "live" => Fits(Shell[n.page]))
    BY <1>i, <2>1 DEF NavInv
  <2>3. HistoryOK /\ Leads(entries'[at'].page, n.page)
    BY <1>i, <2>1, <2>2 DEF HistoryOK, TypeInv, Leads, Here
  <2> QED
    BY <1>0, <2>1, <2>2, <2>3, AppliedDoes
<1>6. CASE Render(n)
  <2>1. /\ ~Stale(n) /\ router = "flight" /\ UNCHANGED <<router, live, asked>>
        /\ IF n.push THEN entries' = Pushed(n.page, n.hash, Here.doc) /\ at' = at + 1 ELSE UNCHANGED bar
        /\ Applied(p) /\ navs' = navs \ {n}
    BY <1>p, <1>6 DEF Render, setup
  <2>2. HistoryOK /\ Leads(entries'[at'].page, n.page)
    BY <1>0, <1>r, <2>1, MovesHistory
  <2> QED
    BY <1>p, <2>1, <2>2, AppliedDoes
<1> QED
  BY <1>1, <1>2, <1>3, <1>4, <1>5, <1>6 DEF Call

\* A step that leaves all but the live update alone.
LEMMA LiveWaits ==
    ASSUME Inv, live' \in Live, live'.stage = "body" => Redirect[live'.page] = live'.page,
           UNCHANGED <<router, entries, at, shown, shell, loads, token, lastPage, navs, asked, astray>>
    PROVE  Inv'
<1>i. TypeInv /\ NavInv /\ DocInv /\ RestInv
  BY DEF Inv
<1>1. TypeInv'
  BY <1>i DEF TypeInv
<1>2. NavInv'
  BY <1>i DEF NavInv, Stale, Here, Fits
<1>3. DocInv'
  BY <1>i DEF DocInv
<1>4. RestInv'
  BY <1>i DEF RestInv, Settled, Stale, Here
<1> QED
  BY <1>1, <1>2, <1>3, <1>4 DEF Inv

LEMMA LiveKeeps == ASSUME Inv, LiveUpdate PROVE Inv'
<1>i. TypeInv /\ DocInv
  BY DEF Inv
<1>0. Here.page \in Pages /\ at \in DOMAIN entries
  BY <1>i, HereIs DEF TypeInv
<1>1. CASE LiveFetch
  <2>1. live' = [stage |-> "fetch", page |-> Here.page]
    BY <1>1 DEF LiveFetch
  <2>2. live' \in Live /\ live'.stage # "body"
    BY <1>0, <2>1 DEF Live
  <2> QED
    BY <1>1, <2>2, LiveWaits DEF LiveFetch, setup, bar, document, script
<1>2. CASE LiveCheck
  <2>1. live.page \in Pages
    BY <1>i, <1>2 DEF LiveCheck, TypeInv, Live, NoLive
  <2>2. PICK p \in Pages : p = Redirect[live.page] /\ Redirect[p] = p
    BY <2>1, Redirects
  <2>3. live' = [stage |-> "body", page |-> p]
    BY <1>2, <2>2 DEF LiveCheck
  <2>4. live' \in Live /\ Redirect[live'.page] = live'.page
    BY <2>2, <2>3 DEF Live
  <2> QED
    BY <1>2, <2>4, LiveWaits DEF LiveCheck, setup, bar, document, script
<1>3. CASE LiveReload
  <2>1. LoadEntry(at) /\ asked' = entries[at].page /\ router' = router
    BY <1>3 DEF LiveReload, Here, setup
  <2> QED
    BY <1>i, <1>0, <2>1, LoadEntryDoes
<1>4. CASE LiveApply
  BY <1>4, LiveApplyDoes
<1> QED
  BY <1>1, <1>2, <1>3, <1>4 DEF LiveUpdate

LEMMA NavigationNext == Inv /\ [Next]_vars => Inv'
<1> SUFFICES ASSUME Inv, [Next]_vars PROVE Inv'
  OBVIOUS
<1>1. CASE Reader
  BY <1>1, ReaderKeeps
<1>2. CASE Router
  BY <1>2, CallKeeps DEF Router
<1>3. CASE LiveUpdate
  BY <1>3, LiveKeeps
<1>4. CASE UNCHANGED vars
  <2>1. UNCHANGED <<router, entries, at, shown, shell, loads, token, lastPage, navs, live, asked, astray>>
    BY <1>4 DEF vars, setup, bar, document, script
  <2>2. live' \in Live /\ (live'.stage = "body" => Redirect[live'.page] = live'.page)
    BY <2>1 DEF Inv, TypeInv, DocInv
  <2> QED
    BY <2>1, <2>2, LiveWaits
<1> QED
  BY <1>1, <1>2, <1>3, <1>4 DEF Next, Rest

LEMMA Navigates == Spec => []Inv
  BY NavigationInit, NavigationNext, PTL DEF Spec

\* Whenever no navigation is under way, the document shows the page its URL leads to, in
\* its shell, unless the code went one of the two ways astray.
THEOREM LocationIsShown == Spec => []ShowsLocation
<1>1. Inv => ShowsLocation
  BY DEF Inv, DocInv, RestInv, ShowsLocation, Leads
<1> QED
  BY <1>1, Navigates, PTL

\* Of several navigations the one asked for last is the one the reader ends up with: the
\* generation of navigate() makes every other answer stale.
THEOREM LastNavigationWins == Spec => []LastAskedWins
<1>1. Inv => LastAskedWins
  BY DEF Inv, RestInv, LastAskedWins, Leads
<1> QED
  BY <1>1, Navigates, PTL
=============================================================================
