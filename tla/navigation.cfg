\* Both routers, clicks and traversals at any moment, failing fetches, live updates.
SPECIFICATION FairSpec
CONSTANTS
  Pages <- MCPages
  Redirect <- MCRedirect
  Shell <- MCShell
  Routers = {"morph", "flight"}
  MaxMoves = 3
  MaxFailures = 1
  MaxLive = 1
  MaxToken = 3
INVARIANTS ShowsLocation LastAskedWins
PROPERTY AskedIsShown
