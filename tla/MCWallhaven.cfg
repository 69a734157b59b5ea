\* Three pages, two searches of which one has a query, two entries of the server.
SPECIFICATION Spec
CONSTANTS
  Searches = {s1, s2, q1}
  Queried = {q1}
  Entries = {e1, e2}
  MaxPage = 3
INVARIANTS InterfaceNeverWaitsForALoad WorkerIsJoinedFirst FinishTakesTheLastLoad NoPageIsSkipped PageCountsNewResults
PROPERTIES EveryLoadEnds QuitEnds
