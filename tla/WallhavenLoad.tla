---------------------------- MODULE WallhavenLoad ----------------------------
(***************************************************************************)
(* Loading a page of web results in the picker: the thread of the user     *)
(* interface, which must stay responsive, and the worker thread it starts  *)
(* (start_wallhaven_load and finish_wallhaven_load_if_ready of             *)
(* picker/wayland_app.cpp).  They share two atomic flags, a result behind  *)
(* a mutex, and the table wallhaven_cache, which other processes fill too. *)
(*                                                                         *)
(* A search is the query, the sort and the purity together; what the       *)
(* server answers is any set of entries.  The status line, the selection   *)
(* and the preview pictures are left out.                                  *)
(***************************************************************************)
EXTENDS Naturals, FiniteSets

CONSTANTS
  Searches, \* searches the user makes
  Queried,  \* those with a query of the user's
  Entries,  \* what the server can answer
  MaxPage   \* bound: the last page asked for

ASSUME SearchesAssumption == Queried \subseteq Searches /\ Searches # Queried
ASSUME EntriesAssumption == IsFiniteSet(Entries)
ASSUME MaxPageAssumption == MaxPage \in Nat \ {0}

VARIABLES
  ui,      \* where the thread of the user interface is
  req,     \* the page start_wallhaven_load is to load
  web,     \* wallhaven_mode_
  page,    \* wallhaven_page_
  search,  \* query_, wallhaven_sort_, wallhaven_sfw_
  loading, \* wallhaven_loading_
  done,    \* wallhaven_done_
  pending, \* wallhaven_pending_*, and whether the worker wrote it
  thread,  \* wallhaven_worker_: where the worker is, "none" when not joinable
  job,     \* what the worker loads
  before,  \* the worker's count of the cached entries
  rest,    \* entries the worker has still to store
  cache,   \* the rows of wallhaven_cache
  added,   \* history: rows the worker added
  others,  \* history: somebody else added rows meanwhile
  fetched, \* history: the pages loaded since the search was last changed
  mixed    \* history: the search was changed, and the page was not

flags == <<loading, done, pending>>
worker == <<thread, job, before, rest, added, others>>
vars == <<ui, req, web, page, search, flags, worker, cache, fetched, mixed>>

\* The worker has not reported yet.
Busy == thread \in {"count", "fetch", "store"}
Joinable == thread # "none"

-----------------------------------------------------------------------------
(* Bugs the properties are tried against.                                  *)

\* wallhaven_done_ is not cleared.
BugCleared == done

\* A worker is started without joining the last one.
BugCanJoin == TRUE

\* The flag is only set for a load that succeeded.
BugReported == pending.success

\* A join waits for the flag to be cleared.
BugEnded == thread \in {"none", "ended"} /\ ~done

\* The page counter goes up when a page is asked for.
BugAsked == page + 1

\* A page without new results counts.
BugFinishedPage == job.page

-----------------------------------------------------------------------------
Init == /\ ui = "loop"
        /\ req = 1
        /\ web = FALSE
        /\ page = 1
        /\ search \in Searches \ Queried
        /\ loading = FALSE
        /\ done = FALSE
        /\ pending = [success |-> FALSE, page |-> 1, written |-> FALSE]
        /\ thread = "none"
        /\ job = [search |-> search, page |-> 1]
        /\ before = 0
        /\ rest = {}
        /\ cache \in SUBSET Entries
        /\ added = {}
        /\ others = FALSE
        /\ fetched = {}
        /\ mixed = FALSE

-----------------------------------------------------------------------------
(* The thread of the user interface.                                       *)

\* start_wallhaven_load(p), up to the join: refused while a load goes on.
Begin(p) == /\ IF loading THEN UNCHANGED <<ui, req>>
               ELSE ui' = "join" /\ req' = p
            /\ UNCHANGED <<flags, worker, cache>>

\* load_wallhaven shows what is cached, unless there is a query or nothing.
LoadWallhaven == /\ ui = "loop"
                 /\ IF search \notin Queried /\ cache # {}
                    THEN web' = TRUE /\ UNCHANGED <<ui, req, flags, worker, cache>>
                    ELSE Begin(1) /\ UNCHANGED web
                 /\ UNCHANGED <<page, search, fetched, mixed>>

\* The counter while page + 1 is being loaded.
Asked == page

LoadNextPage == /\ ui = "loop"
                /\ web
                /\ page < MaxPage
                /\ Begin(page + 1)
                /\ page' = Asked
                /\ UNCHANGED <<web, search, fetched, mixed>>

\* set_wallhaven_sort, and the button for the purity: both take effect even
\* when the load is refused.
ChangeSort(s) == /\ ui = "loop"
                 /\ s \in Queried <=> search \in Queried
                 /\ search' = s
                 /\ page' = 1
                 /\ fetched' = {}
                 /\ mixed' = loading
                 /\ Begin(1)
                 /\ UNCHANGED web

\* set_query: the page is the one of the query before.
SetQuery(s) == /\ ui = "loop"
               /\ s # search
               /\ search' = s
               /\ fetched' = {}
               /\ mixed' = TRUE
               /\ UNCHANGED <<ui, req, web, page, flags, worker, cache>>

ShowLocal == /\ ui = "loop"
             /\ web' = FALSE
             /\ UNCHANGED <<ui, req, page, search, flags, worker, cache, fetched, mixed>>

\* join returns when the worker has ended, and at once when there is none.
Ended == thread \in {"none", "ended"}
CanJoin == Ended

Join == /\ ui = "join"
        /\ CanJoin
        /\ ui' = "spawn"
        /\ thread' = IF thread = "ended" THEN "none" ELSE thread
        /\ UNCHANGED <<req, web, page, search, flags, job, before, rest, added, others,
                       cache, fetched, mixed>>

\* The flags for a new load.
Cleared == FALSE

Spawn == /\ ui = "spawn"
         /\ ui' = "loop"
         /\ req' = 1
         /\ web' = TRUE
         /\ pending' = [success |-> FALSE, page |-> req, written |-> FALSE]
         /\ done' = Cleared
         /\ loading' = TRUE
         /\ thread' = "count"
         /\ job' = [search |-> search, page |-> req]
         /\ added' = {}
         /\ others' = FALSE
         /\ UNCHANGED <<page, search, before, rest, cache, fetched, mixed>>

\* finish_wallhaven_load_if_ready, which every turn of the loop calls.
SeeDone == /\ ui = "loop"
           /\ done
           /\ ui' = "finish"
           /\ UNCHANGED <<req, web, page, search, flags, worker, cache, fetched, mixed>>

Finish == /\ ui = "finish"
          /\ Ended
          /\ ui' = "loop"
          /\ thread' = "none"
          /\ page' = IF pending.success THEN pending.page ELSE page
          /\ done' = FALSE
          /\ mixed' = (mixed /\ page' # 1)
          /\ UNCHANGED <<req, web, search, loading, pending, job, before, rest, added, others,
                         cache, fetched>>

\* The user leaves: cleanup waits for the worker, whatever it does.
Quit == /\ ui = "loop"
        /\ ui' = "cleanup"
        /\ UNCHANGED <<req, web, page, search, flags, worker, cache, fetched, mixed>>

Cleanup == /\ ui = "cleanup"
           /\ Ended
           /\ ui' = "exited"
           /\ thread' = "none"
           /\ UNCHANGED <<req, web, page, search, flags, job, before, rest, added, others,
                          cache, fetched, mixed>>

-----------------------------------------------------------------------------
(* The worker.                                                             *)

uiVars == <<ui, req, web, page, search, mixed>>

Count == /\ thread = "count"
         /\ thread' = "fetch"
         /\ before' = Cardinality(cache)
         /\ UNCHANGED <<uiVars, flags, job, rest, added, others, cache, fetched>>

\* The answer of the server, within the timeout of the request.
Fetch == /\ thread = "fetch"
         /\ thread' = "store"
         /\ rest' \in SUBSET Entries
         /\ UNCHANGED <<uiVars, flags, job, before, added, others, cache, fetched>>

\* One entry, a transaction of its own.
Store(e) == /\ thread = "store"
            /\ rest' = rest \ {e}
            /\ cache' = cache \cup {e}
            /\ added' = added \cup ({e} \ cache)
            /\ UNCHANGED <<uiVars, flags, thread, job, before, others, fetched>>

\* What a load without new entries makes of its page.
FinishedPage == IF job.page > 1 /\ Cardinality(cache) <= before THEN job.page - 1
                ELSE job.page

\* The result is written and wallhaven_loading_ cleared, under the mutex.
Publish == /\ thread = "store"
           /\ rest = {}
           /\ thread' = "signal"
           /\ pending' = [success |-> TRUE, page |-> FinishedPage, written |-> TRUE]
           /\ loading' = FALSE
           /\ fetched' = IF job.search = search THEN fetched \cup {job.page} ELSE fetched
           /\ before' = 0
           /\ UNCHANGED <<uiVars, done, job, rest, added, others, cache>>

\* The request or the database fails at any of these steps.
Fails == /\ Busy
         /\ thread' = "signal"
         /\ pending' = [success |-> FALSE, page |-> job.page, written |-> TRUE]
         /\ loading' = FALSE
         /\ rest' = {}
         /\ before' = 0
         /\ UNCHANGED <<uiVars, done, job, added, others, cache, fetched>>

\* wallhaven_done_ is set, and the thread ends.
Reported == TRUE

Signal == /\ thread = "signal"
          /\ thread' = "ended"
          /\ done' = Reported
          /\ UNCHANGED <<uiVars, loading, pending, job, before, rest, added, others,
                         cache, fetched>>

-----------------------------------------------------------------------------
(* The environment.                                                        *)

\* vibewall wallhaven search in a terminal, or another picker.
OtherSearch(e) == /\ e \notin cache
                  /\ cache' = cache \cup {e}
                  /\ others' = TRUE
                  /\ UNCHANGED <<uiVars, flags, thread, job, before, rest, added, fetched>>

\* The picker is started again, after it ended or was killed.
Restart == /\ ui' = "loop"
           /\ req' = 1
           /\ web' = FALSE
           /\ page' = 1
           /\ search' \in Searches \ Queried
           /\ loading' = FALSE
           /\ done' = FALSE
           /\ pending' = [success |-> FALSE, page |-> 1, written |-> FALSE]
           /\ thread' = "none"
           /\ job' = [search |-> search', page |-> 1]
           /\ before' = 0
           /\ rest' = {}
           /\ added' = {}
           /\ others' = FALSE
           /\ fetched' = {}
           /\ mixed' = FALSE
           /\ UNCHANGED cache

UiStep == Join \/ Spawn \/ Finish \/ Cleanup
WorkerStep == Count \/ Fetch \/ (\E e \in rest : Store(e)) \/ Publish \/ Fails \/ Signal

Next == \/ LoadWallhaven \/ LoadNextPage \/ ShowLocal \/ SeeDone \/ Quit \/ Restart
        \/ \E s \in Searches : ChangeSort(s) \/ SetQuery(s)
        \/ UiStep \/ WorkerStep
        \/ \E e \in Entries : OtherSearch(e)

\* The loop runs at least every 250 ms; the requests of the worker have timeouts.
Fairness == WF_vars(UiStep) /\ WF_vars(SeeDone) /\ WF_vars(WorkerStep)

Spec == Init /\ [][Next]_vars /\ Fairness

-----------------------------------------------------------------------------
(* Properties.                                                             *)

TypeOK == /\ ui \in {"loop", "join", "spawn", "finish", "cleanup", "exited"}
          /\ req \in 1..MaxPage
          /\ web \in BOOLEAN
          /\ page \in 1..MaxPage
          /\ search \in Searches
          /\ loading \in BOOLEAN
          /\ done \in BOOLEAN
          /\ pending \in [success : BOOLEAN, page : 1..MaxPage, written : BOOLEAN]
          /\ thread \in {"none", "count", "fetch", "store", "signal", "ended"}
          /\ job \in [search : Searches, page : 1..MaxPage]
          /\ before \in Nat
          /\ rest \subseteq Entries
          /\ cache \subseteq Entries
          /\ added \subseteq Entries
          /\ others \in BOOLEAN
          /\ fetched \subseteq 1..MaxPage
          /\ mixed \in BOOLEAN

\* The event loop joins a worker only once that has its result: a load that goes on
\* never holds the interface, except in cleanup, which waits for it
\* (wayland_app.cpp:640).  That is all it says of waiting: a download of the selected
\* picture runs on the interface thread (wayland_app.cpp:252) and is not in this module.
InterfaceNeverWaitsForALoad == ui \in {"join", "finish"} => ~Busy

\* No running or unjoined thread is assigned to, which would end the program,
\* and none is left behind when the picker exits.
WorkerIsJoinedFirst == ui \in {"spawn", "exited"} => ~Joinable

\* What finish_wallhaven_load_if_ready takes over is the result of the load that
\* was started last, and complete.
FinishTakesTheLastLoad == ui = "finish" => pending.written /\ ~loading

\* A page of the results is not left out: as long as no search was changed under
\* the page counter, every page from the second on was loaded before it counts,
\* also after loads that failed, were refused or whose result was dropped.
NoPageIsSkipped == ~mixed => 2..page \subseteq fetched

\* The counter stays ("NO MORE RESULTS") exactly when the page brought nothing new
\* and nobody else added a row while it was loaded.
PageCountsNewResults ==
  pending.written /\ pending.success /\ job.page > 1 /\ thread # "none" =>
    IF pending.page = job.page THEN added # {} \/ others
    ELSE pending.page = job.page - 1 /\ added = {}

\* Every load ends, is joined and its result taken over or replaced.
EveryLoadEnds == Joinable ~> ~Joinable

\* Leaving the picker ends it, although a load may still be going on.
QuitEnds == ui = "cleanup" ~> ui # "cleanup"
=============================================================================
