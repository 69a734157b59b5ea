------------------------------ MODULE Gallery ------------------------------
(***************************************************************************)
(* What the picker lists, and what it acts on (load_wallpapers, redraw and *)
(* the handlers of picker/wayland_app.cpp, with core/filters.cpp and the   *)
(* queries of core/database.cpp).  The list is a copy of the tables, made  *)
(* when a handler says that the data is dirty; meanwhile scans, searches   *)
(* and the command line write the tables.  A wallpaper is selected by its  *)
(* index.                                                                  *)
(*                                                                         *)
(* A filter is what it lets pass, a time of the cache the number of the    *)
(* answer it belongs to.  The protocol of the worker is in WallhavenLoad,  *)
(* scrolling and the modes are in Viewport; the status line, the           *)
(* background and a configuration without Wallhaven are left out.          *)
(***************************************************************************)
EXTENDS Integers, Subsequences, SequencesExt

CONSTANTS
  Wallpapers, \* files a scan can index
  Videos,     \* those with a row of type video
  Coloured,   \* those of the colour group that can be asked for
  Types,      \* type filters that are used
  Colours,    \* colour filters that are used, of which there is "one"
  Named,      \* those whose name or path contains what the user types
  Entries,    \* what the server can answer
  PageSize,   \* entries of an answer
  Cap,        \* entries the picker lists
  MaxAnswers  \* bound: answers of the server

ASSUME WallpapersAssumption ==
  /\ Videos \cup Coloured \cup Named \subseteq Wallpapers
  /\ Wallpapers \cap Entries = {}
ASSUME EntriesAssumption == IsFiniteSet(Entries)
ASSUME CapAssumption == PageSize \in Nat /\ Cap \in Nat /\ PageSize <= Cap
ASSUME FiltersAssumption == Types \subseteq {"image", "video"} /\ Colours \subseteq {"one"}
ASSUME AnswersAssumption == MaxAnswers \in Nat

NoFilter == [type |-> "all", colour |-> "all", query |-> "", favorites |-> FALSE]

\* The worker of the picker, and `vibewall wallhaven search`.
Searchers == {"worker", "cli"}

VARIABLES
  rows,      \* the table wallpapers, in the order of list_wallpapers
  starred,   \* the rows with favorite = 1
  cached,    \* cached[e]: cached_at of entry e, 0 without a row
  previews,  \* entries whose row names a preview that exists
  answers,   \* the answers of the server so far
  at,        \* at[s]: the step of searcher s
  time,      \* time[s]: cached_at of the entries s stores
  found,     \* found[s]: the entries of the answer
  rest,      \* rest[s]: those s has still to store
  ui,        \* "loop", or "ended"
  searching, \* search_active_
  web,       \* wallhaven_mode_
  filter,    \* type_filter_, color_filter_, query_, favorites_only_
  list,      \* wallpapers_
  selected,  \* selected_
  seen,      \* what the last frame showed: the items and the selected index
  behind,    \* history: others have written the tables since the list was made
  crossed,   \* history: somebody else stored entries during the load
  fresh      \* history: the entries of the last load, if nobody stored others since

tables == <<rows, starred, cached, previews, answers>>
searches == <<at, time, found, rest>>
view == <<searching, web, filter, list, selected, seen>>
vars == <<tables, searches, ui, view, behind, crossed, fresh>>

-----------------------------------------------------------------------------
(* matches_filter and the two lists.                                       *)

RowType(w) == IF w \in Videos THEN "video" ELSE "image"

Passes(w, favorite, f) == /\ f.query # "" => w \in Named
                          /\ f.type \in {"all", RowType(w)}
                          /\ f.colour # "all" => w \in Coloured
                          /\ f.favorites => favorite

Item(x, favorite) == [item |-> x, favorite |-> favorite]

LocalList(f, stars) ==
  LET passing == Selected(rows, {i \in DOMAIN rows : Passes(rows[i], rows[i] \in stars, f)})
  IN  [i \in 1..Len(passing) |-> Item(passing[i], passing[i] \in stars)]

\* A bug the properties are tried against: the oldest entries are the first.
BugNewer(a, b) == cached[a] <= cached[b]

\* cached_wallhaven is ordered by cached_at DESC; entries of one time come in any order.
Newer(a, b) == cached[a] >= cached[b]
NewestFirst(S) == {s \in SetToSeqs(S) : \A i, j \in 1..Len(s) : i < j => Newer(s[i], s[j])}

Shortest(n, m) == IF n < m THEN n ELSE m

WebLists == {[i \in 1..Shortest(Cap, Len(s)) |-> Item(s[i], FALSE)] : s \in NewestFirst(previews)}

Listings(inWeb, f, stars) == IF inWeb THEN WebLists ELSE {LocalList(f, stars)}

Items(l) == [i \in 1..Len(l) |-> l[i].item]
Listed == {list[i].item : i \in 1..Len(list)}

\* A bug the properties are tried against: a shorter list is not noticed.
BugClamped(sel, n) == sel

Clamped(sel, n) == IF sel < n THEN sel ELSE IF n = 0 THEN 0 ELSE n - 1

\* redraw, and redraw of dirty data.
Draw(l, sel) == /\ list' = l
                /\ selected' = sel
                /\ seen' = [items |-> Items(l), at |-> sel]
Redraw(sel) == Draw(list, sel) /\ UNCHANGED behind
ReloadWith(stars, sel) ==
  /\ \E l \in Listings(web', filter', stars) : Draw(l, Clamped(sel, Len(l)))
  /\ behind' = FALSE
Reload(sel) == ReloadWith(starred, sel)

\* Searcher s has ended.
Idle(s) == /\ at' = [at EXCEPT ![s] = "idle"]
           /\ time' = [time EXCEPT ![s] = 0]
           /\ found' = [found EXCEPT ![s] = {}]
           /\ rest' = [rest EXCEPT ![s] = {}]

Loading == at["worker"] \in {"fetch", "store"}

-----------------------------------------------------------------------------
(* Bugs the properties are tried against.                                  *)

\* The list is made when the results are there, and drawn by the next handler.
BugFinish == /\ ui = "loop"
             /\ at["worker"] \in {"done", "failed"}
             /\ Idle("worker")
             /\ fresh' = IF at["worker"] = "done" /\ ~crossed THEN found["worker"] ELSE fresh
             /\ \E l \in Listings(web, filter, starred) : list' = l
             /\ behind' = FALSE
             /\ UNCHANGED <<tables, ui, searching, web, filter, selected,
                            seen, crossed>>

\* The star of a list of favourites is not taken for a change of the list.
BugChangesTheList == FALSE

-----------------------------------------------------------------------------
(* A new picker, on tables others may have filled.                         *)

Fresh == /\ ui' = "loop"
         /\ searching' = FALSE
         /\ web' = FALSE
         /\ filter' = NoFilter
         /\ Reload(0)

Init == /\ rows = <<>>
        /\ starred = {}
        /\ cached = [e \in Entries |-> 0]
        /\ previews = {}
        /\ answers = 0
        /\ at = [s \in Searchers |-> "idle"]
        /\ time = [s \in Searchers |-> 0]
        /\ found = [s \in Searchers |-> {}]
        /\ rest = [s \in Searchers |-> {}]
        /\ ui = "loop"
        /\ searching = FALSE
        /\ web = FALSE
        /\ filter = NoFilter
        /\ list = <<>>
        /\ selected = 0
        /\ seen = [items |-> <<>>, at |-> 0]
        /\ behind = FALSE
        /\ crossed = FALSE
        /\ fresh = {}

\* running_ is cleared; or the picker is killed, and its worker with it.
Ended == ui' = "ended" /\ UNCHANGED <<view, behind>>
Quit == ui = "loop" /\ Ended /\ UNCHANGED <<tables, searches, crossed, fresh>>
Killed == /\ ui = "loop"
          /\ Ended
          /\ Idle("worker")
          /\ UNCHANGED <<tables, crossed, fresh>>

\* The next picker; the last one has waited for its worker.
Restart == /\ ui = "ended"
           /\ ~Loading
           /\ Idle("worker")
           /\ Fresh
           /\ UNCHANGED <<tables, crossed, fresh>>

-----------------------------------------------------------------------------
(* The handlers of the picker's own state.                                 *)

Handler == ui = "loop"
KeepTables == UNCHANGED <<tables, searches, ui, crossed, fresh>>

\* set_type_filter and set_color_filter, with a filter of local wallpapers.
SetTypeFilter(t) == /\ Handler
                    /\ web' = FALSE
                    /\ filter' = [filter EXCEPT !.type = t]
                    /\ UNCHANGED searching
                    /\ Reload(0)
                    /\ KeepTables
SetColorFilter(c) == /\ Handler
                     /\ web' = FALSE
                     /\ filter' = [filter EXCEPT !.colour = c]
                     /\ UNCHANGED searching
                     /\ Reload(0)
                     /\ KeepTables

FavoriteFilter == /\ Handler
                  /\ filter' = [filter EXCEPT !.favorites = ~@]
                  /\ UNCHANGED <<web, searching>>
                  /\ Reload(0)
                  /\ KeepTables

ShowLocal == /\ Handler
             /\ web' = FALSE
             /\ UNCHANGED <<filter, searching>>
             /\ Reload(0)
             /\ KeepTables

\* The slash, and the button that also redraws.
BeginSearch == /\ Handler
               /\ searching' = TRUE
               /\ Redraw(selected)
               /\ UNCHANGED <<web, filter>>
               /\ KeepTables

\* set_query: a key that types or deletes, and Escape.
SetQuery(q, stays) == /\ Handler
                      /\ searching
                      /\ searching' = stays
                      /\ filter' = [filter EXCEPT !.query = q]
                      /\ UNCHANGED web
                      /\ Reload(0)
                      /\ KeepTables
Type == \E q \in {"", "typed"} : SetQuery(q, TRUE)
Escape == SetQuery("", FALSE)

\* Every handler that ends in a redraw alone: a mode, an apply or a download that
\* failed, a local wallpaper the web actions do not apply to, a refused load.
Refresh == /\ Handler
           /\ Redraw(selected)
           /\ UNCHANGED <<web, filter, searching>>
           /\ KeepTables

\* move_selection inside the list.
MoveSelection(i) == /\ Handler
                    /\ Redraw(i)
                    /\ UNCHANGED <<web, filter, searching>>
                    /\ KeepTables

-----------------------------------------------------------------------------
(* The handlers that act on a wallpaper.                                   *)

\* apply_selected and apply_random: the picker closes (close_on_selection), or its
\* data is dirty; after a web wallpaper it is not marked.
Applied(i) == \/ Ended
              \/ /\ UNCHANGED <<ui, web, filter, searching>>
                 /\ IF list[i + 1].item \in Entries THEN Redraw(i) ELSE Reload(i)

ApplyAt(i) == /\ Handler
              /\ i < Len(list)
              /\ Applied(i)
              /\ UNCHANGED <<tables, searches, crossed, fresh>>

\* A click on a card selects it, and applies it when it is a local one.
Click(i) == /\ Handler
            /\ i < Len(list)
            /\ list[i + 1].item \in Entries
            /\ Redraw(i)
            /\ UNCHANGED <<web, filter, searching>>
            /\ KeepTables

ApplyRandom == /\ Handler
               /\ rows # <<>>
               /\ \/ Ended
                  \/ UNCHANGED <<ui, web, filter, searching>> /\ Reload(selected)
               /\ UNCHANGED <<tables, searches, crossed, fresh>>

\* toggle_favorite_at: the new flag comes from the copy, and goes to both.
ChangesTheList == filter.favorites

ToggleFavoriteAt(i) ==
  /\ Handler
  /\ i < Len(list)
  /\ list[i + 1].item \in Wallpapers
  /\ LET w == list[i + 1].item
         next == ~list[i + 1].favorite
     IN  /\ starred' = IF next THEN starred \cup {w} ELSE starred \ {w}
         /\ web' = web /\ filter' = filter
         /\ IF ChangesTheList THEN ReloadWith(starred', i)
            ELSE Draw([list EXCEPT ![i + 1].favorite = next], i) /\ UNCHANGED behind
  /\ UNCHANGED <<rows, cached, previews, answers, searches, ui, searching, crossed, fresh>>

-----------------------------------------------------------------------------
(* Web results.                                                            *)

\* start_wallhaven_load, when no load goes on; the results of one whose end has
\* not been seen are dropped, and are in the cache.
StartLoad(sel) ==
  /\ ~Loading
  /\ web' = TRUE
  /\ filter' = [filter EXCEPT !.type = "all", !.colour = "all"]
  /\ at' = [at EXCEPT !["worker"] = "fetch"]
  /\ time' = [time EXCEPT !["worker"] = 0]
  /\ found' = [found EXCEPT !["worker"] = {}]
  /\ crossed' = FALSE
  /\ fresh' = {}
  /\ Reload(sel)
  /\ UNCHANGED <<tables, rest, ui>>

\* load_wallhaven: without a query the cache will do.
FromCache == filter.query = "" /\ \E e \in Entries : cached[e] > 0

ShowCache == /\ FromCache
             /\ web' = TRUE
             /\ filter' = [filter EXCEPT !.type = "all", !.colour = "all"]
             /\ Reload(0)
             /\ KeepTables

LoadWallhaven == /\ Handler
                 /\ ShowCache \/ (~FromCache /\ StartLoad(0))
                 /\ UNCHANGED searching

\* Enter ends the search: of the web, or of the local list that shows it already.
EnterSearch == /\ Handler
               /\ searching
               /\ searching' = FALSE
               /\ IF web THEN \/ ShowCache
                              \/ ~FromCache /\ StartLoad(0)
                              \/ ~FromCache /\ Loading /\ Redraw(selected)
                                 /\ UNCHANGED <<web, filter>> /\ KeepTables
                  ELSE Redraw(selected) /\ UNCHANGED <<web, filter>> /\ KeepTables

\* The sort and the purity buttons, and the next page, which keeps the view.
ChangeSort == Handler /\ StartLoad(0) /\ UNCHANGED searching
NextPage == /\ Handler
            /\ web
            /\ StartLoad(selected) \/ (list # <<>> /\ StartLoad(Len(list) - 1))
            /\ UNCHANGED searching

\* finish_wallhaven_load_if_ready.
Finish == /\ Handler
          /\ at["worker"] \in {"done", "failed"}
          /\ Idle("worker")
          /\ fresh' = IF at["worker"] = "done" /\ ~crossed THEN found["worker"] ELSE fresh
          /\ web' = web /\ filter' = filter
          /\ Reload(selected)
          /\ UNCHANGED <<tables, ui, searching, crossed>>

-----------------------------------------------------------------------------
(* cache_wallhaven_search, of the worker and of the command line.          *)

BeginCli == /\ at["cli"] = "idle"
            /\ at' = [at EXCEPT !["cli"] = "fetch"]
            /\ UNCHANGED <<tables, time, found, rest, ui, view, behind, crossed, fresh>>

\* The answer is parsed: all its entries get the time of now.  unix_time_now counts
\* seconds; here each answer has a time of its own, later than those before.  Two
\* answers in one second, or a clock that is set back, are left out.
Fetch(s) ==
  /\ at[s] = "fetch"
  /\ answers < MaxAnswers
  /\ answers' = answers + 1
  /\ time' = [time EXCEPT ![s] = answers + 1]
  /\ \E S \in SUBSET Entries : /\ Cardinality(S) <= PageSize
                               /\ found' = [found EXCEPT ![s] = S]
                               /\ rest' = [rest EXCEPT ![s] = S]
  /\ at' = [at EXCEPT ![s] = "store"]
  /\ UNCHANGED <<rows, starred, cached, previews, ui, view, behind, crossed, fresh>>

\* The upsert replaces the time and the preview of a row that is there.
Store(s, e) ==
  /\ at[s] = "store"
  /\ e \in rest[s]
  /\ rest' = [rest EXCEPT ![s] = @ \ {e}]
  /\ cached' = [cached EXCEPT ![e] = time[s]]
  /\ previews' \in {previews \cup {e}, previews \ {e}}
  /\ behind' = TRUE
  /\ crossed' = (crossed \/ s = "cli")
  /\ fresh' = IF s = "cli" THEN {} ELSE fresh
  /\ UNCHANGED <<rows, starred, answers, at, time, found, ui, view>>

SearchEnds(s) == /\ at[s] = "store"
                 /\ rest[s] = {}
                 /\ IF s = "cli" THEN Idle(s)
                    ELSE at' = [at EXCEPT ![s] = "done"] /\ UNCHANGED <<time, found, rest>>
                 /\ UNCHANGED <<tables, ui, view, behind, crossed, fresh>>

SearchFails(s) == /\ at[s] \in {"fetch", "store"}
                  /\ IF s = "cli" THEN Idle(s)
                     ELSE /\ at' = [at EXCEPT ![s] = "failed"]
                          /\ rest' = [rest EXCEPT ![s] = {}]
                          /\ UNCHANGED <<time, found>>
                  /\ UNCHANGED <<tables, ui, view, behind, crossed, fresh>>

-----------------------------------------------------------------------------
(* Other processes.                                                        *)

\* A scan indexes w, which comes where its time and its name put it.
Indexed(w) == /\ \A i \in 1..Len(rows) : rows[i] # w
              /\ \E i \in 1..(Len(rows) + 1) : rows' = InsertAt(rows, i, w)
              /\ behind' = TRUE
              /\ UNCHANGED <<starred, cached, previews, answers, searches, ui, view, crossed, fresh>>

\* vibewall favorite.
Favorite(w) == /\ \E i \in 1..Len(rows) : rows[i] = w
               /\ starred' \in {starred \cup {w}, starred \ {w}} \ {starred}
               /\ behind' = TRUE
               /\ UNCHANGED <<rows, cached, previews, answers, searches, ui, view, crossed, fresh>>

Search(s) == Fetch(s) \/ (\E e \in Entries : Store(s, e)) \/ SearchEnds(s) \/ SearchFails(s)

View == \/ \E t \in Types \cup {"all"} : SetTypeFilter(t)
        \/ \E c \in Colours \cup {"all"} : SetColorFilter(c)
        \/ FavoriteFilter \/ ShowLocal \/ BeginSearch \/ Type \/ Escape \/ Refresh
        \/ LoadWallhaven \/ EnterSearch \/ ChangeSort \/ NextPage \/ Finish

Act(i) == MoveSelection(i) \/ ApplyAt(i) \/ Click(i) \/ ToggleFavoriteAt(i)

Next == \/ View
        \/ \E i \in 0..(Len(list) - 1) : Act(i)
        \/ ApplyRandom \/ Quit \/ Killed \/ Restart
        \/ BeginCli \/ \E s \in Searchers : Search(s)
        \/ \E w \in Wallpapers : Indexed(w) \/ Favorite(w)

Spec == Init /\ [][Next]_vars

-----------------------------------------------------------------------------
(* Properties.                                                             *)

Filters == [type : {"all", "image", "video"}, colour : {"all", "one"},
            query : {"", "typed"}, favorites : BOOLEAN]

Cards == [item : Wallpapers \cup Entries, favorite : BOOLEAN]

TypeOK == /\ rows \in Seq(Wallpapers) /\ IsInjective(rows)
          /\ starred \subseteq Wallpapers
          /\ answers \in 0..MaxAnswers
          /\ cached \in [Entries -> 0..answers]
          /\ previews \subseteq {e \in Entries : cached[e] > 0}
          /\ at \in [Searchers -> {"idle", "fetch", "store", "done", "failed"}]
          /\ time \in [Searchers -> 0..answers]
          /\ found \in [Searchers -> SUBSET Entries]
          /\ rest \in [Searchers -> SUBSET Entries]
          /\ \A s \in Searchers : rest[s] \subseteq found[s]
          /\ ui \in {"loop", "ended"}
          /\ {searching, web, behind, crossed} \subseteq BOOLEAN
          /\ filter \in Filters
          /\ list \in Seq(Cards)
          /\ selected \in Nat /\ (selected = 0 \/ selected < Len(list))
          /\ seen \in [items : Seq(Wallpapers \cup Entries), at : Nat]
          /\ fresh \subseteq Entries

\* What the picker lists is what its filters ask for, with the stars it shows:
\* through every order of filters, searches, pages, stars and refused loads.  As
\* long as no other process has written the tables since, nothing is missing.
ListIsAsAsked ==
  ui = "loop" =>
    /\ ~web => \A i \in 1..Len(list) : Passes(list[i].item, list[i].favorite, filter)
    /\ ~behind => list \in Listings(web, filter, starred)

\* A key or a click acts on the wallpaper the user sees at that place: no handler
\* leaves a list or a selection that it has not drawn.
WhatIsSeenIsActedOn == ui = "loop" => seen = [items |-> Items(list), at |-> selected]

\* The results of the last load are all in the list, those with a preview, however
\* many older entries the cache holds, when nobody else has stored entries since.
FreshResultsAreShown == ui = "loop" /\ web => fresh \cap previews \subseteq Listed
=============================================================================
