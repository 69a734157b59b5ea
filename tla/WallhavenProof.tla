--------------------------- MODULE WallhavenProof ---------------------------
(***************************************************************************)
(* Proofs about WallhavenLoad, for every set of searches and entries and   *)
(* number of pages.                                                        *)
(***************************************************************************)
EXTENDS WallhavenLoad, FiniteSetTheorems, TLAPS

\* How the flags and the two threads go together.
FlagsInv ==
  /\ loading <=> Busy
  /\ done => thread = "ended" \/ ui \in {"spawn", "exited"}
  /\ thread \in {"signal", "ended"} => pending.written
  /\ ui = "join" => ~Busy
  /\ ui = "finish" => thread = "ended"
  /\ ui \in {"spawn", "exited"} => thread = "none"

\* Where the page counter comes from while the search is not changed under it.
PagesInv ==
  ~mixed =>
    /\ 2..page \subseteq fetched
    /\ ui \in {"join", "spawn"} => req <= page + 1
    /\ Busy => job.search = search /\ job.page <= page + 1
    /\ thread \in {"signal", "ended"} /\ ui \in {"loop", "finish"} /\ pending.success =>
         2..pending.page \subseteq fetched

\* What the worker's count says of the rows added since, and of its result.
CountInv ==
  /\ thread \in {"fetch", "store"} =>
       /\ before <= Cardinality(cache)
       /\ added # {} => before < Cardinality(cache)
       /\ before < Cardinality(cache) => added # {} \/ others
  /\ thread = "count" => added = {}
  /\ PageCountsNewResults
  /\ Busy => ~pending.written

IInv == TypeOK /\ FlagsInv /\ PagesInv /\ CountInv

USE SearchesAssumption, MaxPageAssumption
USE DEF Busy, Joinable, Ended, CanJoin, Cleared, Asked, Reported, FinishedPage,
        flags, worker, uiVars

\* One row more, or none, makes the count of the cached rows.
LEMMA AddingARow ==
  ASSUME NEW S \in SUBSET Entries, NEW e \in Entries
  PROVE  /\ Cardinality(S) \in Nat
         /\ Cardinality(S \cup {e}) = IF e \in S THEN Cardinality(S) ELSE Cardinality(S) + 1
  <1>1. IsFiniteSet(S)
    BY EntriesAssumption, FS_Subset
  <1> QED BY <1>1, FS_AddElement, FS_CardinalityType

\* What the flags, results and jobs are made of.
LEMMA RecordTypes ==
  /\ \A a, b \in BOOLEAN, p \in 1..MaxPage :
       [success |-> a, page |-> p, written |-> b]
         \in [success : BOOLEAN, page : 1..MaxPage, written : BOOLEAN]
  /\ \A s \in Searches, p \in 1..MaxPage :
       [search |-> s, page |-> p] \in [search : Searches, page : 1..MaxPage]
  /\ TRUE \in BOOLEAN /\ FALSE \in BOOLEAN /\ 1 \in 1..MaxPage
  <1>1. 1 \in 1..MaxPage
    OBVIOUS
  <1>2. TRUE \in BOOLEAN /\ FALSE \in BOOLEAN
    BY Zenon
  <1> QED BY <1>1, <1>2, Zenon

\* The picker starts with the invariant: no worker, page 1, no flag.
LEMMA InitIInv == Init => IInv
  <1> SUFFICES ASSUME Init PROVE IInv
    OBVIOUS
  <1>1. TypeOK
    <2>1. /\ web \in BOOLEAN /\ loading \in BOOLEAN /\ done \in BOOLEAN
          /\ others \in BOOLEAN /\ mixed \in BOOLEAN
      BY Zenon DEF Init
    <2>2. search \in Searches
      BY DEF Init
    <2>3. /\ pending \in [success : BOOLEAN, page : 1..MaxPage, written : BOOLEAN]
          /\ job \in [search : Searches, page : 1..MaxPage]
      BY <2>2, RecordTypes, Zenon DEF Init
    <2> QED BY <2>1, <2>2, <2>3, RecordTypes DEF Init, TypeOK
  <1>2. FlagsInv
    BY DEF Init, FlagsInv
  <1>3. PagesInv
    BY DEF Init, PagesInv
  <1>4. CountInv
    BY DEF Init, CountInv, PageCountsNewResults
  <1> QED BY <1>1, <1>2, <1>3, <1>4 DEF IInv

\* Every step of the two threads keeps the types; the one that matters is
\* FinishedPage, which takes a page back.
LEMMA StepTypeOK == IInv /\ [Next]_vars => TypeOK'
  <1> SUFFICES ASSUME TypeOK, FlagsInv, [Next]_vars PROVE TypeOK'
    BY DEF IInv
  <1> USE DEF TypeOK
  <1>1. CASE LoadWallhaven
    <2>1. web' \in BOOLEAN /\ UNCHANGED <<loading, done, others, mixed, pending, job>>
      BY <1>1, Zenon DEF LoadWallhaven, Begin
    <2> QED BY <1>1, <2>1, RecordTypes DEF LoadWallhaven, Begin
  <1>2. CASE LoadNextPage
    BY <1>2 DEF LoadNextPage, Begin
  <1>3. CASE ShowLocal
    BY <1>3 DEF ShowLocal
  <1>4. CASE SeeDone
    BY <1>4 DEF SeeDone
  <1>5. CASE Quit
    BY <1>5 DEF Quit
  <1>6. CASE Restart
    <2>1. /\ web' \in BOOLEAN /\ loading' \in BOOLEAN /\ done' \in BOOLEAN
          /\ others' \in BOOLEAN /\ mixed' \in BOOLEAN
      BY <1>6, Zenon DEF Restart
    <2>2. search' \in Searches
      BY <1>6 DEF Restart
    <2>3. /\ pending' \in [success : BOOLEAN, page : 1..MaxPage, written : BOOLEAN]
          /\ job' \in [search : Searches, page : 1..MaxPage]
      BY <1>6, <2>2, RecordTypes, Zenon DEF Restart
    <2> QED BY <1>6, <2>1, <2>2, <2>3, RecordTypes DEF Restart
  <1>7. ASSUME NEW s \in Searches, ChangeSort(s) PROVE TypeOK'
    BY <1>7 DEF ChangeSort, Begin
  <1>8. ASSUME NEW s \in Searches, SetQuery(s) PROVE TypeOK'
    BY <1>8 DEF SetQuery
  <1>9. CASE Join
    BY <1>9 DEF Join
  <1>10. CASE Spawn
    <2>1. web' \in BOOLEAN /\ loading' \in BOOLEAN /\ done' \in BOOLEAN /\ others' \in BOOLEAN
      BY <1>10, Zenon DEF Spawn
    <2>2. /\ pending' \in [success : BOOLEAN, page : 1..MaxPage, written : BOOLEAN]
          /\ job' \in [search : Searches, page : 1..MaxPage]
      BY <1>10, RecordTypes, Zenon DEF Spawn
    <2> QED BY <1>10, <2>1, <2>2, RecordTypes DEF Spawn
  <1>11. CASE Finish
    BY <1>11 DEF Finish
  <1>12. CASE Cleanup
    BY <1>12 DEF Cleanup
  <1>13. CASE Count
    <2>1. IsFiniteSet(cache)
      BY EntriesAssumption, FS_Subset
    <2>2. Cardinality(cache) \in Nat
      BY <2>1, FS_CardinalityType
    <2> QED BY <1>13, <2>2 DEF Count
  <1>14. CASE Fetch
    BY <1>14 DEF Fetch
  <1>15. ASSUME NEW e \in rest, Store(e) PROVE TypeOK'
    BY <1>15 DEF Store
  <1>16. CASE Publish
    <2>1. FinishedPage \in 1..MaxPage /\ job.page \in 1..MaxPage
      OBVIOUS
    <2>2. /\ pending' \in [success : BOOLEAN, page : 1..MaxPage, written : BOOLEAN]
          /\ loading' \in BOOLEAN
      BY <1>16, <2>1, RecordTypes, Zenon DEF Publish
    <2> QED BY <1>16, <2>1, <2>2 DEF Publish
  <1>17. CASE Fails
    BY <1>17 DEF Fails
  <1>18. CASE Signal
    BY <1>18 DEF Signal
  <1>19. ASSUME NEW e \in Entries, OtherSearch(e) PROVE TypeOK'
    BY <1>19 DEF OtherSearch
  <1>20. CASE UNCHANGED vars
    BY <1>20 DEF vars
  <1> QED
    BY <1>1, <1>2, <1>3, <1>4, <1>5, <1>6, <1>7, <1>8, <1>9, <1>10, <1>11, <1>12, <1>13,
       <1>14, <1>15, <1>16, <1>17, <1>18, <1>19, <1>20 DEF Next, UiStep, WorkerStep

\* The worker clears the one flag before it sets the other.
LEMMA StepFlags == IInv /\ [Next]_vars => FlagsInv'
  <1> SUFFICES ASSUME TypeOK, FlagsInv, [Next]_vars PROVE FlagsInv'
    BY DEF IInv
  <1> USE DEF TypeOK, FlagsInv
  <1>1. CASE LoadWallhaven
    BY <1>1 DEF LoadWallhaven, Begin
  <1>2. CASE LoadNextPage
    BY <1>2 DEF LoadNextPage, Begin
  <1>3. CASE ShowLocal
    BY <1>3 DEF ShowLocal
  <1>4. CASE SeeDone
    BY <1>4 DEF SeeDone
  <1>5. CASE Quit
    BY <1>5 DEF Quit
  <1>6. CASE Restart
    BY <1>6 DEF Restart
  <1>7. ASSUME NEW s \in Searches, ChangeSort(s) PROVE FlagsInv'
    BY <1>7 DEF ChangeSort, Begin
  <1>8. ASSUME NEW s \in Searches, SetQuery(s) PROVE FlagsInv'
    BY <1>8 DEF SetQuery
  <1>9. CASE Join
    BY <1>9 DEF Join
  <1>10. CASE Spawn
    BY <1>10 DEF Spawn
  <1>11. CASE Finish
    BY <1>11 DEF Finish
  <1>12. CASE Cleanup
    BY <1>12 DEF Cleanup
  <1>13. CASE Count
    BY <1>13 DEF Count
  <1>14. CASE Fetch
    BY <1>14 DEF Fetch
  <1>15. ASSUME NEW e \in rest, Store(e) PROVE FlagsInv'
    BY <1>15 DEF Store
  <1>16. CASE Publish
    BY <1>16 DEF Publish
  <1>17. CASE Fails
    BY <1>17 DEF Fails
  <1>18. CASE Signal
    BY <1>18 DEF Signal
  <1>19. ASSUME NEW e \in Entries, OtherSearch(e) PROVE FlagsInv'
    BY <1>19 DEF OtherSearch
  <1>20. CASE UNCHANGED vars
    BY <1>20 DEF vars
  <1> QED
    BY <1>1, <1>2, <1>3, <1>4, <1>5, <1>6, <1>7, <1>8, <1>9, <1>10, <1>11, <1>12,
       <1>13, <1>14, <1>15, <1>16, <1>17, <1>18, <1>19, <1>20 DEF Next, UiStep, WorkerStep

\* A page counts when its load has ended well; a load asks for the next one at most.
LEMMA StepPages == IInv /\ [Next]_vars => PagesInv'
  <1> SUFFICES ASSUME TypeOK, FlagsInv, PagesInv, [Next]_vars PROVE PagesInv'
    BY DEF IInv
  <1> USE DEF TypeOK, PagesInv
  <1>1. CASE LoadWallhaven
    BY <1>1 DEF LoadWallhaven, Begin
  <1>2. CASE LoadNextPage
    BY <1>2 DEF LoadNextPage, Begin
  <1>3. CASE ShowLocal
    BY <1>3 DEF ShowLocal
  <1>4. CASE SeeDone
    BY <1>4 DEF SeeDone
  <1>5. CASE Quit
    BY <1>5 DEF Quit
  <1>6. CASE Restart
    BY <1>6 DEF Restart
  <1>7. ASSUME NEW s \in Searches, ChangeSort(s) PROVE PagesInv'
    <2>1. CASE loading
      <3>1. mixed'
        BY <1>7, <2>1, Zenon DEF ChangeSort
      <3> QED BY <3>1
    <2>2. CASE ~loading
      <3>1. ui' = "join" /\ req' = 1 /\ page' = 1 /\ UNCHANGED <<thread, job, pending>>
        BY <1>7, <2>2 DEF ChangeSort, Begin
      <3>2. 2..page' = {}
        BY <3>1
      <3>3. ~Busy'
        BY <2>2, <3>1 DEF FlagsInv
      <3> QED BY <3>1, <3>2, <3>3
    <2> QED BY <2>1, <2>2
  <1>8. ASSUME NEW s \in Searches, SetQuery(s) PROVE PagesInv'
    BY <1>8 DEF SetQuery
  <1>9. CASE Join
    BY <1>9 DEF Join
  <1>10. CASE Spawn
    BY <1>10 DEF Spawn
  <1>11. CASE Finish
    <2>1. ui' = "loop" /\ thread' = "none" /\ UNCHANGED fetched
      BY <1>11 DEF Finish
    <2>2. CASE page' = 1
      <3>1. 2..page' = {}
        BY <2>2
      <3> QED BY <2>1, <3>1
    <2>3. CASE page' # 1
      <3>1. ~mixed' => ~mixed
        BY <1>11, <2>3, Zenon DEF Finish
      <3>2. page' = IF pending.success THEN pending.page ELSE page
        BY <1>11 DEF Finish
      <3>3. ui = "finish" /\ thread = "ended"
        BY <1>11 DEF Finish, FlagsInv
      <3> QED BY <2>1, <3>1, <3>2, <3>3
    <2> QED BY <2>2, <2>3
  <1>12. CASE Cleanup
    BY <1>12 DEF Cleanup
  <1>13. CASE Count
    BY <1>13 DEF Count
  <1>14. CASE Fetch
    BY <1>14 DEF Fetch
  <1>15. ASSUME NEW e \in rest, Store(e) PROVE PagesInv'
    BY <1>15 DEF Store
  <1>16. CASE Publish
    BY <1>16 DEF Publish
  <1>17. CASE Fails
    BY <1>17 DEF Fails
  <1>18. CASE Signal
    BY <1>18 DEF Signal
  <1>19. ASSUME NEW e \in Entries, OtherSearch(e) PROVE PagesInv'
    BY <1>19 DEF OtherSearch
  <1>20. CASE UNCHANGED vars
    BY <1>20 DEF vars
  <1> QED
    BY <1>1, <1>2, <1>3, <1>4, <1>5, <1>6, <1>7, <1>8, <1>9, <1>10, <1>11, <1>12,
       <1>13, <1>14, <1>15, <1>16, <1>17, <1>18, <1>19, <1>20 DEF Next, UiStep, WorkerStep

\* The rows counted since the worker began are those it added, or somebody else.
LEMMA StepCount == IInv /\ [Next]_vars => CountInv'
  <1> SUFFICES ASSUME TypeOK, FlagsInv, CountInv, [Next]_vars PROVE CountInv'
    BY DEF IInv
  <1> USE DEF TypeOK, CountInv
  <1>1. CASE LoadWallhaven
    BY <1>1 DEF LoadWallhaven, Begin, PageCountsNewResults
  <1>2. CASE LoadNextPage
    BY <1>2 DEF LoadNextPage, Begin, PageCountsNewResults
  <1>3. CASE ShowLocal
    BY <1>3 DEF ShowLocal, PageCountsNewResults
  <1>4. CASE SeeDone
    BY <1>4 DEF SeeDone, PageCountsNewResults
  <1>5. CASE Quit
    BY <1>5 DEF Quit, PageCountsNewResults
  <1>6. CASE Restart
    BY <1>6 DEF Restart, PageCountsNewResults
  <1>7. ASSUME NEW s \in Searches, ChangeSort(s) PROVE CountInv'
    BY <1>7 DEF ChangeSort, Begin, PageCountsNewResults
  <1>8. ASSUME NEW s \in Searches, SetQuery(s) PROVE CountInv'
    BY <1>8 DEF SetQuery, PageCountsNewResults
  <1>9. CASE Join
    BY <1>9 DEF Join, PageCountsNewResults
  <1>10. CASE Spawn
    BY <1>10 DEF Spawn, PageCountsNewResults
  <1>11. CASE Finish
    BY <1>11 DEF Finish, PageCountsNewResults
  <1>12. CASE Cleanup
    BY <1>12 DEF Cleanup, PageCountsNewResults
  <1>13. CASE Count
    <2>1. thread' = "fetch" /\ before' = Cardinality(cache) /\ added = {} /\ ~pending.written
      BY <1>13 DEF Count
    <2>2. Cardinality(cache) \in Nat
      BY EntriesAssumption, FS_Subset, FS_CardinalityType
    <2> QED BY <1>13, <2>1, <2>2 DEF Count, PageCountsNewResults
  <1>14. CASE Fetch
    BY <1>14 DEF Fetch, PageCountsNewResults
  <1>15. ASSUME NEW e \in rest, Store(e) PROVE CountInv'
    <2>1. /\ Cardinality(cache) \in Nat
          /\ Cardinality(cache') = IF e \in cache THEN Cardinality(cache) ELSE Cardinality(cache) + 1
      BY <1>15, AddingARow DEF Store
    <2>2. added' = IF e \in cache THEN added ELSE added \cup {e}
      BY <1>15 DEF Store
    <2>3. thread = "store" /\ ~pending.written
      BY <1>15 DEF Store
    <2> QED BY <1>15, <2>1, <2>2, <2>3 DEF Store, PageCountsNewResults
  <1>16. CASE Publish
    <2> DEFINE n == Cardinality(cache)
    <2>1. n \in Nat /\ before \in Nat /\ job.page \in 1..MaxPage
      BY EntriesAssumption, FS_Subset, FS_CardinalityType
    <2>2. /\ pending' = [success |-> TRUE, page |-> FinishedPage, written |-> TRUE]
          /\ thread' = "signal" /\ UNCHANGED <<job, added, others>>
      BY <1>16 DEF Publish
    <2>3. (added # {} => before < n) /\ (before < n => added # {} \/ others)
      BY <1>16 DEF Publish
    <2>4. pending'.page = FinishedPage
      BY <2>2
    <2> HIDE DEF n
    <2>5. FinishedPage = IF job.page > 1 /\ n <= before THEN job.page - 1 ELSE job.page
      BY DEF n
    <2>6. PageCountsNewResults'
      <3>1. CASE n <= before
        BY <2>1, <2>2, <2>3, <2>4, <2>5, <3>1 DEF PageCountsNewResults
      <3>2. CASE before < n
        BY <2>1, <2>2, <2>3, <2>4, <2>5, <3>2 DEF PageCountsNewResults
      <3> QED BY <2>1, <3>1, <3>2
    <2> QED BY <2>2, <2>6
  <1>17. CASE Fails
    BY <1>17 DEF Fails, PageCountsNewResults
  <1>18. CASE Signal
    BY <1>18 DEF Signal, PageCountsNewResults
  <1>19. ASSUME NEW e \in Entries, OtherSearch(e) PROVE CountInv'
    <2>1. /\ Cardinality(cache) \in Nat
          /\ Cardinality(cache') = Cardinality(cache) + 1
      BY <1>19, AddingARow DEF OtherSearch
    <2>2. others'
      BY <1>19, Zenon DEF OtherSearch
    <2> QED BY <1>19, <2>1, <2>2 DEF OtherSearch, PageCountsNewResults
  <1>20. CASE UNCHANGED vars
    BY <1>20 DEF vars, PageCountsNewResults
  <1> QED
    BY <1>1, <1>2, <1>3, <1>4, <1>5, <1>6, <1>7, <1>8, <1>9, <1>10, <1>11, <1>12,
       <1>13, <1>14, <1>15, <1>16, <1>17, <1>18, <1>19, <1>20 DEF Next, UiStep, WorkerStep

\* The inductive invariant.
THEOREM IInvHolds == Spec => []IInv
  <1>1. IInv /\ [Next]_vars => IInv'
    BY StepTypeOK, StepFlags, StepPages, StepCount DEF IInv
  <1> QED BY <1>1, InitIInv, PTL DEF Spec

\* Type correctness, with a counter that never leaves the pages there are.
THEOREM TypeCorrect == Spec => []TypeOK
  <1>1. IInv => TypeOK
    BY DEF IInv
  <1> QED BY <1>1, IInvHolds, PTL

\* Outside cleanup the thread of the user interface joins the worker of a load only when
\* that has published its result (start_wallhaven_load, finish_wallhaven_load_if_ready).
\* Other waits of that thread, such as download_selected_wallhaven, are not meant.
THEOREM InterfaceStaysResponsive == Spec => []InterfaceNeverWaitsForALoad
  <1>1. IInv => InterfaceNeverWaitsForALoad
    BY DEF IInv, FlagsInv, InterfaceNeverWaitsForALoad
  <1> QED BY <1>1, IInvHolds, PTL

\* A std::thread is assigned to and destroyed only when it is not joinable.
THEOREM WorkersAreJoined == Spec => []WorkerIsJoinedFirst
  <1>1. IInv => WorkerIsJoinedFirst
    BY DEF IInv, FlagsInv, WorkerIsJoinedFirst
  <1> QED BY <1>1, IInvHolds, PTL

\* No stale and no half-written result is taken over.
THEOREM FinishIsOfTheLastLoad == Spec => []FinishTakesTheLastLoad
  <1>1. IInv => FinishTakesTheLastLoad
    BY DEF IInv, FlagsInv, FinishTakesTheLastLoad
  <1> QED BY <1>1, IInvHolds, PTL

\* The page counter never gets ahead of the pages that were loaded.
THEOREM PagesAreNotSkipped == Spec => []NoPageIsSkipped
  <1>1. IInv => NoPageIsSkipped
    BY DEF IInv, PagesInv, NoPageIsSkipped
  <1> QED BY <1>1, IInvHolds, PTL

\* "NO MORE RESULTS" exactly for a page that brought nothing new.
THEOREM PagesCountNewResults == Spec => []PageCountsNewResults
  <1>1. IInv => PageCountsNewResults
    BY DEF IInv, CountInv
  <1> QED BY <1>1, IInvHolds, PTL
=============================================================================
