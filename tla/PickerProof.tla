---------------------------- MODULE PickerProof ----------------------------
(***************************************************************************)
(* Proofs about the two stores of the picker: the list of Gallery, and the *)
(* textures of TextureCache.                                               *)
(***************************************************************************)
EXTENDS Gallery, TextureCache, FiniteSetTheorems, SequenceTheorems, TLAPS

-----------------------------------------------------------------------------
(* Places that are kept.                                                   *)

\* Of two places the later one has the higher rank.
LEMMA RankFacts ==
  ASSUME NEW n \in Nat, NEW P \in SUBSET (1..n)
  PROVE  /\ IsFiniteSet(P) /\ Cardinality(P) \in Nat
         /\ \A i \in P : Rank(P, i) \in 1..Cardinality(P)
         /\ \A i, j \in P : i < j => Rank(P, i) < Rank(P, j)
  <1>1. IsFiniteSet(P) /\ Cardinality(P) \in Nat
    <2>1. IsFiniteSet(1..n)
      BY FS_Interval
    <2>2. IsFiniteSet(P)
      BY <2>1, FS_Subset
    <2> QED
      BY <2>2, FS_CardinalityType
  <1>2. ASSUME NEW i \in P PROVE Rank(P, i) \in 1..Cardinality(P)
    <2> DEFINE L == {j \in P : j <= i}
    <2>1. L \in SUBSET P /\ i \in L
      OBVIOUS
    <2>2. IsFiniteSet(L) /\ Cardinality(L) <= Cardinality(P)
      BY <1>1, <2>1, FS_Subset
    <2>3. Cardinality(L) \in Nat /\ Cardinality(L) # 0
      BY <2>1, <2>2, FS_CardinalityType, FS_EmptySet
    <2> QED
      BY <1>1, <2>2, <2>3 DEF Rank
  <1>3. ASSUME NEW i \in P, NEW j \in P, i < j PROVE Rank(P, i) < Rank(P, j)
    <2> DEFINE L == {k \in P : k <= i}
               M == {k \in P : k <= j}
    <2>0. M \in SUBSET P /\ \A k \in P : k \in Int
      OBVIOUS
    <2>1. L \in SUBSET M /\ L # M /\ M \in SUBSET P
      <3>1. j \in M /\ j \notin L
        BY <1>3
      <3>2. \A k \in P : k <= i => k <= j
        BY <1>3, <2>0
      <3> QED
        BY <3>1, <3>2, <2>0
    <2>2. IsFiniteSet(M)
      BY <1>1, <2>1, FS_Subset
    <2>3. Cardinality(L) <= Cardinality(M) /\ Cardinality(L) # Cardinality(M)
      BY <2>1, <2>2, FS_Subset
    <2>4. Cardinality(L) \in Nat /\ Cardinality(M) \in Nat
      BY <2>1, <2>2, FS_Subset, FS_CardinalityType
    <2> QED
      BY <2>3, <2>4 DEF Rank
  <1> QED
    BY <1>1, <1>2, <1>3

\* What is selected is taken from the kept places, from every one of them, in their
\* order.
LEMMA SelectedFacts ==
  ASSUME NEW S, NEW s \in Seq(S), NEW P \in SUBSET (DOMAIN s)
  PROVE  /\ Selected(s, P) \in Seq(S)
         /\ DOMAIN Selected(s, P) = 1..Cardinality(P)
         /\ Len(Selected(s, P)) = Cardinality(P)
         /\ \E place \in [1..Cardinality(P) -> P] :
              /\ \A k \in 1..Cardinality(P) : Selected(s, P)[k] = s[place[k]]
              /\ \A k, l \in 1..Cardinality(P) : k < l => place[k] < place[l]
              /\ \A i \in P : \E k \in 1..Cardinality(P) : place[k] = i
  <1> DEFINE n == Cardinality(P)
             place == [k \in 1..n |-> CHOOSE i \in P : Rank(P, i) = k]
             r == [i \in P |-> Rank(P, i)]
  <1>1. Len(s) \in Nat /\ DOMAIN s = 1..Len(s)
    BY LenProperties
  <1>2. /\ IsFiniteSet(P) /\ n \in Nat
        /\ \A i \in P : Rank(P, i) \in 1..n
        /\ \A i, j \in P : i < j => Rank(P, i) < Rank(P, j)
    BY <1>1, RankFacts
  <1>3. r \in [P -> 1..n] /\ IsInjective(r)
    <2>1. \A i, j \in P : i \in Int /\ j \in Int /\ Rank(P, i) \in Int /\ Rank(P, j) \in Int
      BY <1>1, <1>2
    <2>2. \A i, j \in P : Rank(P, i) = Rank(P, j) => i = j
      BY <1>2, <2>1
    <2> QED
      BY <1>2, <2>2 DEF IsInjective
  <1>4. IsFiniteSet(1..n) /\ Cardinality(1..n) = n
    BY <1>2, FS_Interval
  <1>5. \A k \in 1..n : \E i \in P : Rank(P, i) = k
    <2>1. r \in Injection(P, 1..n)
      BY <1>3 DEF Injection
    <2>2. r \in Surjection(P, 1..n)
      BY <1>4, <2>1, FS_Injection
    <2> QED
      BY <2>2 DEF Surjection
  <1>6. \A k \in 1..n : place[k] \in P /\ Rank(P, place[k]) = k
    BY <1>5
  <1>7. place \in [1..n -> P]
    BY <1>6
  <1>8. \A k, l \in 1..n : k < l => place[k] < place[l]
    <2> SUFFICES ASSUME NEW k \in 1..n, NEW l \in 1..n, k < l PROVE place[k] < place[l]
      OBVIOUS
    <2>1. /\ place[k] \in Int /\ place[l] \in Int
          /\ Rank(P, place[k]) = k /\ Rank(P, place[l]) = l
      BY <1>1, <1>6
    <2>2. place[l] < place[k] => l < k
      BY <1>2, <1>6
    <2> HIDE DEF place
    <2>3. place[l] = place[k] => l = k
      BY <2>1
    <2> QED
      BY <2>1, <2>2, <2>3
  <1>9. \A i \in P : \E k \in 1..n : place[k] = i
    <2> SUFFICES ASSUME NEW i \in P PROVE place[Rank(P, i)] = i
      BY <1>2
    <2>1. Rank(P, i) \in 1..n
      BY <1>2
    <2>2. place[Rank(P, i)] \in P /\ Rank(P, place[Rank(P, i)]) = Rank(P, i)
      BY <1>6, <2>1
    <2> HIDE DEF place
    <2> QED
      BY <1>3, <2>2 DEF IsInjective
  <1>10. \A k \in 1..n : Selected(s, P)[k] = s[place[k]]
    BY DEF Selected
  <1>11. Selected(s, P) = [k \in 1..n |-> s[place[k]]]
    BY DEF Selected
  <1> HIDE DEF place
  <1>12. \A k \in 1..n : s[place[k]] \in S
    BY <1>1, <1>6, ElementOfSeq
  <1>13. Selected(s, P) \in [1..n -> S] 
    BY <1>11, <1>12
  <1>14. Selected(s, P) \in Seq(S) /\ Len(Selected(s, P)) = n
    BY <1>2, <1>13
  <1> QED
    BY <1>7, <1>8, <1>9, <1>10, <1>13, <1>14

-----------------------------------------------------------------------------
(* Gallery.                                                                *)

\* Who stores has the time of an answer; nothing is left to store but in that step; and
\* an answer is no more than a page.
SearchInv ==
  \A s \in Searchers : /\ at[s] = "store" => time[s] > 0
                       /\ at[s] # "store" => rest[s] = {}
                       /\ Cardinality(found[s]) <= PageSize

\* What the local list holds: rows that pass, with their stars, each once.
LEMMA LocalListFacts ==
  ASSUME rows \in Seq(Wallpapers), IsInjective(rows), NEW f, NEW stars
  PROVE  LET l == LocalList(f, stars)
         IN  /\ l \in Seq(Cards)
             /\ DOMAIN l = 1..Len(l) /\ Len(l) \in Nat
             /\ \A i \in 1..Len(l) : /\ l[i].item \in Wallpapers
                                     /\ l[i].favorite = (l[i].item \in stars)
                                     /\ Passes(l[i].item, l[i].favorite, f)
             /\ \A i, j \in 1..Len(l) : l[i].item = l[j].item => i = j
  <1> DEFINE P == {i \in DOMAIN rows : Passes(rows[i], rows[i] \in stars, f)}
             p == Selected(rows, P)
             l == LocalList(f, stars)
  <1>1. PICK place \in [1..Cardinality(P) -> P] :
              /\ \A k \in 1..Cardinality(P) : p[k] = rows[place[k]]
              /\ \A k, m \in 1..Cardinality(P) : k < m => place[k] < place[m]
    <2>1. P \in SUBSET (DOMAIN rows)
      OBVIOUS
    <2> HIDE DEF P
    <2> QED
      BY <2>1, SelectedFacts
  <1>2. p \in Seq(Wallpapers) /\ DOMAIN p = 1..Cardinality(P) /\ Len(p) = Cardinality(P)
    <2>1. P \in SUBSET (DOMAIN rows)
      OBVIOUS
    <2> HIDE DEF P
    <2> QED
      BY <2>1, SelectedFacts
  <1>3. Len(p) \in Nat /\ \A i \in 1..Len(p) : p[i] \in Wallpapers
    BY <1>2, LenProperties
  <1>4. l = [i \in 1..Len(p) |-> Item(p[i], p[i] \in stars)]
    BY DEF LocalList
  <1>5. \A i \in 1..Len(p) : Passes(p[i], p[i] \in stars, f)
    BY <1>1, <1>2
  <1>6. \A i, j \in 1..Len(p) : p[i] = p[j] => i = j
    <2> SUFFICES ASSUME NEW i \in 1..Len(p), NEW j \in 1..Len(p), p[i] = p[j] PROVE i = j
      OBVIOUS
    <2>1. /\ place[i] \in DOMAIN rows /\ place[j] \in DOMAIN rows
          /\ rows[place[i]] = rows[place[j]]
      BY <1>1, <1>2
    <2>2. place[i] = place[j] /\ place[i] \in Int
      BY <2>1, LenProperties DEF IsInjective
    <2>3. i \in Int /\ j \in Int /\ ~(i < j) /\ ~(j < i)
      BY <1>1, <1>2, <1>3, <2>2
    <2> QED
      BY <2>3
  <1> HIDE DEF p, l
  <1>7. l \in [1..Len(p) -> Cards]
    <2>1. \A i \in 1..Len(p) : Item(p[i], p[i] \in stars) \in Cards
      BY <1>3 DEF Item, Cards
    <2> QED
      BY <1>4, <2>1
  <1>8. l \in Seq(Cards) /\ Len(l) = Len(p)
    BY <1>3, <1>7
  <1>9. \A i \in 1..Len(l) : l[i].item = p[i] /\ l[i].favorite = (p[i] \in stars)
    BY <1>4, <1>8 DEF Item
  <1> QED
    BY <1>3, <1>5, <1>6, <1>7, <1>8, <1>9 DEF l

\* What the web list holds: cached entries, no star.
LEMMA WebListFacts ==
  ASSUME Cap \in Nat, IsFiniteSet(previews), NEW l \in WebLists
  PROVE  /\ Len(l) \in Nat /\ DOMAIN l = 1..Len(l)
         /\ \A i \in 1..Len(l) : l[i].item \in previews /\ l[i].favorite = FALSE
  <1>1. PICK s \in NewestFirst(previews) :
               l = [i \in 1..Shortest(Cap, Len(s)) |-> Item(s[i], FALSE)]
    BY DEF WebLists
  <1> DEFINE n == Cardinality(previews)
             m == Shortest(Cap, Len(s))
  <1>2. n \in Nat /\ s \in [1..n -> previews]
    BY FS_CardinalityType DEF NewestFirst, SetToSeqs
  <1>3. Len(s) = n
    BY <1>2
  <1>4. m \in Nat /\ m <= n
    BY <1>2, <1>3 DEF Shortest
  <1> HIDE DEF m
  <1>5. l = [i \in 1..m |-> Item(s[i], FALSE)]
    BY <1>1 DEF m
  <1>6. \A i \in 1..m : s[i] \in previews
    BY <1>2, <1>4
  <1>7. Len(l) = m /\ DOMAIN l = 1..m
    BY <1>4, <1>5
  <1> QED
    BY <1>4, <1>5, <1>6, <1>7 DEF Item

\* Every list the picker can make is a sequence of cards.
LEMMA ListingFacts ==
  ASSUME TypeOK, NEW inWeb \in BOOLEAN, NEW f \in Filters, NEW stars,
         NEW l \in Listings(inWeb, f, stars)
  PROVE  l \in Seq(Cards) /\ Len(l) \in Nat /\ Items(l) \in Seq(Wallpapers \cup Entries)
  <1>1. l \in Seq(Cards) /\ Len(l) \in Nat
    <2>1. CASE inWeb
      <3>1. IsFiniteSet(previews) /\ previews \subseteq Entries
        BY EntriesAssumption, FS_Subset DEF TypeOK
      <3>2. /\ Len(l) \in Nat /\ DOMAIN l = 1..Len(l)
            /\ \A i \in 1..Len(l) : l[i].item \in previews /\ l[i].favorite = FALSE
        BY <2>1, <3>1, CapAssumption, WebListFacts DEF Listings
      <3>3. PICK k \in Nat : \E s : l = [i \in 1..k |-> Item(s[i], FALSE)]
        <4>1. PICK s \in NewestFirst(previews) :
                     l = [i \in 1..Shortest(Cap, Len(s)) |-> Item(s[i], FALSE)]
          BY <2>1 DEF Listings, WebLists
        <4>2. Cardinality(previews) \in Nat /\ s \in [1..Cardinality(previews) -> previews]
          BY <3>1, FS_CardinalityType DEF NewestFirst, SetToSeqs
        <4>3. Shortest(Cap, Len(s)) \in Nat
          BY <4>2, CapAssumption DEF Shortest
        <4> QED
          BY <4>1, <4>3
      <3>4. PICK s : l = [i \in 1..k |-> Item(s[i], FALSE)]
        BY <3>3
      <3>7. Len(l) = k
        BY <3>4
      <3>5. \A i \in 1..k : Item(s[i], FALSE) \in Cards
        BY <3>1, <3>2, <3>4, <3>7 DEF Item, Cards
      <3>6. l \in [1..k -> Cards]
        BY <3>4, <3>5
      <3> QED
        BY <3>2, <3>6
    <2>2. CASE ~inWeb
      BY <2>2, LocalListFacts DEF Listings, TypeOK
    <2> QED
      BY <2>1, <2>2
  <1>2. \A i \in 1..Len(l) : l[i].item \in Wallpapers \cup Entries
    <2>1. \A i \in 1..Len(l) : l[i] \in Cards
      BY <1>1, ElementOfSeq
    <2> QED
      BY <2>1 DEF Cards
  <1> QED
    BY <1>1, <1>2 DEF Items

\* What a step does to what is on the screen: the list is made again, or drawn
\* again, or one star of it changes, or the picker ends, or it is left alone.
Remade == /\ \E sel \in Nat : ReloadWith(starred', sel)
          /\ ui' = "loop" /\ web' \in BOOLEAN /\ searching' \in BOOLEAN /\ filter' \in Filters
          /\ starred' \subseteq Wallpapers
          /\ UNCHANGED <<rows, cached, previews, answers>>
Redrawn == /\ \E sel \in Nat : Redraw(sel) /\ (sel = 0 \/ sel < Len(list))
           /\ ui = "loop" /\ searching' \in BOOLEAN
           /\ UNCHANGED <<ui, web, filter, tables, fresh>>
Starred == /\ \E i \in 0..(Len(list) - 1) :
                LET next == ~list[i + 1].favorite
                    w == list[i + 1].item
                IN  /\ w \in Wallpapers
                    /\ starred' = IF next THEN starred \cup {w} ELSE starred \ {w}
                    /\ Draw([list EXCEPT ![i + 1].favorite = next], i)
           /\ ui = "loop" /\ ~filter.favorites
           /\ UNCHANGED <<rows, cached, previews, answers, ui, searching, web, filter, behind,
                          fresh>>
Gone == ui' = "ended" /\ UNCHANGED <<tables, view, behind>>
Elsewhere == /\ UNCHANGED <<ui, view>>
             /\ behind' = TRUE \/ UNCHANGED <<rows, starred, cached, previews, behind>>
             /\ \/ UNCHANGED <<rows, starred>>
                \/ \E w \in Wallpapers : Indexed(w) \/ Favorite(w)
             /\ \/ UNCHANGED <<previews, fresh>>
                \/ fresh' = {}
                \/ fresh' = fresh /\ at["worker"] = "store"

\* Every action of the picker and of the others has one of these outcomes.
LEMMA Outcomes == TypeOK /\ [Next]_vars => Remade \/ Redrawn \/ Starred \/ Gone \/ Elsewhere
  <1> SUFFICES ASSUME TypeOK, [Next]_vars
               PROVE  Remade \/ Redrawn \/ Starred \/ Gone \/ Elsewhere
    OBVIOUS
  <1> USE DEF view, tables
  <1>0. /\ web \in BOOLEAN /\ searching \in BOOLEAN /\ selected \in Nat /\ Len(list) \in Nat
        /\ starred \subseteq Wallpapers /\ filter \in Filters
        /\ selected = 0 \/ selected < Len(list)
    BY LenProperties DEF TypeOK
  <1>1. ASSUME NEW t \in Types \cup {"all"}, SetTypeFilter(t) PROVE Remade
    <2>1. filter' \in Filters
      BY <1>0, <1>1, FiltersAssumption DEF SetTypeFilter, Filters
    <2> QED
      BY <1>0, <1>1, <2>1 DEF SetTypeFilter, Handler, Reload, KeepTables, Remade
  <1>2. ASSUME NEW c \in Colours \cup {"all"}, SetColorFilter(c) PROVE Remade
    <2>1. filter' \in Filters
      BY <1>0, <1>2, FiltersAssumption DEF SetColorFilter, Filters
    <2> QED
      BY <1>0, <1>2, <2>1 DEF SetColorFilter, Handler, Reload, KeepTables, Remade
  <1>3. CASE FavoriteFilter
    <2>1. filter' \in Filters
      BY <1>0, <1>3 DEF FavoriteFilter, Filters
    <2> QED
      BY <1>0, <1>3, <2>1 DEF FavoriteFilter, Handler, Reload, KeepTables, Remade
  <1>4. CASE ShowLocal
    BY <1>0, <1>4 DEF ShowLocal, Handler, Reload, KeepTables, Remade
  <1>5. CASE BeginSearch
    BY <1>0, <1>5 DEF BeginSearch, Handler, KeepTables, Redrawn
  <1>6. ASSUME NEW q \in {"", "typed"}, NEW stays \in BOOLEAN, SetQuery(q, stays) PROVE Remade
    <2>1. filter' \in Filters
      BY <1>0, <1>6 DEF SetQuery, Filters
    <2> QED
      BY <1>0, <1>6, <2>1 DEF SetQuery, Handler, Reload, KeepTables, Remade
  <1>7. CASE Refresh
    BY <1>0, <1>7 DEF Refresh, Handler, KeepTables, Redrawn
  <1>8. CASE ui = "loop" /\ ui' = ui /\ ShowCache /\ searching' \in BOOLEAN
    <2>1. filter' \in Filters
      BY <1>0, <1>8 DEF ShowCache, Filters
    <2> QED
      BY <1>0, <1>8, <2>1 DEF ShowCache, Reload, KeepTables, Remade
  <1>9. ASSUME NEW sel \in Nat, ui = "loop", StartLoad(sel), searching' \in BOOLEAN
        PROVE  Remade
    <2>1. filter' \in Filters
      BY <1>0, <1>9 DEF StartLoad, Filters
    <2> QED
      BY <1>0, <1>9, <2>1 DEF StartLoad, Reload, Remade
  <1>10. CASE LoadWallhaven
    BY <1>0, <1>8, <1>9, <1>10 DEF LoadWallhaven, Handler, ShowCache, KeepTables
  <1>11. CASE EnterSearch
    <2>1. ui = "loop" /\ searching' = FALSE
      BY <1>11 DEF EnterSearch, Handler
    <2>2. CASE ShowCache
      BY <1>8, <2>1, <2>2 DEF ShowCache, KeepTables
    <2>3. CASE StartLoad(0)
      BY <1>9, <2>1, <2>3
    <2>4. CASE Redraw(selected) /\ UNCHANGED <<web, filter>> /\ KeepTables
      BY <1>0, <2>1, <2>4 DEF KeepTables, Redrawn
    <2> QED
      BY <1>11, <2>2, <2>3, <2>4 DEF EnterSearch
  <1>12. CASE ChangeSort
    BY <1>0, <1>9, <1>12 DEF ChangeSort, Handler
  <1>13. CASE NextPage
    <2>1. list # <<>> => Len(list) - 1 \in Nat
      BY EmptySeq DEF TypeOK
    <2> QED
      BY <1>0, <1>9, <1>13, <2>1 DEF NextPage, Handler
  <1>14. CASE Finish
    BY <1>0, <1>14 DEF Finish, Handler, Reload, Remade
  <1>15. ASSUME NEW i \in 0..(Len(list) - 1), MoveSelection(i) PROVE Redrawn
    <2>1. i \in Nat /\ i < Len(list)
      BY <1>0
    <2> QED
      BY <1>0, <1>15, <2>1 DEF MoveSelection, Handler, KeepTables, Redrawn
  <1>16. ASSUME NEW i \in 0..(Len(list) - 1), ApplyAt(i) PROVE Remade \/ Redrawn \/ Gone
    <2>1. i \in Nat /\ i < Len(list)
      BY <1>0
    <2> QED
      BY <1>0, <1>16, <2>1 DEF ApplyAt, Applied, Ended, Handler, Reload, Remade, Redrawn, Gone
  <1>17. ASSUME NEW i \in 0..(Len(list) - 1), Click(i) PROVE Redrawn
    <2>1. i \in Nat /\ i < Len(list)
      BY <1>0
    <2> QED
      BY <1>0, <1>17, <2>1 DEF Click, Handler, KeepTables, Redrawn
  <1>18. ASSUME NEW i \in 0..(Len(list) - 1), ToggleFavoriteAt(i) PROVE Remade \/ Starred
    <2>1. i \in Nat
      BY <1>0
    <2>2. starred' \subseteq Wallpapers
      BY <1>0, <1>18 DEF ToggleFavoriteAt
    <2>3. CASE filter.favorites
      BY <1>0, <1>18, <2>1, <2>2, <2>3 DEF ToggleFavoriteAt, Handler, ChangesTheList, Remade
    <2>4. CASE ~filter.favorites
      BY <1>0, <1>18, <2>4 DEF ToggleFavoriteAt, Handler, ChangesTheList, Starred
    <2> QED
      BY <2>3, <2>4
  <1>19. CASE ApplyRandom
    BY <1>0, <1>19 DEF ApplyRandom, Ended, Handler, Reload, Remade, Gone
  <1>20. CASE Quit \/ Killed
    BY <1>20 DEF Quit, Killed, Ended, Gone
  <1>21. CASE Restart
    <2>1. NoFilter \in Filters
      BY DEF NoFilter, Filters
    <2> QED
      BY <1>0, <1>21, <2>1 DEF Restart, Fresh, Reload, Remade
  <1>22. CASE BeginCli
    BY <1>22 DEF BeginCli, Elsewhere
  <1>23. ASSUME NEW s \in Searchers, Search(s) PROVE Elsewhere
    BY <1>23 DEF Search, Fetch, Store, SearchEnds, SearchFails, Elsewhere, Searchers
  <1>24. ASSUME NEW w \in Wallpapers, Indexed(w) \/ Favorite(w) PROVE Elsewhere
    BY <1>24 DEF Indexed, Favorite, Elsewhere
  <1>25. CASE UNCHANGED vars
    BY <1>25 DEF vars, Elsewhere
  <1>28. Type \/ Escape => Remade
    BY <1>6 DEF Type, Escape
  <1>26. CASE View
    <2>1. (\E t \in Types \cup {"all"} : SetTypeFilter(t)) => Remade
      BY <1>1
    <2>2. (\E c \in Colours \cup {"all"} : SetColorFilter(c)) => Remade
      BY <1>2
    <2> QED
      BY <2>1, <2>2, <1>3, <1>4, <1>5, <1>28, <1>7, <1>10, <1>11, <1>12, <1>13, <1>14,
         <1>26 DEF View
  <1>27. ASSUME NEW i \in 0..(Len(list) - 1), Act(i) PROVE Remade \/ Redrawn \/ Starred \/ Gone
    BY <1>15, <1>16, <1>17, <1>18, <1>27 DEF Act
  <1> QED
    BY <1>19, <1>20, <1>21, <1>22, <1>23, <1>24, <1>25, <1>26, <1>27 DEF Next

\* The list t is s with e put at place i.
HasBetween(t, s, i, e) == /\ Len(t) = Len(s) + 1
                          /\ \A k \in 1..(i - 1) : t[k] = s[k]
                          /\ t[i] = e
                          /\ \A k \in (i + 1)..(Len(s) + 1) : t[k] = s[k - 1]

\* InsertAt puts the element among the others.
LEMMA InsertFacts ==
  ASSUME NEW S, NEW s \in Seq(S), NEW i \in 1..(Len(s) + 1), NEW e \in S,
         NEW t, t = InsertAt(s, i, e)
  PROVE  t \in Seq(S) /\ HasBetween(t, s, i, e)
  <1> DEFINE a == SubSeq(s, 1, i - 1)
             b == SubSeq(s, i, Len(s))
  <1>1. Len(s) \in Nat /\ i \in Int /\ 1 <= i /\ i <= Len(s) + 1
    BY LenProperties
  <1>2. /\ a \in Seq(S) /\ Len(a) = i - 1
        /\ \A k \in 1..(i - 1) : a[k] = s[k]
    BY <1>1
  <1>3. /\ b \in Seq(S) /\ Len(b) = Len(s) - i + 1
        /\ \A k \in 1..(Len(s) - i + 1) : b[k] = s[i + k - 1]
    BY <1>1
  <1>4. t = (a \o <<e>>) \o b
    BY DEF InsertAt
  <1> HIDE DEF a, b
  <1>5. /\ a \o <<e>> \in Seq(S) /\ Len(a \o <<e>>) = i
        /\ \A k \in 1..i : (a \o <<e>>)[k] = IF k < i THEN a[k] ELSE e
    BY <1>1, <1>2
  <1> DEFINE c == a \o <<e>>
  <1> HIDE DEF c
  <1>6. c \in Seq(S) /\ Len(c) = i /\ \A k \in 1..i : c[k] = IF k < i THEN a[k] ELSE e
    BY <1>5 DEF c
  <1>7. /\ t \in Seq(S) /\ Len(t) = Len(s) + 1
        /\ \A k \in 1..Len(t) : t[k] = IF k <= i THEN c[k] ELSE b[k - i]
    <2>1. t = c \o b
      BY <1>4 DEF c
    <2> QED
      BY <1>1, <1>3, <1>6, <2>1
  <1>8. ASSUME NEW k \in 1..(i - 1) PROVE t[k] = s[k]
    <2>1. k \in 1..Len(t) /\ k \in 1..i /\ k <= i /\ k < i
      BY <1>1, <1>7
    <2> QED
      BY <1>2, <1>6, <1>7, <2>1
  <1>9. t[i] = e
    <2>1. i \in 1..Len(t) /\ i \in 1..i /\ i <= i /\ ~(i < i)
      BY <1>1, <1>7
    <2> QED
      BY <1>6, <1>7, <2>1
  <1>10. ASSUME NEW k \in (i + 1)..(Len(s) + 1) PROVE t[k] = s[k - 1]
    <2>1. /\ k \in 1..Len(t) /\ ~(k <= i) /\ k - i \in 1..(Len(s) - i + 1)
          /\ i + (k - i) - 1 = k - 1
      BY <1>1, <1>7
    <2>2. t[k] = b[k - i]
      BY <1>7, <2>1
    <2>3. b[k - i] = s[i + (k - i) - 1]
      BY <1>3, <2>1
    <2> QED
      BY <2>1, <2>2, <2>3
  <1> QED
    BY <1>7, <1>8, <1>9, <1>10 DEF HasBetween

\* No step indexes a picture twice.
LEMMA StepRows == TypeOK /\ [Next]_vars =>
  rows' \in Seq(Wallpapers) /\ IsInjective(rows') /\ starred' \subseteq Wallpapers
  <1> SUFFICES ASSUME TypeOK, [Next]_vars
               PROVE  /\ rows' \in Seq(Wallpapers) /\ IsInjective(rows')
                      /\ starred' \subseteq Wallpapers
    OBVIOUS
  <1>1. CASE Remade \/ Redrawn \/ Gone
    BY <1>1 DEF Remade, Redrawn, Gone, TypeOK, tables
  <1>2. CASE Starred
    BY <1>2 DEF Starred, TypeOK
  <1>3. ASSUME NEW w \in Wallpapers, Favorite(w)
        PROVE  rows' = rows /\ starred' \subseteq Wallpapers
    BY <1>3 DEF Favorite, TypeOK
  <1>4. ASSUME NEW w \in Wallpapers, Indexed(w)
        PROVE  rows' \in Seq(Wallpapers) /\ IsInjective(rows') /\ starred' = starred
    <2>1. PICK i \in 1..(Len(rows) + 1) : rows' = InsertAt(rows, i, w)
      BY <1>4 DEF Indexed
    <2>2. /\ rows \in Seq(Wallpapers) /\ IsInjective(rows) /\ Len(rows) \in Nat
          /\ DOMAIN rows = 1..Len(rows) /\ \A k \in 1..Len(rows) : rows[k] # w
      BY <1>4, LenProperties DEF TypeOK, Indexed
    <2>3. /\ rows' \in Seq(Wallpapers) /\ Len(rows') = Len(rows) + 1
          /\ \A k \in 1..(i - 1) : rows'[k] = rows[k]
          /\ rows'[i] = w
          /\ \A k \in (i + 1)..(Len(rows) + 1) : rows'[k] = rows[k - 1]
      <3>1. i \in 1..(Len(rows) + 1) /\ w \in Wallpapers
        OBVIOUS
      <3>2. rows' \in Seq(Wallpapers) /\ HasBetween(rows', rows, i, w)
        BY <2>1, <2>2, <3>1, InsertFacts
      <3> QED
        BY <3>2 DEF HasBetween
    <2>4. ASSUME NEW k \in 1..Len(rows'), NEW l \in 1..Len(rows'), k < l
          PROVE  rows'[k] # rows'[l]
      <3> DEFINE old(j) == IF j < i THEN j ELSE j - 1
      <3>1. \A j \in 1..Len(rows') : j # i =>
              old(j) \in 1..Len(rows) /\ rows'[j] = rows[old(j)]
        <4> SUFFICES ASSUME NEW j \in 1..Len(rows'), j # i
                     PROVE  old(j) \in 1..Len(rows) /\ rows'[j] = rows[old(j)]
          OBVIOUS
        <4>1. CASE j < i
          <5>1. j \in 1..(i - 1) /\ j \in 1..Len(rows)
            BY <2>2, <2>3, <4>1
          <5> QED
            BY <2>3, <4>1, <5>1
        <4>2. CASE i < j
          <5>1. j \in (i + 1)..(Len(rows) + 1) /\ j - 1 \in 1..Len(rows) /\ ~(j < i)
            BY <2>2, <2>3, <4>2
          <5> QED
            BY <2>3, <5>1
        <4> QED
          BY <2>2, <2>3, <4>1, <4>2
      <3>2. k # i /\ l # i => old(k) # old(l)
        BY <2>2, <2>3, <2>4
      <3>3. CASE k # i /\ l # i
        <4> HIDE DEF old
        <4> QED
          BY <2>2, <3>1, <3>2, <3>3 DEF IsInjective
      <3>4. CASE k = i \/ l = i
        <4>1. rows'[i] = w /\ k # l
          BY <2>2, <2>3, <2>4, <3>4
        <4> HIDE DEF old
        <4> QED
          BY <2>2, <3>1, <3>4, <4>1
      <3> QED
        BY <3>3, <3>4
    <2>5. DOMAIN rows' = 1..Len(rows') /\ Len(rows') \in Nat
      BY <2>2, <2>3
    <2>6. IsInjective(rows')
      <3> SUFFICES ASSUME NEW k \in 1..Len(rows'), NEW l \in 1..Len(rows'), rows'[k] = rows'[l]
                   PROVE  k = l
        BY <2>5 DEF IsInjective
      <3>1. ~(k < l) /\ ~(l < k)
        BY <2>4
      <3> QED
        BY <3>1, <2>5
    <2> QED
      BY <1>4, <2>3, <2>6 DEF Indexed
  <1>5. CASE Elsewhere
    BY <1>3, <1>4, <1>5 DEF Elsewhere, TypeOK
  <1> QED
    BY <1>1, <1>2, <1>5, Outcomes

\* No step leaves a selection outside the list.
LEMMA StepViewType == TypeOK /\ [Next]_vars =>
  /\ ui' \in {"loop", "ended"} /\ {searching', web', behind'} \subseteq BOOLEAN
  /\ filter' \in Filters /\ list' \in Seq(Cards)
  /\ selected' \in Nat /\ (selected' = 0 \/ selected' < Len(list'))
  /\ seen' \in [items : Seq(Wallpapers \cup Entries), at : Nat]
  <1> DEFINE Good == /\ ui' \in {"loop", "ended"} /\ {searching', web', behind'} \subseteq BOOLEAN
                     /\ filter' \in Filters /\ list' \in Seq(Cards)
                     /\ selected' \in Nat /\ (selected' = 0 \/ selected' < Len(list'))
                     /\ seen' \in [items : Seq(Wallpapers \cup Entries), at : Nat]
  <1> SUFFICES ASSUME TypeOK, [Next]_vars PROVE Good
    OBVIOUS
  <1>0. ASSUME NEW l \in Seq(Cards) PROVE Items(l) \in Seq(Wallpapers \cup Entries)
    <2>1. Len(l) \in Nat /\ \A i \in 1..Len(l) : l[i] \in Cards
      BY LenProperties
    <2> QED
      BY <2>1 DEF Items, Cards
  <1>1. CASE Remade
    <2>1. PICK sel \in Nat : ReloadWith(starred', sel)
      BY <1>1 DEF Remade
    <2>2. PICK l \in Listings(web', filter', starred') : Draw(l, Clamped(sel, Len(l)))
      BY <2>1 DEF ReloadWith
    <2>3. web' \in BOOLEAN /\ searching' \in BOOLEAN /\ filter' \in Filters /\ ui' = "loop"
      BY <1>1 DEF Remade
    <2>4. l \in Seq(Cards) /\ Len(l) \in Nat /\ Items(l) \in Seq(Wallpapers \cup Entries)
      BY <2>2, <2>3, ListingFacts
    <2>5. Clamped(sel, Len(l)) \in Nat
          /\ (Clamped(sel, Len(l)) = 0 \/ Clamped(sel, Len(l)) < Len(l))
      BY <2>4 DEF Clamped
    <2>6. list' = l /\ selected' = Clamped(sel, Len(l)) /\ behind' = FALSE
          /\ seen' = [items |-> Items(l), at |-> Clamped(sel, Len(l))]
      BY <2>1, <2>2 DEF Draw, ReloadWith
    <2> QED
      BY <2>3, <2>4, <2>5, <2>6
  <1>2. CASE Redrawn
    <2>1. PICK sel \in Nat : Redraw(sel) /\ (sel = 0 \/ sel < Len(list))
      BY <1>2 DEF Redrawn
    <2>2. list' = list /\ selected' = sel /\ behind' = behind
          /\ seen' = [items |-> Items(list), at |-> sel]
      BY <2>1 DEF Redraw, Draw
    <2>3. Items(list) \in Seq(Wallpapers \cup Entries)
      BY <1>0 DEF TypeOK
    <2> QED
      BY <1>2, <2>1, <2>2, <2>3 DEF Redrawn, TypeOK
  <1>3. CASE Starred
    <2>1. PICK i \in 0..(Len(list) - 1) :
             Draw([list EXCEPT ![i + 1].favorite = ~list[i + 1].favorite], i)
      BY <1>3 DEF Starred
    <2> DEFINE l == [list EXCEPT ![i + 1].favorite = ~list[i + 1].favorite]
    <2>2. list \in Seq(Cards) /\ Len(list) \in Nat
      BY LenProperties DEF TypeOK
    <2>3. i + 1 \in 1..Len(list) /\ i \in Nat /\ i < Len(list)
      BY <2>2
    <2>4. list[i + 1] \in Cards
      BY <2>2, <2>3, ElementOfSeq
    <2>5. [list[i + 1] EXCEPT !.favorite = ~list[i + 1].favorite] \in Cards
      BY <2>4 DEF Cards
    <2>6. l \in Seq(Cards) /\ Len(l) = Len(list)
      BY <2>2, <2>3, <2>5, ExceptSeq
    <2> HIDE DEF l
    <2>7. Items(l) \in Seq(Wallpapers \cup Entries)
      BY <1>0, <2>6
    <2>8. list' = l /\ selected' = i /\ seen' = [items |-> Items(l), at |-> i]
      BY <2>1 DEF Draw, l
    <2> QED
      BY <1>3, <2>3, <2>6, <2>7, <2>8 DEF Starred, TypeOK
  <1>4. CASE Gone
    BY <1>4 DEF Gone, TypeOK, view
  <1>5. CASE Elsewhere
    BY <1>5 DEF Elsewhere, TypeOK, view
  <1> QED
    BY <1>1, <1>2, <1>3, <1>4, <1>5, Outcomes

\* Until the worker has stored the last entry, those it has stored are the newest of
\* the cache, when nobody else has stored any; the last load's are the newest then.
LoadInv == at["worker"] \in {"store", "done"} /\ ~crossed =>
             \A e \in Entries : IF e \in found["worker"] \ rest["worker"]
                                THEN cached[e] = time["worker"] ELSE cached[e] < time["worker"]
FreshInv == /\ at["worker"] # "idle" => fresh = {}
            /\ Cardinality(fresh) <= PageSize
            /\ \A e \in fresh, d \in Entries \ fresh : cached[d] < cached[e]

\* What a step does to the searches.
LoadKept == UNCHANGED <<searches, cached, previews, answers, crossed, fresh>>
LoadBegun == /\ ~Loading
             /\ at' = [at EXCEPT !["worker"] = "fetch"]
             /\ time' = [time EXCEPT !["worker"] = 0]
             /\ found' = [found EXCEPT !["worker"] = {}]
             /\ crossed' = FALSE
             /\ fresh' = {}
             /\ UNCHANGED <<rest, cached, previews, answers>>
LoadSeen == /\ Idle("worker")
            /\ UNCHANGED <<cached, previews, answers, crossed>>
            /\ fresh' = fresh \/ (at["worker"] = "done" /\ ~crossed /\ fresh' = found["worker"])
LoadStep == BeginCli \/ \E s \in Searchers : Search(s)

\* Every action leaves the searches alone, begins a load, sees its end, or is a step of one.
LEMMA LoadOutcomes == [Next]_vars => LoadKept \/ LoadBegun \/ LoadSeen \/ LoadStep
  <1> SUFFICES ASSUME [Next]_vars PROVE LoadKept \/ LoadBegun \/ LoadSeen \/ LoadStep
    OBVIOUS
  <1> USE DEF tables, searches
  <1>1. (\E t \in Types \cup {"all"} : SetTypeFilter(t)) => LoadKept
    BY DEF SetTypeFilter, KeepTables, LoadKept
  <1>2. (\E c \in Colours \cup {"all"} : SetColorFilter(c)) => LoadKept
    BY DEF SetColorFilter, KeepTables, LoadKept
  <1>3. FavoriteFilter \/ ShowLocal \/ BeginSearch \/ Refresh => LoadKept
    BY DEF FavoriteFilter, ShowLocal, BeginSearch, Refresh, KeepTables, LoadKept
  <1>4. Type \/ Escape => LoadKept
    BY DEF Type, Escape, SetQuery, KeepTables, LoadKept
  <1>5. ASSUME NEW sel, StartLoad(sel) PROVE LoadBegun
    BY <1>5 DEF StartLoad, LoadBegun
  <1>6. LoadWallhaven => LoadKept \/ LoadBegun
    BY <1>5 DEF LoadWallhaven, ShowCache, KeepTables, LoadKept
  <1>7. EnterSearch => LoadKept \/ LoadBegun
    BY <1>5 DEF EnterSearch, ShowCache, KeepTables, LoadKept
  <1>8. ChangeSort \/ NextPage => LoadBegun
    BY <1>5 DEF ChangeSort, NextPage
  <1>9. Finish => LoadSeen
    BY DEF Finish, LoadSeen
  <1>10. (\E i \in 0..(Len(list) - 1) : Act(i)) => LoadKept
    BY DEF Act, MoveSelection, ApplyAt, Click, ToggleFavoriteAt, KeepTables, LoadKept
  <1>11. ApplyRandom \/ Quit => LoadKept
    BY DEF ApplyRandom, Quit, LoadKept
  <1>12. Killed \/ Restart => LoadSeen
    BY DEF Killed, Restart, LoadSeen
  <1>13. (\E w \in Wallpapers : Indexed(w) \/ Favorite(w)) => LoadKept
    BY DEF Indexed, Favorite, LoadKept
  <1>14. UNCHANGED vars => LoadKept
    BY DEF vars, LoadKept
  <1>15. View => LoadKept \/ LoadBegun \/ LoadSeen
    BY <1>1, <1>2, <1>3, <1>4, <1>6, <1>7, <1>8, <1>9 DEF View
  <1> QED
    BY <1>10, <1>11, <1>12, <1>13, <1>14, <1>15 DEF Next, LoadStep

SearchType ==
  /\ answers \in 0..MaxAnswers
  /\ cached \in [Entries -> 0..answers]
  /\ previews \subseteq {e \in Entries : cached[e] > 0}
  /\ at \in [Searchers -> {"idle", "fetch", "store", "done", "failed"}]
  /\ time \in [Searchers -> 0..answers]
  /\ found \in [Searchers -> SUBSET Entries]
  /\ rest \in [Searchers -> SUBSET Entries]
  /\ \A s \in Searchers : rest[s] \subseteq found[s]
  /\ crossed \in BOOLEAN
  /\ fresh \subseteq Entries

LoadsInv == SearchType /\ SearchInv /\ LoadInv /\ FreshInv

\* The sets of entries are finite, the bounds are numbers.
LEMMA SmallFacts ==
  /\ PageSize \in Nat /\ Cap \in Nat /\ PageSize <= Cap /\ MaxAnswers \in Nat
  /\ Cardinality({}) = 0
  /\ \A S \in SUBSET Entries : IsFiniteSet(S) /\ Cardinality(S) \in Nat
  <1>1. \A S \in SUBSET Entries : IsFiniteSet(S)
    BY EntriesAssumption, FS_Subset
  <1> QED
    BY <1>1, CapAssumption, AnswersAssumption, FS_EmptySet, FS_CardinalityType

\* The five parts of the step: a load begins, its end is seen, an answer comes,
\* an entry is stored, a search ends.
LEMMA BegunStep == LoadsInv /\ LoadBegun => LoadsInv'
  <1> SUFFICES ASSUME LoadsInv, LoadBegun PROVE LoadsInv'
    OBVIOUS
  <1> USE DEF LoadsInv, LoadBegun, Searchers
  <1>1. rest["worker"] = {}
    BY DEF SearchType, SearchInv, Loading
  <1>2. SearchType'
    <2>1. at' \in [Searchers -> {"idle", "fetch", "store", "done", "failed"}]
      BY DEF SearchType
    <2>2. time' \in [Searchers -> 0..answers]
      BY DEF SearchType
    <2>3. found' \in [Searchers -> SUBSET Entries]
      BY DEF SearchType
    <2>4. \A s \in Searchers : rest[s] \subseteq found'[s]
      BY <1>1 DEF SearchType
    <2> QED
      BY <2>1, <2>2, <2>3, <2>4 DEF SearchType
  <1>3. SearchInv'
    BY <1>1, SmallFacts DEF SearchType, SearchInv
  <1>4. LoadInv'
    BY DEF SearchType, LoadInv
  <1>5. FreshInv'
    BY SmallFacts DEF FreshInv
  <1> QED
    BY <1>2, <1>3, <1>4, <1>5

LEMMA SeenStep == LoadsInv /\ LoadSeen => LoadsInv'
  <1> SUFFICES ASSUME LoadsInv, LoadSeen PROVE LoadsInv'
    OBVIOUS
  <1> USE DEF LoadsInv, LoadSeen, Idle, Searchers
  <1>1. SearchType'
    BY DEF SearchType
  <1>2. SearchInv'
    BY SmallFacts DEF SearchType, SearchInv
  <1>3. LoadInv'
    BY DEF SearchType, LoadInv
  <1>4. FreshInv'
    <2>1. at'["worker"] = "idle" /\ cached' = cached
      BY DEF SearchType
    <2>2. CASE fresh' = fresh
      BY <2>1, <2>2 DEF FreshInv
    <2>3. CASE at["worker"] = "done" /\ ~crossed /\ fresh' = found["worker"]
      <3>1. rest["worker"] = {} /\ Cardinality(fresh') <= PageSize
        BY <2>3 DEF SearchInv
      <3>2. \A e \in Entries : IF e \in fresh' THEN cached[e] = time["worker"]
                               ELSE cached[e] < time["worker"]
        BY <2>3, <3>1 DEF LoadInv
      <3>3. fresh' \subseteq Entries
        BY <2>3 DEF SearchType
      <3>4. \A e \in fresh', d \in Entries \ fresh' : cached[d] < cached[e]
        BY <3>2, <3>3
      <3> QED
        BY <2>1, <3>1, <3>4 DEF FreshInv
    <2> QED
      BY <2>2, <2>3
  <1> QED
    BY <1>1, <1>2, <1>3, <1>4

LEMMA FetchStep == ASSUME LoadsInv, NEW s \in Searchers, Fetch(s) PROVE LoadsInv'
  <1> USE DEF LoadsInv, Searchers
  <1>1. PICK S \in SUBSET Entries : /\ Cardinality(S) <= PageSize
                                    /\ found' = [found EXCEPT ![s] = S]
                                    /\ rest' = [rest EXCEPT ![s] = S]
    BY DEF Fetch
  <1>2. /\ at[s] = "fetch" /\ answers < MaxAnswers /\ answers' = answers + 1
        /\ time' = [time EXCEPT ![s] = answers + 1]
        /\ at' = [at EXCEPT ![s] = "store"]
        /\ UNCHANGED <<cached, previews, crossed, fresh>>
    BY DEF Fetch
  <1>3. SearchType'
    <2>1. answers' \in 0..MaxAnswers /\ answers \in Nat /\ 0..answers \subseteq 0..answers'
      BY <1>2, SmallFacts DEF SearchType
    <2>2. cached' \in [Entries -> 0..answers']
      BY <1>2, <2>1 DEF SearchType
    <2>3. time' \in [Searchers -> 0..answers']
      BY <1>2, <2>1 DEF SearchType
    <2>4. found' \in [Searchers -> SUBSET Entries] /\ rest' \in [Searchers -> SUBSET Entries]
          /\ \A r \in Searchers : rest'[r] \subseteq found'[r]
      BY <1>1 DEF SearchType
    <2>5. at' \in [Searchers -> {"idle", "fetch", "store", "done", "failed"}]
      BY <1>2 DEF SearchType
    <2> QED
      BY <1>2, <2>1, <2>2, <2>3, <2>4, <2>5 DEF SearchType
  <1>4. SearchInv'
    BY <1>1, <1>2 DEF SearchType, SearchInv
  <1>5. LoadInv'
    <2>1. CASE s = "worker"
      <3>1. /\ found'["worker"] \ rest'["worker"] = {}
            /\ time'["worker"] = answers + 1 /\ cached' = cached
        BY <1>1, <1>2, <2>1 DEF SearchType
      <3>2. \A e \in Entries : cached[e] < answers + 1
        BY DEF SearchType
      <3> QED
        BY <3>1, <3>2 DEF LoadInv
    <2>2. CASE s = "cli"
      BY <1>1, <1>2, <2>2 DEF SearchType, LoadInv
    <2> QED
      BY <2>1, <2>2
  <1>6. FreshInv'
    BY <1>2 DEF SearchType, FreshInv
  <1> QED
    BY <1>3, <1>4, <1>5, <1>6

LEMMA StoreStep ==
  ASSUME LoadsInv, NEW s \in Searchers, NEW e \in Entries, Store(s, e) PROVE LoadsInv'
  <1> USE DEF LoadsInv, Searchers
  <1>1. /\ at[s] = "store" /\ e \in rest[s]
        /\ rest' = [rest EXCEPT ![s] = @ \ {e}]
        /\ cached' = [cached EXCEPT ![e] = time[s]]
        /\ crossed' = (crossed \/ s = "cli")
        /\ fresh' = IF s = "cli" THEN {} ELSE fresh
        /\ UNCHANGED <<answers, at, time, found>>
    BY DEF Store
  <1>2. previews' = previews \cup {e} \/ previews' = previews \ {e}
    BY DEF Store
  <1>3. cached' \in [Entries -> 0..answers] /\ cached'[e] > 0
        /\ \A d \in Entries : d # e => cached'[d] = cached[d]
    BY <1>1 DEF SearchType, SearchInv
  <1>4. SearchType'
    <2>1. previews' \subseteq {d \in Entries : cached'[d] > 0}
      BY <1>2, <1>3 DEF SearchType
    <2>2. rest' \in [Searchers -> SUBSET Entries]
          /\ \A r \in Searchers : rest'[r] \subseteq found'[r]
      BY <1>1 DEF SearchType
    <2>3. crossed' \in BOOLEAN
      BY <1>1 DEF SearchType
    <2>4. fresh' \subseteq Entries
      BY <1>1 DEF SearchType
    <2> QED
      BY <1>1, <1>3, <2>1, <2>2, <2>3, <2>4 DEF SearchType
  <1>5. SearchInv'
    BY <1>1 DEF SearchType, SearchInv
  <1>6. LoadInv'
    <2>1. CASE s = "worker"
      <3> SUFFICES ASSUME ~crossed, NEW d \in Entries
                   PROVE  IF d \in found["worker"] \ rest'["worker"]
                          THEN cached'[d] = time["worker"] ELSE cached'[d] < time["worker"]
        BY <1>1, <2>1 DEF LoadInv
      <3>1. IF d \in found["worker"] \ rest["worker"]
            THEN cached[d] = time["worker"] ELSE cached[d] < time["worker"]
        BY <1>1, <2>1 DEF LoadInv
      <3>2. rest'["worker"] = rest["worker"] \ {e} /\ e \in found["worker"]
        BY <1>1, <2>1 DEF SearchType
      <3>3. CASE d = e
        BY <1>1, <2>1, <3>2, <3>3 DEF SearchType
      <3>4. CASE d # e
        BY <1>3, <3>1, <3>2, <3>4
      <3> QED
        BY <3>3, <3>4
    <2>2. CASE s = "cli"
      BY <1>1, <2>2 DEF LoadInv
    <2> QED
      BY <2>1, <2>2
  <1>7. FreshInv'
    <2>1. fresh' = {}
      BY <1>1 DEF FreshInv
    <2> QED
      BY <2>1, SmallFacts DEF FreshInv
  <1> QED
    BY <1>4, <1>5, <1>6, <1>7

LEMMA EndStep ==
  ASSUME LoadsInv, NEW s \in Searchers, SearchEnds(s) \/ SearchFails(s) \/ (BeginCli /\ s = "cli")
  PROVE  LoadsInv'
  <1> USE DEF LoadsInv, Searchers, SearchEnds, SearchFails, BeginCli, Idle, tables
  <1>0. UNCHANGED <<answers, cached, previews, crossed, fresh>>
    OBVIOUS
  <1>1. at' \in [Searchers -> {"idle", "fetch", "store", "done", "failed"}]
    BY DEF SearchType
  <1>2. time' \in [Searchers -> 0..answers]
    BY DEF SearchType
  <1>3. found' \in [Searchers -> SUBSET Entries] /\ rest' \in [Searchers -> SUBSET Entries]
        /\ \A r \in Searchers : rest'[r] \subseteq found'[r]
    BY DEF SearchType
  <1>4. SearchType'
    BY <1>0, <1>1, <1>2, <1>3 DEF SearchType
  <1>5. SearchInv'
    BY SmallFacts DEF SearchType, SearchInv
  <1>6. LoadInv'
    <2>1. CASE s = "worker"
      BY <2>1 DEF SearchType, LoadInv
    <2>2. CASE s = "cli"
      BY <2>2 DEF SearchType, LoadInv
    <2> QED
      BY <2>1, <2>2
  <1>7. FreshInv'
    BY DEF SearchType, FreshInv
  <1> QED
    BY <1>4, <1>5, <1>6, <1>7

\* Together they keep the invariant of the searches.
LEMMA StepLoads == LoadsInv /\ [Next]_vars => LoadsInv'
  <1> SUFFICES ASSUME LoadsInv, [Next]_vars PROVE LoadsInv'
    OBVIOUS
  <1>1. CASE LoadKept
    BY <1>1 DEF LoadKept, searches, LoadsInv, SearchType, SearchInv, LoadInv, FreshInv
  <1>2. CASE LoadBegun
    BY <1>2, BegunStep
  <1>3. CASE LoadSeen
    BY <1>3, SeenStep
  <1>4. CASE BeginCli
    BY <1>4, EndStep DEF Searchers
  <1>5. ASSUME NEW s \in Searchers, Search(s) PROVE LoadsInv'
    BY <1>5, FetchStep, StoreStep, EndStep DEF Search
  <1> QED
    BY <1>1, <1>2, <1>3, <1>4, <1>5, LoadOutcomes DEF LoadStep

LEMMA InitLoads == Init => LoadsInv
  <1> SUFFICES ASSUME Init PROVE LoadsInv
    OBVIOUS
  <1> USE DEF Init, Searchers
  <1>1. SearchType
    <2>1. answers \in 0..MaxAnswers /\ 0 \in 0..answers
      BY SmallFacts
    <2>2. cached \in [Entries -> 0..answers] /\ time \in [Searchers -> 0..answers]
      BY <2>1
    <2>3. at \in [Searchers -> {"idle", "fetch", "store", "done", "failed"}]
      OBVIOUS
    <2>4. found \in [Searchers -> SUBSET Entries] /\ rest \in [Searchers -> SUBSET Entries]
          /\ \A s \in Searchers : rest[s] \subseteq found[s]
      OBVIOUS
    <2> QED
      BY <2>1, <2>2, <2>3, <2>4 DEF SearchType
  <1>2. SearchInv /\ LoadInv /\ FreshInv
    BY SmallFacts DEF SearchInv, LoadInv, FreshInv
  <1> QED
    BY <1>1, <1>2 DEF LoadsInv

LEMMA InitType == Init => TypeOK
  <1> SUFFICES ASSUME Init PROVE TypeOK
    OBVIOUS
  <1>1. SearchType
    BY InitLoads DEF LoadsInv
  <1>2. rows \in Seq(Wallpapers) /\ IsInjective(rows) /\ list \in Seq(Cards)
    BY DEF Init, IsInjective
  <1>3. filter \in Filters /\ seen \in [items : Seq(Wallpapers \cup Entries), at : Nat]
    <2>1. filter \in Filters
      BY DEF Init, NoFilter, Filters
    <2>2. <<>> \in Seq(Wallpapers \cup Entries) /\ 0 \in Nat
      OBVIOUS
    <2>3. seen = [items |-> <<>>, at |-> 0]
      BY DEF Init
    <2> QED
      BY <2>1, <2>2, <2>3
  <1> QED
    BY <1>1, <1>2, <1>3 DEF TypeOK, SearchType, Init

\* The type invariant is inductive with that of the searches: what is stored is an
\* entry only because what is left to store is part of the answer.
LEMMA StepType == TypeOK /\ LoadsInv /\ [Next]_vars => TypeOK'
  <1> SUFFICES ASSUME TypeOK, LoadsInv, [Next]_vars PROVE TypeOK'
    OBVIOUS
  <1>1. SearchType'
    BY StepLoads DEF LoadsInv
  <1> QED
    BY <1>1, StepRows, StepViewType DEF TypeOK, SearchType

GalleryInv == TypeOK /\ LoadsInv

\* The types of the picker and the invariant of the searches, kept together.
THEOREM GalleryInvHolds == Spec => []GalleryInv
  <1>1. Init => GalleryInv
    BY InitType, InitLoads DEF GalleryInv
  <1>2. GalleryInv /\ [Next]_vars => GalleryInv'
    BY StepType, StepLoads DEF GalleryInv
  <1> QED
    BY <1>1, <1>2, PTL DEF Spec

\* The list, the selection, the tables and the searches are well formed: the
\* selection is a place of the list, a picture is indexed once (wayland_app.cpp).
THEOREM GalleryTypeCorrect == Spec => []TypeOK
  <1>1. GalleryInv => TypeOK
    BY DEF GalleryInv
  <1> QED
    BY GalleryInvHolds, <1>1, PTL

\* Every handler that changes the list or the selection draws them.
LEMMA StepSeen == TypeOK /\ WhatIsSeenIsActedOn /\ [Next]_vars => WhatIsSeenIsActedOn'
  <1> SUFFICES ASSUME TypeOK, WhatIsSeenIsActedOn, [Next]_vars PROVE WhatIsSeenIsActedOn'
    OBVIOUS
  <1> USE DEF WhatIsSeenIsActedOn
  <1>1. ASSUME NEW l, NEW sel, Draw(l, sel) PROVE WhatIsSeenIsActedOn'
    BY <1>1 DEF Draw, Items
  <1>2. CASE Remade
    BY <1>1, <1>2 DEF Remade, ReloadWith
  <1>3. CASE Redrawn
    BY <1>1, <1>3 DEF Redrawn, Redraw
  <1>4. CASE Starred
    BY <1>1, <1>4 DEF Starred
  <1>5. CASE Gone
    BY <1>5 DEF Gone
  <1>6. CASE Elsewhere
    BY <1>6 DEF Elsewhere, view, Items
  <1> QED
    BY <1>2, <1>3, <1>4, <1>5, <1>6, Outcomes

\* No handler of the picker leaves a list or a selection it has not drawn (redraw at
\* the end of every one, redraw of dirty data).
THEOREM SeenIsActedOn == Spec => []WhatIsSeenIsActedOn
  <1>1. Init => WhatIsSeenIsActedOn
    BY DEF Init, WhatIsSeenIsActedOn, Items
  <1>2. TypeOK /\ WhatIsSeenIsActedOn /\ [Next]_vars => WhatIsSeenIsActedOn'
    BY StepSeen
  <1> QED
    BY <1>1, <1>2, GalleryTypeCorrect, PTL DEF Spec

\* The lists depend on the tables alone.
LEMMA SameListings ==
  ASSUME UNCHANGED <<rows, cached, previews>>, NEW inWeb, NEW f, NEW stars
  PROVE  Listings(inWeb, f, stars)' = Listings(inWeb, f, stars)
  BY DEF Listings, WebLists, NewestFirst, Newer, LocalList

\* The stars after toggle_favorite_at on x.
Flipped(stars, x, favorite) == IF ~favorite THEN stars \cup {x} ELSE stars \ {x}

\* The list after it.
StarAt(l, i) == [l EXCEPT ![i].favorite = ~l[i].favorite]

\* Without the filter of favourites a star changes nothing but itself.
LEMMA StarFacts ==
  ASSUME rows \in Seq(Wallpapers), IsInjective(rows), NEW f, ~f.favorites, NEW stars,
         NEW l, l = LocalList(f, stars), NEW i \in 1..Len(l),
         NEW more, more = Flipped(stars, l[i].item, l[i].favorite),
         NEW e, e = StarAt(l, i)
  PROVE  e = LocalList(f, more)
  <1> DEFINE P == {k \in DOMAIN rows : Passes(rows[k], rows[k] \in stars, f)}
             Q == {k \in DOMAIN rows : Passes(rows[k], rows[k] \in more, f)}
             p == Selected(rows, P)
             q == Selected(rows, Q)
             fav == l[i].favorite
  <1>1. P = Q
    BY DEF Passes
  <1>2. l = [k \in 1..Len(p) |-> Item(p[k], p[k] \in stars)]
    BY DEF LocalList
  <1>3. LocalList(f, more) = [k \in 1..Len(q) |-> Item(q[k], q[k] \in more)]
    BY DEF LocalList
  <1>4. p = q
    BY <1>1
  <1> HIDE DEF p, q, P, Q
  <1>5. /\ DOMAIN l = 1..Len(l)
        /\ \A k \in 1..Len(l) : l[k].favorite = (l[k].item \in stars)
        /\ \A k, m \in 1..Len(l) : l[k].item = l[m].item => k = m
    BY LocalListFacts
  <1>6. 1..Len(l) = 1..Len(p)
    BY <1>2, <1>5
  <1>7. \A k \in 1..Len(p) : l[k] = Item(p[k], p[k] \in stars)
    BY <1>2
  <1>8. \A k \in 1..Len(p) : l[k].item = p[k]
    BY <1>2 DEF Item
  <1>9. fav = (p[i] \in stars) /\ l[i].item = p[i]
    BY <1>5, <1>6, <1>8
  <1>10. more = IF ~fav THEN stars \cup {p[i]} ELSE stars \ {p[i]}
    BY <1>9 DEF Flipped
  <1>11. (p[i] \in more) = ~fav
    <2> HIDE DEF fav
    <2>1. CASE p[i] \in stars
      <3>1. fav = TRUE
        BY <1>9, <2>1
      <3>2. ~(p[i] \in more)
        BY <1>10, <3>1
      <3> QED
        BY <3>1, <3>2
    <2>2. CASE p[i] \notin stars
      <3>1. fav = FALSE
        <4>1. (p[i] \in stars) = FALSE
          BY <2>2
        <4> QED
          BY <1>9, <4>1
      <3>2. p[i] \in more
        BY <1>10, <3>1
      <3> QED
        BY <3>1, <3>2
    <2> QED
      BY <2>1, <2>2
  <1>12. ASSUME NEW k \in 1..Len(p), k # i PROVE (p[k] \in more) = (p[k] \in stars)
    <2>1. p[k] # p[i]
      BY <1>5, <1>6, <1>8, <1>12
    <2>2. p[k] \in more <=> p[k] \in stars
      BY <1>10, <2>1
    <2> QED
      BY <2>2
  <1>13. ASSUME NEW k \in 1..Len(p)
         PROVE  e[k] = Item(q[k], q[k] \in more)
    <2>1. CASE k = i
      <3>1. e[k] = [l[i] EXCEPT !.favorite = ~fav]
        BY <1>5, <1>6, <2>1 DEF StarAt
      <3>2. l[i] = Item(p[i], fav)
        BY <1>6, <1>7, <1>9
      <3> HIDE DEF fav
      <3>3. [l[i] EXCEPT !.favorite = ~fav] = Item(p[i], ~fav)
        BY <3>2 DEF Item
      <3> QED
        BY <1>4, <1>11, <2>1, <3>1, <3>3
    <2>2. CASE k # i
      <3>1. e[k] = l[k]
        BY <1>5, <1>6, <2>2 DEF StarAt
      <3> QED
        BY <1>4, <1>7, <1>12, <2>2, <3>1
    <2> QED
      BY <2>1, <2>2
  <1>14. e = [k \in 1..Len(p) |-> e[k]]
    BY <1>5, <1>6 DEF StarAt
  <1>15. \A k \in 1..Len(p) : e[k] = Item(q[k], q[k] \in more)
    BY <1>13
  <1> QED
    BY <1>3, <1>4, <1>14, <1>15

\* A list that is made again is as asked; a star is set in the list and the table alike.
LEMMA StepAsked == TypeOK /\ ListIsAsAsked /\ [Next]_vars => ListIsAsAsked'
  <1> SUFFICES ASSUME TypeOK, ListIsAsAsked, [Next]_vars PROVE ListIsAsAsked'
    OBVIOUS
  <1>0. rows \in Seq(Wallpapers) /\ IsInjective(rows)
    BY DEF TypeOK
  <1>1. CASE Remade
    <2>1. PICK l \in Listings(web', filter', starred') : list' = l
      BY <1>1 DEF Remade, ReloadWith, Draw
    <2>2. UNCHANGED <<rows, cached, previews>>
      BY <1>1 DEF Remade
    <2>3. list' \in Listings(web, filter, starred)'
      BY <2>1, <2>2, SameListings
    <2>4. ASSUME ~web', NEW i \in 1..Len(list')
          PROVE  Passes(list'[i].item, list'[i].favorite, filter')
      <3>1. list' = LocalList(filter', starred')
        BY <2>1, <2>4 DEF Listings
      <3> QED
        BY <1>0, <2>4, <3>1, LocalListFacts
    <2> QED
      BY <2>3, <2>4 DEF ListIsAsAsked
  <1>2. CASE Redrawn
    <2>1. /\ UNCHANGED <<rows, starred, cached, previews, ui, web, filter, list, behind>>
      BY <1>2 DEF Redrawn, Redraw, Draw, tables
    <2> QED
      BY <2>1, SameListings DEF ListIsAsAsked
  <1>3. CASE Starred
    <2>1. PICK j \in 0..(Len(list) - 1) :
             /\ list[j + 1].item \in Wallpapers
             /\ starred' = IF ~list[j + 1].favorite THEN starred \cup {list[j + 1].item}
                           ELSE starred \ {list[j + 1].item}
             /\ list' = [list EXCEPT ![j + 1].favorite = ~list[j + 1].favorite]
      BY <1>3 DEF Starred, Draw
    <2>2. /\ UNCHANGED <<rows, cached, previews, ui, web, filter, behind>>
          /\ ui = "loop" /\ ~filter.favorites
      BY <1>3 DEF Starred
    <2>3. PICK i \in 1..Len(list) : i = j + 1
      BY LenProperties DEF TypeOK
    <2>4. ASSUME ~behind PROVE list' \in Listings(web, filter, starred)'
      <3>1. CASE web
        <4>1. IsFiniteSet(previews) /\ previews \subseteq Entries
          BY EntriesAssumption, FS_Subset DEF TypeOK
        <4>2. list \in WebLists
          BY <2>2, <2>4, <3>1 DEF ListIsAsAsked, Listings
        <4>3. list[i].item \in previews
          BY <4>1, <4>2, CapAssumption, WebListFacts
        <4> QED
          BY <2>1, <2>3, <4>1, <4>3, WallpapersAssumption
      <3>2. CASE ~web
        <4>1. list = LocalList(filter, starred)
          BY <2>2, <2>4, <3>2 DEF ListIsAsAsked, Listings
        <4>2. /\ list' = StarAt(list, i)
              /\ starred' = Flipped(starred, list[i].item, list[i].favorite)
          BY <2>1, <2>3 DEF Flipped, StarAt
        <4>3. list' = LocalList(filter, starred')
          BY <1>0, <2>2, <4>1, <4>2, StarFacts
        <4>4. list' \in Listings(web', filter', starred')
          BY <2>2, <3>2, <4>3 DEF Listings
        <4> QED
          BY <2>2, <4>4, SameListings
      <3> QED
        BY <3>1, <3>2
    <2>5. ASSUME ~web, NEW k \in 1..Len(list')
          PROVE  Passes(list'[k].item, list'[k].favorite, filter)
      <3>1. list \in Seq(Cards) /\ k \in 1..Len(list) /\ DOMAIN list = 1..Len(list)
        BY <2>1, <2>5, LenProperties DEF TypeOK
      <3>2. list[k] \in Cards
        BY <3>1, ElementOfSeq
      <3>3. list'[k].item = list[k].item
        BY <2>1, <3>1, <3>2 DEF Cards
      <3>4. Passes(list[k].item, list[k].favorite, filter)
        BY <2>2, <2>5, <3>1 DEF ListIsAsAsked
      <3> QED
        BY <2>2, <3>3, <3>4 DEF Passes
    <2> QED
      BY <2>2, <2>4, <2>5 DEF ListIsAsAsked
  <1>4. CASE Gone
    BY <1>4 DEF Gone, ListIsAsAsked
  <1>5. CASE Elsewhere
    <2>1. UNCHANGED <<ui, web, filter, list>>
      BY <1>5 DEF Elsewhere, view
    <2>2. CASE behind' = TRUE
      BY <2>1, <2>2 DEF ListIsAsAsked
    <2>3. CASE UNCHANGED <<rows, starred, cached, previews, behind>>
      BY <2>1, <2>3, SameListings DEF ListIsAsAsked
    <2> QED
      BY <1>5, <2>2, <2>3 DEF Elsewhere
  <1> QED
    BY <1>1, <1>2, <1>3, <1>4, <1>5, Outcomes

\* Through every order of filters, searches, pages, stars and refused loads, what is
\* listed is what is asked for (load_wallpapers and the handlers that dirty the data).
THEOREM ListsAreAsAsked == Spec => []ListIsAsAsked
  <1>1. Init => ListIsAsAsked
    <2> SUFFICES ASSUME Init PROVE ListIsAsAsked
      OBVIOUS
    <2>1. list = <<>> /\ rows = <<>> /\ ~web
      BY DEF Init
    <2>2. LocalList(filter, starred) = <<>>
      <3> DEFINE P == {i \in DOMAIN rows : Passes(rows[i], rows[i] \in starred, filter)}
                 p == Selected(rows, P)
      <3>1. P = {}
        BY <2>1
      <3>2. LocalList(filter, starred) = [i \in 1..Len(p) |-> Item(p[i], p[i] \in starred)]
        BY DEF LocalList
      <3> HIDE DEF P
      <3>3. Cardinality(P) = 0
        BY <3>1, FS_EmptySet
      <3>4. p = [k \in 1..Cardinality(P) |-> rows[CHOOSE i \in P : Rank(P, i) = k]]
        BY DEF Selected
      <3> HIDE DEF p
      <3>5. Len(p) = 0
        BY <3>3, <3>4
      <3> QED
        BY <3>2, <3>5
    <2> QED
      BY <2>1, <2>2 DEF ListIsAsAsked, Listings
  <1>2. TypeOK /\ ListIsAsAsked /\ [Next]_vars => ListIsAsAsked'
    BY StepAsked
  <1> QED
    BY <1>1, <1>2, GalleryTypeCorrect, PTL DEF Spec

\* The newest of the cache, when they are no more than a page, are in every list of it.
LEMMA NewestAreListed ==
  ASSUME SearchType, NEW F \in SUBSET Entries, Cardinality(F) <= PageSize,
         \A e \in F, d \in Entries \ F : cached[d] < cached[e],
         NEW l \in WebLists, NEW e \in F \cap previews
  PROVE  \E i \in 1..Len(l) : l[i].item = e
  <1> DEFINE n == Cardinality(previews)
  <1>1. previews \in SUBSET Entries /\ \A d \in Entries : cached[d] \in Int
    BY SmallFacts DEF SearchType
  <1>2. IsFiniteSet(previews) /\ n \in Nat /\ IsFiniteSet(F) /\ Cardinality(F) \in Nat
    BY <1>1, SmallFacts
  <1>3. PICK s \in NewestFirst(previews) :
               l = [i \in 1..Shortest(Cap, Len(s)) |-> Item(s[i], FALSE)]
    BY DEF WebLists
  <1> DEFINE m == Shortest(Cap, Len(s))
  <1>4. s \in [1..n -> previews] /\ IsInjective(s)
    BY DEF NewestFirst, SetToSeqs, IsInjective
  <1>5. /\ Len(s) = n
        /\ \A i, j \in 1..n : i < j => cached[s[i]] >= cached[s[j]]
    <2>1. Len(s) = n
      BY <1>2, <1>4
    <2> QED
      BY <2>1 DEF NewestFirst, Newer
  <1>6. m \in Nat /\ (m = Cap \/ m = n) /\ m <= n
    BY <1>2, <1>5, CapAssumption DEF Shortest
  <1>7. PICK k \in 1..n : s[k] = e
    <2>1. s \in Injection(1..n, previews)
      BY <1>4 DEF Injection
    <2>2. Cardinality(1..n) = n
      BY <1>2, FS_Interval
    <2>3. s \in Surjection(1..n, previews)
      BY <1>2, <2>1, <2>2, FS_Injection
    <2> QED
      BY <2>3 DEF Surjection
  <1>8. k <= m
    <2> SUFFICES ASSUME ~(k <= m) PROVE FALSE
      OBVIOUS
    <2>1. k \in Int /\ m = Cap /\ PageSize < k /\ k \in Nat
      BY <1>2, <1>6, CapAssumption
    <2>2. \A i \in 1..k : s[i] \in F
      <3> SUFFICES ASSUME NEW i \in 1..k, s[i] \notin F PROVE FALSE
        OBVIOUS
      <3>1. i \in 1..n /\ i \in Int /\ i # k
        BY <1>2, <1>7
      <3>2. i < k
        BY <3>1
      <3>3. s[i] \in Entries \ F /\ e \in F
        BY <1>1, <1>4, <3>1
      <3>4. cached[s[i]] < cached[e] /\ cached[s[i]] >= cached[e]
        BY <1>5, <1>7, <3>1, <3>2, <3>3
      <3>5. cached[s[i]] \in Int /\ cached[e] \in Int
        BY <1>1, <3>3
      <3> QED
        BY <3>4, <3>5
    <2> DEFINE t == [i \in 1..k |-> s[i]]
    <2>3. t \in [1..k -> F]
      BY <2>2
    <2>4. \A i \in 1..k : i \in 1..n
      BY <1>2
    <2>5. t \in Injection(1..k, F)
      BY <1>4, <2>3, <2>4 DEF Injection, IsInjective
    <2>6. Cardinality(1..k) <= Cardinality(F)
      BY <1>2, <2>5, FS_Injection
    <2>7. Cardinality(1..k) = k
      BY <2>1, FS_Interval
    <2> QED
      BY <1>2, <2>1, <2>6, <2>7, CapAssumption
  <1> HIDE DEF m
  <1>9. l = [i \in 1..m |-> Item(s[i], FALSE)]
    BY <1>3 DEF m
  <1>10. Len(l) = m /\ k \in 1..m
    BY <1>6, <1>8, <1>9
  <1>11. l[k].item = e
    BY <1>7, <1>9, <1>10 DEF Item
  <1> QED
    BY <1>10, <1>11

\* A list that is made again holds the newest entries, a kept one what it held.
LEMMA StepFresh ==
  TypeOK /\ LoadsInv /\ FreshResultsAreShown /\ [Next]_vars => FreshResultsAreShown'
  <1> SUFFICES ASSUME TypeOK, LoadsInv, FreshResultsAreShown, [Next]_vars
               PROVE  FreshResultsAreShown'
    OBVIOUS
  <1>0. LoadsInv'
    BY StepLoads
  <1>1. CASE Remade
    <2> SUFFICES ASSUME web', NEW e \in fresh' \cap previews'
                 PROVE  \E i \in 1..Len(list') : list'[i].item = e
      BY DEF FreshResultsAreShown, Listed
    <2>1. list' \in WebLists
      BY <1>1 DEF Remade, ReloadWith, Draw, Listings
    <2>2. cached' = cached /\ previews' = previews
      BY <1>1 DEF Remade
    <2>3. /\ fresh' \in SUBSET Entries /\ Cardinality(fresh') <= PageSize
          /\ \A x \in fresh', d \in Entries \ fresh' : cached[d] < cached[x]
      BY <1>0, <2>2 DEF LoadsInv, SearchType, FreshInv
    <2>4. SearchType /\ e \in fresh' \cap previews
      BY <2>2 DEF LoadsInv
    <2> QED
      BY <2>1, <2>3, <2>4, NewestAreListed
  <1>2. CASE Redrawn
    BY <1>2 DEF Redrawn, Redraw, Draw, tables, FreshResultsAreShown, Listed
  <1>3. CASE Starred
    <2> SUFFICES ASSUME web' PROVE fresh' \cap previews' \subseteq Listed'
      BY DEF FreshResultsAreShown
    <2>1. /\ UNCHANGED <<previews, fresh>> /\ ui = "loop" /\ web
      BY <1>3 DEF Starred
    <2>2. fresh \cap previews \subseteq Listed
      BY <2>1 DEF FreshResultsAreShown
    <2>3. PICK j \in 0..(Len(list) - 1) :
             list' = [list EXCEPT ![j + 1].favorite = ~list[j + 1].favorite]
      BY <1>3 DEF Starred, Draw
    <2>4. list \in Seq(Cards) /\ DOMAIN list = 1..Len(list)
      BY LenProperties DEF TypeOK
    <2>5. Len(list') = Len(list)
      BY <2>3, <2>4
    <2>6. ASSUME NEW i \in 1..Len(list) PROVE list'[i].item = list[i].item
      <3>1. list[i] \in Cards
        BY <2>4, ElementOfSeq
      <3> QED
        BY <2>3, <2>4, <3>1 DEF Cards
    <2>7. Listed' = Listed
      BY <2>5, <2>6 DEF Listed
    <2> QED
      BY <2>1, <2>2, <2>7
  <1>4. CASE Gone
    BY <1>4 DEF Gone, FreshResultsAreShown
  <1>5. CASE Elsewhere
    <2>1. UNCHANGED <<ui, web, list>>
      BY <1>5 DEF Elsewhere, view
    <2>2. CASE fresh' = {}
      BY <2>2 DEF FreshResultsAreShown
    <2>3. CASE UNCHANGED <<previews, fresh>>
      BY <2>1, <2>3 DEF FreshResultsAreShown, Listed
    <2>4. CASE fresh' = fresh /\ at["worker"] = "store"
      BY <2>2, <2>4 DEF LoadsInv, FreshInv
    <2> QED
      BY <1>5, <2>2, <2>3, <2>4 DEF Elsewhere
  <1> QED
    BY <1>1, <1>2, <1>3, <1>4, <1>5, Outcomes

\* What the last load has brought is in the list once the picker has seen its end, for
\* every size of a page below the cap (cached_wallhaven's order and limit).
THEOREM FreshResultsAreListed == Spec => []FreshResultsAreShown
  <1>1. Init => FreshResultsAreShown
    BY DEF Init, FreshResultsAreShown
  <1>2. GalleryInv /\ FreshResultsAreShown /\ [Next]_vars => FreshResultsAreShown'
    BY StepFresh DEF GalleryInv
  <1> QED
    BY <1>1, <1>2, GalleryInvHolds, PTL DEF Spec

-----------------------------------------------------------------------------
(* TextureCache.                                                           *)

\* A list without repetition is as long as the set of its elements.
LEMMA InjectiveLen ==
  ASSUME NEW S, NEW s \in Seq(S), IsInjective(s)
  PROVE  IsFiniteSet(ToSet(s)) /\ Cardinality(ToSet(s)) = Len(s)
  <1>1. Len(s) \in Nat /\ DOMAIN s = 1..Len(s) /\ s \in [1..Len(s) -> S]
    BY LenProperties
  <1>2. IsFiniteSet(1..Len(s)) /\ Cardinality(1..Len(s)) = Len(s)
    BY <1>1, FS_Interval
  <1>3. s \in [1..Len(s) -> ToSet(s)]
    BY <1>1 DEF ToSet
  <1>4. s \in Surjection(1..Len(s), ToSet(s)) /\ s \in Injection(1..Len(s), ToSet(s))
    BY <1>1, <1>3 DEF ToSet, Surjection, Injection
  <1> QED
    BY <1>2, <1>4, FS_Surjection

\* touch_texture: the path comes first, the others stay as they are behind it.
LEMMA TouchedFacts ==
  ASSUME NEW order \in Seq(Paths), IsInjective(order), NEW path \in Paths
  PROVE  /\ Touched(order, path) \in Seq(Paths)
         /\ Len(Touched(order, path)) \in Nat \ {0}
         /\ Touched(order, path)[1] = path
         /\ IsInjective(Touched(order, path))
         /\ ToSet(Touched(order, path)) = ToSet(order) \cup {path}
         /\ \A i, j \in DOMAIN Touched(order, path) : 1 < i /\ i < j =>
              \E k, l \in DOMAIN order : /\ k < l /\ order[k] = Touched(order, path)[i]
                                        /\ order[l] = Touched(order, path)[j]
  <1> DEFINE P == {i \in DOMAIN order : order[i] # path}
             others == Selected(order, P)
             t == Touched(order, path)
             n == Cardinality(P)
  <1>1. Len(order) \in Nat /\ DOMAIN order = 1..Len(order)
    BY LenProperties
  <1>2. n \in Nat
    BY <1>1, RankFacts
  <1>3. others \in Seq(Paths) /\ Len(others) = n /\ DOMAIN others = 1..n
    BY SelectedFacts
  <1>0. P \in SUBSET (DOMAIN order) /\ others = Selected(order, P)
    OBVIOUS
  <1> HIDE DEF P, others
  <1>4. PICK place \in [1..n -> P] :
              /\ \A k \in 1..n : others[k] = order[place[k]]
              /\ \A k, l \in 1..n : k < l => place[k] < place[l]
              /\ \A i \in P : \E k \in 1..n : place[k] = i
    BY <1>0, SelectedFacts
  <1>5. t = <<path>> \o others
    BY DEF Touched, P, others
  <1> USE DEF P
  <1> HIDE DEF t, n
  <1>6. /\ t \in Seq(Paths) /\ Len(t) = n + 1 /\ t[1] = path
        /\ DOMAIN t = 1..(n + 1)
        /\ \A i \in 2..(n + 1) : t[i] = others[i - 1] /\ i - 1 \in 1..n
    BY <1>2, <1>3, <1>5
  <1>7. \A i \in 2..(n + 1) : /\ t[i] = order[place[i - 1]] /\ place[i - 1] \in P
                              /\ t[i] # path
    BY <1>4, <1>6
  <1>8. \A i, j \in 2..(n + 1) : i < j => place[i - 1] < place[j - 1]
    BY <1>2, <1>4, <1>6
  <1>9. \A i, j \in 1..(n + 1) : i < j => t[i] # t[j]
    <2> SUFFICES ASSUME NEW i \in 1..(n + 1), NEW j \in 1..(n + 1), i < j PROVE t[i] # t[j]
      OBVIOUS
    <2>1. CASE i = 1
      BY <1>2, <1>6, <1>7, <2>1
    <2>2. CASE i # 1
      <3>0. i \in 2..(n + 1) /\ j \in 2..(n + 1)
        BY <1>2, <2>2
      <3>1. /\ place[i - 1] < place[j - 1]
            /\ t[i] = order[place[i - 1]] /\ t[j] = order[place[j - 1]]
        BY <1>7, <1>8, <3>0
      <3>2. /\ place[i - 1] \in DOMAIN order /\ place[j - 1] \in DOMAIN order
            /\ place[i - 1] # place[j - 1]
        <4>1. place[i - 1] \in 1..Len(order) /\ place[j - 1] \in 1..Len(order)
          BY <1>1, <1>7, <3>0
        <4> QED
          BY <1>1, <3>1, <4>1
      <3> QED
        BY <3>1, <3>2 DEF IsInjective
    <2> QED
      BY <2>1, <2>2
  <1>10. IsInjective(t)
    <2> SUFFICES ASSUME NEW i \in 1..(n + 1), NEW j \in 1..(n + 1), t[i] = t[j] PROVE i = j
      BY <1>6 DEF IsInjective
    <2> QED
      BY <1>2, <1>9
  <1>11. ToSet(t) = ToSet(order) \cup {path}
    <2>1. ASSUME NEW i \in DOMAIN t PROVE t[i] \in ToSet(order) \cup {path}
      BY <1>2, <1>6, <1>7 DEF ToSet
    <2>2. path \in ToSet(t)
      BY <1>2, <1>6 DEF ToSet
    <2>3. ASSUME NEW i \in DOMAIN order, order[i] # path PROVE order[i] \in ToSet(t)
      <3>1. PICK k \in 1..n : place[k] = i
        BY <1>4, <2>3
      <3>2. k + 1 \in DOMAIN t /\ t[k + 1] = order[i]
        <4>1. k + 1 \in 2..(n + 1) /\ (k + 1) - 1 = k
          BY <1>2
        <4> QED
          BY <1>2, <1>6, <1>7, <3>1, <4>1
      <3> QED
        BY <3>2 DEF ToSet
    <2> QED
      BY <2>1, <2>2, <2>3 DEF ToSet
  <1>12. \A i, j \in DOMAIN t : 1 < i /\ i < j =>
              \E k, l \in DOMAIN order : k < l /\ order[k] = t[i] /\ order[l] = t[j]
    <2> SUFFICES ASSUME NEW i \in 1..(n + 1), NEW j \in 1..(n + 1), 1 < i, i < j
                 PROVE  \E k, l \in DOMAIN order : k < l /\ order[k] = t[i] /\ order[l] = t[j]
      BY <1>6
    <2>1. i \in 2..(n + 1) /\ j \in 2..(n + 1)
      BY <1>2
    <2>2. /\ place[i - 1] < place[j - 1]
          /\ place[i - 1] \in DOMAIN order /\ place[j - 1] \in DOMAIN order
      BY <1>7, <1>8, <2>1
    <2> QED
      BY <1>7, <2>1, <2>2
  <1> QED
    BY <1>2, <1>6, <1>10, <1>11, <1>12 DEF t

\* What is taken from the back of the list, and what is left.
LEMMA BackFacts ==
  ASSUME NEW order \in Seq(Paths), IsInjective(order), Len(order) \in Nat \ {0}
  PROVE  /\ Back(order, 0) = {}
         /\ Back(order, 1) = {order[Len(order)]}
         /\ SubSeq(order, 1, Len(order) - 0) = order
         /\ SubSeq(order, 1, Len(order) - 1) \in Seq(Paths)
         /\ DOMAIN SubSeq(order, 1, Len(order) - 1) = 1..(Len(order) - 1)
         /\ \A i \in 1..(Len(order) - 1) : SubSeq(order, 1, Len(order) - 1)[i] = order[i]
         /\ ToSet(SubSeq(order, 1, Len(order) - 1)) = ToSet(order) \ {order[Len(order)]}
  <1> DEFINE n == Len(order)
             front == SubSeq(order, 1, n - 1)
  <1>0. n \in Nat \ {0} /\ \A i \in 1..(n - 1) : i \in 1..n /\ n \in 1..n /\ i # n
    OBVIOUS
  <1>1. n \in Nat \ {0} /\ DOMAIN order = 1..n /\ \A i \in 1..n : order[i] \in Paths
    BY LenProperties
  <1>2. Back(order, 0) = {}
    <2>1. SubSeq(order, n - 0 + 1, n) = <<>>
      BY <1>1, SubSeqEmpty
    <2> QED
      BY <2>1 DEF Back, ToSet
  <1>3. Back(order, 1) = {order[n]}
    <2> DEFINE b == SubSeq(order, n - 1 + 1, n)
    <2>1. b = SubSeq(order, n, n)
      BY <1>1
    <2>2. b \in Seq(Paths) /\ Len(b) = 1 /\ b[1] = order[n]
      BY <1>1, <2>1
    <2>3. DOMAIN b = {1}
      BY <2>2
    <2> HIDE DEF b
    <2>4. ToSet(b) = {order[n]}
      BY <2>2, <2>3 DEF ToSet
    <2> QED
      BY <2>4 DEF Back, b
  <1>4. SubSeq(order, 1, n - 0) = order
    BY <1>1, SubSeqFull
  <1>5. /\ front \in Seq(Paths)
        /\ DOMAIN front = 1..(n - 1)
        /\ \A i \in 1..(n - 1) : front[i] = order[i]
    BY <1>1
  <1>6. ToSet(front) = ToSet(order) \ {order[n]}
    <2> HIDE DEF front
    <2>1. ASSUME NEW i \in 1..(n - 1) PROVE front[i] \in ToSet(order) \ {order[n]}
      <3>1. i \in 1..n /\ n \in 1..n /\ i # n
        BY <1>0
      <3> QED
        <4>1. order[i] # order[n] /\ order[i] \in ToSet(order)
          BY <1>1, <3>1 DEF ToSet, IsInjective
        <4> QED
          BY <1>5, <4>1
    <2>2. ASSUME NEW i \in 1..n, order[i] # order[n] PROVE order[i] \in ToSet(front)
      <3>1. i \in 1..(n - 1)
        BY <1>1, <2>2
      <3> QED
        BY <1>5, <3>1 DEF ToSet
    <2> QED
      BY <1>1, <1>5, <2>1, <2>2 DEF ToSet
  <1> QED
    BY <1>2, <1>3, <1>4, <1>5, <1>6

\* The list and the map hold the same paths, once each, no more than the limit.
StoreInv == /\ IsInjective(textures) /\ IsInjective(lru) /\ ToSet(lru) = Resident
            /\ live = {textures[p] : p \in Resident}
            /\ Cardinality(Resident) <= Limit

\* The pictures of a frame, and of two frames, are ahead of all others in the list;
\* and unless there are too many of them they are resident.
RecentFirst(order, F) == \A i, j \in DOMAIN order : i < j /\ order[j] \in F => order[i] \in F
Kept(F, resident) == Cardinality(F) <= Limit => F \subseteq resident
RecencyInv == \A F \in {frame, last \cup frame} : RecentFirst(lru, F) /\ Kept(F, Resident)

CacheInv == CacheTypeOK /\ StoreInv /\ DrawnTextureExists /\ RecencyInv

\* A use keeps the pictures of a frame in front.
LEMMA TouchKeepsOrder ==
  ASSUME NEW order \in Seq(Paths), IsInjective(order), NEW path \in Paths,
         NEW F \in SUBSET Paths, RecentFirst(order, F)
  PROVE  RecentFirst(Touched(order, path), F \cup {path})
  <1> DEFINE t == Touched(order, path)
  <1> SUFFICES ASSUME NEW i \in DOMAIN t, NEW j \in DOMAIN t, i < j, t[j] \in F \cup {path}
               PROVE  t[i] \in F \cup {path}
    BY DEF RecentFirst
  <1>1. /\ t \in Seq(Paths) /\ t[1] = path /\ IsInjective(t)
        /\ 1 < i => \E k, l \in DOMAIN order : k < l /\ order[k] = t[i] /\ order[l] = t[j]
    BY TouchedFacts
  <1> HIDE DEF t
  <1>2. Len(t) \in Nat /\ DOMAIN t = 1..Len(t) /\ i \in 1..Len(t) /\ j \in 1..Len(t)
    BY <1>1, LenProperties
  <1>3. CASE i = 1
    BY <1>1, <1>3
  <1>4. CASE 1 < i
    <2>1. j # 1 /\ 1 \in DOMAIN t
      BY <1>2, <1>4
    <2>2. t[j] # path
      BY <1>1, <2>1 DEF IsInjective
    <2> QED
      BY <1>1, <1>4, <2>2 DEF RecentFirst
  <1> QED
    BY <1>2, <1>3, <1>4

\* evict_textures_if_needed takes at most one path: the last of a list that is one
\* too long, of which the path that was just used is the first.
LEMMA TakenFacts ==
  ASSUME NEW order \in Seq(Paths), IsInjective(order), Len(order) \in Nat \ {0},
         NEW resident, resident = ToSet(order), Cardinality(resident) <= Limit + 1
  PROVE  Taken(order, resident) = IF Cardinality(resident) <= Limit THEN 0 ELSE 1
  <1> DEFINE N == {n \in 0..Len(order) : TooMany(resident \ Back(order, n)) => n = Len(order)}
  <1>1. IsFiniteSet(resident) /\ Cardinality(resident) = Len(order)
    BY InjectiveLen
  <1>2. Limit \in Nat \ {0} /\ Len(order) \in Nat \ {0}
    BY LimitAssumption
  <1> DEFINE left(n) == Cardinality(resident \ Back(order, n))
  <1>6. \A n \in Nat : TooMany(resident \ Back(order, n)) <=> left(n) > Limit
    BY Zenon DEF TooMany
  <1>3. Back(order, 0) = {} /\ Back(order, 1) = {order[Len(order)]}
    BY BackFacts
  <1>4. CASE Cardinality(resident) <= Limit
    <2>1. resident \ Back(order, 0) = resident
      BY <1>3
    <2>2. 0 \in N
      <3>1. ~TooMany(resident \ Back(order, 0))
        <4>1. left(0) = Cardinality(resident)
          BY <2>1, Zenon
        <4> HIDE DEF left
        <4>2. ~(left(0) > Limit)
          BY <1>1, <1>2, <1>4, <4>1
        <4> QED
          BY <1>6, <4>2
      <3>2. 0 \in 0..Len(order)
        BY <1>2
      <3> QED
        BY <3>1, <3>2, Zenon
    <2>3. \A n \in N : n \in Nat /\ 0 <= n
      BY <1>2
    <2> HIDE DEF N
    <2>4. \A m \in N : (\A n \in N : m <= n) => m = 0
      BY <2>2, <2>3
    <2>5. (CHOOSE m \in N : \A n \in N : m <= n) = 0
      BY <2>2, <2>3, <2>4
    <2> QED
      BY <1>4, <2>5 DEF Taken, Min, N
  <1>5. CASE ~(Cardinality(resident) <= Limit)
    <2>1. Cardinality(resident) = Limit + 1 /\ Len(order) = Limit + 1
      BY <1>1, <1>2, <1>5
    <2>2. 0 \notin N
      <3>1. resident \ Back(order, 0) = resident
        BY <1>3
      <3>2. TooMany(resident \ Back(order, 0))
        <4>1. left(0) = Cardinality(resident)
          BY <3>1, Zenon
        <4> HIDE DEF left
        <4>2. left(0) > Limit
          BY <1>2, <2>1, <4>1
        <4> QED
          BY <1>6, <4>2
      <3>3. 0 # Len(order)
        BY <1>2
      <3> QED
        BY <3>2, <3>3, Zenon
    <2>3. 1 \in N
      <3>1. order[Len(order)] \in resident
        BY <1>2, LenProperties DEF ToSet
      <3>2. Cardinality(resident \ {order[Len(order)]}) = Cardinality(resident) - 1
        BY <1>1, <3>1, FS_RemoveElement
      <3>3. left(1) = Cardinality(resident) - 1
        BY <1>3, <3>2, Zenon
      <3>4. ~TooMany(resident \ Back(order, 1))
        <4> HIDE DEF left
        <4>1. ~(left(1) > Limit)
          BY <1>2, <2>1, <3>3
        <4> QED
          BY <1>6, <4>1
      <3>5. 1 \in 0..Len(order)
        BY <1>2
      <3> QED
        BY <3>4, <3>5, Zenon
    <2>4. \A n \in N : n \in Nat
      BY <1>2
    <2> HIDE DEF N
    <2>5. \A n \in N : 1 <= n
      BY <2>2, <2>4
    <2>6. \A m \in N : (\A n \in N : m <= n) => m = 1
      BY <2>3, <2>4, <2>5
    <2>7. (CHOOSE m \in N : \A n \in N : m <= n) = 1
      BY <2>3, <2>5, <2>6
    <2> QED
      BY <1>5, <2>7 DEF Taken, Min, N
  <1> QED
    BY <1>4, <1>5

\* What a load leaves when the pictures in gone have made room for the path: the path
\* itself is not among them.
LoadLeaves(path, id, gone) ==
  LET order == Touched(lru, path)
      resident == Resident \cup {path}
  IN  /\ path \notin gone
      /\ textures' = [p \in resident \ gone |-> IF p = path THEN id ELSE textures[p]]
      /\ live' = (live \cup {id}) \ {textures[p] : p \in gone}
      /\ Cardinality(resident \ gone) <= Limit
      /\ lru' \in Seq(Paths) /\ IsInjective(lru') /\ ToSet(lru') = resident \ gone
      /\ \A i \in DOMAIN lru' : i \in DOMAIN order /\ lru'[i] = order[i]
      /\ gone # {} => /\ gone = {order[Limit + 1]} /\ Limit + 1 \in DOMAIN order
                      /\ Len(order) = Limit + 1
                      /\ Cardinality(resident) = Limit + 1

\* What a load leaves: of the paths that were resident, one may be gone, the last.
LEMMA LoadFacts ==
  ASSUME CacheTypeOK, StoreInv, NEW path \in Paths, NEW id \in Ids, Load(path, id)
  PROVE  \E gone \in SUBSET (Resident \cup {path}) : LoadLeaves(path, id, gone)
  <1> DEFINE order == Touched(lru, path)
             resident == Resident \cup {path}
             loaded == [p \in resident |-> IF p = path THEN id ELSE textures[p]]
             n == Taken(order, resident)
             gone == Back(order, n)
             Fits(g) ==
               /\ path \notin g
               /\ textures' = [p \in resident \ g |-> IF p = path THEN id ELSE textures[p]]
               /\ live' = (live \cup {id}) \ {textures[p] : p \in g}
               /\ Cardinality(resident \ g) <= Limit
               /\ lru' \in Seq(Paths) /\ IsInjective(lru') /\ ToSet(lru') = resident \ g
               /\ \A i \in DOMAIN lru' : i \in DOMAIN order /\ lru'[i] = order[i]
               /\ g # {} => /\ g = {order[Limit + 1]} /\ Limit + 1 \in DOMAIN order
                            /\ Len(order) = Limit + 1
                            /\ Cardinality(resident) = Limit + 1
  <1> SUFFICES \E g \in SUBSET resident : Fits(g)
    BY DEF LoadLeaves
  <1>1. /\ order \in Seq(Paths) /\ Len(order) \in Nat \ {0} /\ order[1] = path
        /\ IsInjective(order) /\ ToSet(order) = resident
    BY TouchedFacts DEF CacheTypeOK, StoreInv
  <1>2. IsFiniteSet(Resident) /\ Cardinality(Resident) \in Nat /\ path \notin Resident
    BY PathsAssumption, FS_Subset, FS_CardinalityType DEF CacheTypeOK, Load
  <1>3. IsFiniteSet(resident) /\ Cardinality(resident) = Cardinality(Resident) + 1
    BY <1>2, FS_AddElement
  <1>4. Limit \in Nat \ {0}
    BY LimitAssumption
  <1>5. Cardinality(Resident) <= Limit
    BY DEF StoreInv
  <1>6. Cardinality(resident) = Len(order) /\ Cardinality(resident) <= Limit + 1
    <2>1. Cardinality(ToSet(order)) = Len(order)
      BY <1>1, InjectiveLen
    <2> QED
      BY <1>1, <1>2, <1>3, <1>4, <1>5, <2>1
  <1>7. n = IF Cardinality(resident) <= Limit THEN 0 ELSE 1
    BY <1>1, <1>6, TakenFacts
  <1>8. DOMAIN order = 1..Len(order) /\ DOMAIN loaded = resident
    BY <1>1, LenProperties
  <1>9. /\ textures' = Restrict(loaded, DOMAIN loaded \ Back(order, Taken(order, DOMAIN loaded)))
        /\ lru' = SubSeq(order, 1, Len(order) - Taken(order, DOMAIN loaded))
        /\ live' = (live \cup {id}) \
             {loaded[p] : p \in Back(order, Taken(order, DOMAIN loaded)) \cap DOMAIN loaded}
    BY DEF Load
  <1>10. /\ textures' = [p \in resident \ gone |-> loaded[p]]
         /\ lru' = SubSeq(order, 1, Len(order) - n)
         /\ live' = (live \cup {id}) \ {loaded[p] : p \in gone \cap resident}
    BY <1>8, <1>9 DEF Restrict
  <1> HIDE DEF order, n
  <1>11. CASE Cardinality(resident) <= Limit
    <2>1. n = 0 /\ gone = {} /\ lru' = order
      BY <1>1, <1>7, <1>10, <1>11, BackFacts
    <2>2. textures' = [p \in resident \ {} |-> IF p = path THEN id ELSE textures[p]]
      BY <1>10, <2>1
    <2>3. live' = (live \cup {id}) \ {textures[p] : p \in {}}
      BY <1>10, <2>1
    <2>4. resident \ {} = resident
      OBVIOUS
    <2> HIDE DEF loaded, gone, resident
    <2>5. Fits({})
      BY <1>1, <1>11, <2>1, <2>2, <2>3, <2>4
    <2> QED
      BY <2>5
  <1>12. CASE ~(Cardinality(resident) <= Limit)
    <2> DEFINE victim == order[Limit + 1]
    <2>1. Cardinality(resident) = Limit + 1 /\ Len(order) = Limit + 1 /\ n = 1
      BY <1>2, <1>3, <1>4, <1>5, <1>6, <1>7, <1>12
    <2>2. gone = {victim} /\ lru' = SubSeq(order, 1, Len(order) - 1)
      BY <1>1, <1>10, <2>1, BackFacts
    <2>3. /\ lru' \in Seq(Paths) /\ DOMAIN lru' = 1..(Len(order) - 1)
          /\ \A i \in 1..(Len(order) - 1) : lru'[i] = order[i]
          /\ ToSet(lru') = resident \ {victim}
      BY <1>1, <2>1, <2>2, BackFacts
    <2>4. 1 \in DOMAIN order /\ Limit + 1 \in DOMAIN order /\ 1 # Limit + 1
      BY <1>4, <1>8, <2>1
    <2>5. victim # path /\ victim \in resident
      BY <1>1, <2>4 DEF IsInjective, ToSet
    <2>6. \A i \in 1..(Len(order) - 1) : i \in DOMAIN order
      BY <1>8, <2>1, <1>4
    <2>7. IsInjective(lru')
      BY <1>1, <2>3, <2>6 DEF IsInjective
    <2>8. Cardinality(resident \ {victim}) = Cardinality(resident) - 1
      BY <1>3, <2>5, FS_RemoveElement
    <2>9. Cardinality(resident \ {victim}) <= Limit
      BY <1>4, <2>1, <2>8
    <2>10. textures' = [p \in resident \ {victim} |-> IF p = path THEN id ELSE textures[p]]
      BY <1>10, <2>2
    <2>11. live' = (live \cup {id}) \ {textures[p] : p \in {victim}}
      BY <1>10, <2>2, <2>5
    <2> HIDE DEF loaded, gone, victim
    <2>12. {victim} = {order[Limit + 1]}
      BY DEF victim
    <2>13. Fits({victim})
      BY <2>1, <2>3, <2>4, <2>5, <2>6, <2>7, <2>9, <2>10, <2>11, <2>12
    <2> QED
      BY <2>5, <2>13
  <1> QED
    BY <1>11, <1>12

\* The map, the list and the driver agree after a load.
LEMMA LoadStore ==
  ASSUME CacheTypeOK, StoreInv, NEW path \in Paths, NEW id \in Ids, Load(path, id)
  PROVE  (CacheTypeOK /\ StoreInv /\ DrawnTextureExists)'
  <1> DEFINE order == Touched(lru, path)
             resident == Resident \cup {path}
             new(p) == IF p = path THEN id ELSE textures[p]
  <1>0. PICK gone \in SUBSET resident : LoadLeaves(path, id, gone)
    BY LoadFacts
  <1>1. /\ path \notin gone
        /\ textures' = [p \in resident \ gone |-> new(p)]
        /\ live' = (live \cup {id}) \ {textures[p] : p \in gone}
        /\ Cardinality(resident \ gone) <= Limit
        /\ lru' \in Seq(Paths) /\ IsInjective(lru') /\ ToSet(lru') = resident \ gone
    BY <1>0 DEF LoadLeaves
  <1>2. Resident' = resident \ gone /\ \A p \in Resident' : textures'[p] = new(p)
    BY <1>1 DEF Resident
  <1>3. path \notin Resident /\ id \in Ids /\ id \notin live
    BY DEF Load
  <1>4. \A p \in Resident : textures[p] \in live /\ textures[p] # id
    BY <1>3 DEF StoreInv
  <1>5. \A p, q \in Resident : textures[p] = textures[q] => p = q
    BY DEF StoreInv, IsInjective, Resident
  <1>6. \A p, q \in resident : new(p) = new(q) => p = q
    BY <1>3, <1>4, <1>5
  <1>7. IsInjective(textures')
    BY <1>2, <1>6 DEF IsInjective, Resident
  <1>8. \A p \in resident : new(p) \in live \cup {id}
    BY <1>4
  <1>9. live' = {textures'[p] : p \in Resident'}
    <2>1. ASSUME NEW p \in Resident' PROVE textures'[p] \in live'
      <3>1. p \in resident /\ p \notin gone /\ new(p) \in live \cup {id}
        BY <1>2, <1>8
      <3>2. \A q \in gone : new(p) # textures[q]
        <4>1. \A q \in gone : q \in resident /\ new(q) = textures[q] /\ q # p
          BY <1>1, <3>1
        <4> QED
          BY <1>6, <3>1, <4>1
      <3> QED
        BY <1>1, <1>2, <3>1, <3>2
    <2>2. ASSUME NEW t \in live' PROVE \E p \in Resident' : textures'[p] = t
      <3>1. CASE t = id
        <4>1. path \in Resident' /\ textures'[path] = id
          BY <1>1, <1>2
        <4> QED
          BY <3>1, <4>1
      <3>2. CASE t # id
        <4>1. t \in live /\ \A p \in gone : t # textures[p]
          BY <1>1, <2>2, <3>2
        <4>2. PICK p \in Resident : textures[p] = t
          BY <4>1 DEF StoreInv
        <4>3. p \in Resident' /\ textures'[p] = t
          BY <1>2, <1>3, <4>1, <4>2
        <4> QED
          BY <4>3
      <3> QED
        BY <3>1, <3>2
    <2> QED
      BY <2>1, <2>2
  <1>10. StoreInv'
    BY <1>1, <1>2, <1>7, <1>9 DEF StoreInv
  <1>11. Resident' \subseteq Paths
    BY <1>2 DEF CacheTypeOK
  <1>12. textures' \in [Resident' -> Ids]
    <2>1. \A p \in Resident' : textures'[p] \in Ids
      BY <1>2, <1>3 DEF CacheTypeOK
    <2> QED
      BY <1>1, <1>2, <2>1
  <1>13. live' \subseteq Ids
    BY <1>1, <1>3 DEF CacheTypeOK
  <1>14. /\ drawing' \in Ids \cup {0} /\ readable' \subseteq Paths
         /\ frame' \subseteq Paths /\ last' \subseteq Paths
    BY DEF CacheTypeOK, Load
  <1>15. CacheTypeOK'
    BY <1>1, <1>11, <1>12, <1>13, <1>14 DEF CacheTypeOK
  <1>16. DrawnTextureExists'
    <2>1. drawing' = id /\ path \in Resident' /\ textures'[path] = id
      BY <1>1, <1>2 DEF Load
    <2> QED
      BY <1>9, <2>1 DEF DrawnTextureExists
  <1> QED
    BY <1>10, <1>15, <1>16

\* The pictures of F stay in front of the list and resident: the path that makes
\* room is one of them only when there are more of them than the limit.
LEMMA LoadKeepsFrame ==
  ASSUME CacheTypeOK, StoreInv, NEW path \in Paths, NEW id \in Ids, Load(path, id),
         NEW F \in SUBSET Paths, RecentFirst(lru, F), Kept(F, Resident)
  PROVE  RecentFirst(lru', F \cup {path}) /\ Kept(F \cup {path}, Resident')
  <1> DEFINE order == Touched(lru, path)
             resident == Resident \cup {path}
             G == F \cup {path}
  <1>0. PICK gone \in SUBSET resident : LoadLeaves(path, id, gone)
    BY LoadFacts
  <1>1. /\ textures' = [p \in resident \ gone |-> IF p = path THEN id ELSE textures[p]]
        /\ lru' \in Seq(Paths) /\ IsInjective(lru')
        /\ \A i \in DOMAIN lru' : i \in DOMAIN order /\ lru'[i] = order[i]
        /\ gone # {} => /\ gone = {order[Limit + 1]} /\ Limit + 1 \in DOMAIN order
                        /\ Len(order) = Limit + 1
                        /\ Cardinality(resident) = Limit + 1
    BY <1>0 DEF LoadLeaves
  <1>2. /\ order \in Seq(Paths) /\ IsInjective(order) /\ ToSet(order) = resident
        /\ RecentFirst(order, G)
    BY TouchedFacts, TouchKeepsOrder DEF CacheTypeOK, StoreInv
  <1>3. Len(order) \in Nat /\ DOMAIN order = 1..Len(order)
    BY <1>2, LenProperties
  <1>4. DOMAIN textures' = resident \ gone
    BY <1>1
  <1> HIDE DEF order
  <1>5. RecentFirst(lru', G)
    BY <1>1, <1>2 DEF RecentFirst
  <1>6. IsFiniteSet(G) /\ Cardinality(G) \in Nat /\ IsFiniteSet(F) /\ Cardinality(F) \in Nat
    BY PathsAssumption, FS_Subset, FS_CardinalityType
  <1>7. Limit \in Nat
    BY LimitAssumption
  <1>8. Cardinality(F) <= Cardinality(G)
    BY <1>6, FS_Subset
  <1>9. ASSUME Cardinality(G) <= Limit PROVE G \subseteq resident \ gone
    <2>1. F \subseteq Resident
      BY <1>6, <1>7, <1>8, <1>9 DEF Kept
    <2>2. CASE gone = {}
      BY <2>1, <2>2
    <2>3. CASE gone # {}
      <3>1. ASSUME order[Limit + 1] \in G PROVE FALSE
        <4>1. \A i \in DOMAIN order : i # Limit + 1 => i < Limit + 1
          BY <1>1, <1>3, <1>7, <2>3
        <4>2. \A i \in DOMAIN order : order[i] \in G
          BY <1>1, <1>2, <2>3, <3>1, <4>1 DEF RecentFirst
        <4>3. resident \subseteq G
          BY <1>2, <4>2 DEF ToSet
        <4>4. Cardinality(resident) <= Cardinality(G)
          BY <1>6, <4>3, FS_Subset
        <4> QED
          BY <1>1, <1>6, <1>7, <1>9, <2>3, <4>4
      <3> QED
        BY <1>1, <2>1, <2>3, <3>1
    <2> QED
      BY <2>2, <2>3
  <1>10. Kept(G, Resident')
    BY <1>4, <1>9 DEF Kept, Resident
  <1> QED
    BY <1>5, <1>10

\* So the pictures of the frame, and of two frames, stay in front.
LEMMA LoadRecency ==
  ASSUME CacheInv, NEW path \in Paths, NEW id \in Ids, Load(path, id)
  PROVE  RecencyInv'
  <1>1. frame' = frame \cup {path} /\ last' = last
    BY DEF Load
  <1>2. last' \cup frame' = (last \cup frame) \cup {path}
    BY <1>1
  <1>3. frame \in SUBSET Paths /\ last \cup frame \in SUBSET Paths
    BY DEF CacheInv, CacheTypeOK
  <1>4. RecentFirst(lru', frame \cup {path}) /\ Kept(frame \cup {path}, Resident')
    BY <1>3, LoadKeepsFrame DEF CacheInv, RecencyInv
  <1>5. /\ RecentFirst(lru', (last \cup frame) \cup {path})
        /\ Kept((last \cup frame) \cup {path}, Resident')
    BY <1>3, LoadKeepsFrame DEF CacheInv, RecencyInv
  <1>6. RecentFirst(lru', frame') /\ Kept(frame', Resident')
    BY <1>1, <1>4
  <1>7. RecentFirst(lru', last' \cup frame') /\ Kept(last' \cup frame', Resident')
    BY <1>2, <1>5
  <1> QED
    BY <1>6, <1>7 DEF RecencyInv, RecentFirst, Kept

\* A hit moves the path and keeps everything else.
LEMMA HitStep ==
  ASSUME CacheInv, NEW path \in Paths, Hit(path)
  PROVE  CacheInv'
  <1> USE DEF Resident
  <1>1. /\ path \in Resident /\ lru' = Touched(lru, path)
        /\ drawing' = textures[path] /\ frame' = frame \cup {path}
        /\ UNCHANGED <<textures, live, readable, last>>
    BY DEF Hit, AfterHit
  <1>2. lru' \in Seq(Paths) /\ IsInjective(lru') /\ ToSet(lru') = Resident \cup {path}
    BY <1>1, TouchedFacts DEF CacheInv, CacheTypeOK, StoreInv
  <1>3. ToSet(lru') = Resident
    BY <1>1, <1>2
  <1>4. CacheTypeOK'
    BY <1>1, <1>2 DEF CacheInv, CacheTypeOK
  <1>5. StoreInv'
    BY <1>1, <1>2, <1>3 DEF CacheInv, StoreInv
  <1>6. DrawnTextureExists'
    BY <1>1 DEF CacheInv, StoreInv, DrawnTextureExists
  <1>7. ASSUME NEW F \in SUBSET Paths, RecentFirst(lru, F), Kept(F, Resident)
        PROVE  RecentFirst(lru', F \cup {path}) /\ Kept(F \cup {path}, Resident)
    <2>1. RecentFirst(lru', F \cup {path})
      BY <1>1, <1>7, TouchKeepsOrder DEF CacheInv, CacheTypeOK, StoreInv
    <2>2. /\ IsFiniteSet(F \cup {path}) /\ Cardinality(F \cup {path}) \in Nat
          /\ IsFiniteSet(F) /\ Cardinality(F) \in Nat
      BY PathsAssumption, FS_Subset, FS_CardinalityType
    <2>3. Cardinality(F) <= Cardinality(F \cup {path})
      BY <2>2, FS_Subset
    <2>4. Cardinality(F \cup {path}) <= Limit => Cardinality(F) <= Limit
      BY <2>2, <2>3, LimitAssumption
    <2> QED
      BY <1>1, <1>7, <2>1, <2>4 DEF Kept
  <1>8. frame \in SUBSET Paths /\ last \cup frame \in SUBSET Paths
    BY DEF CacheInv, CacheTypeOK
  <1>9. RecentFirst(lru', frame') /\ Kept(frame', Resident)
    BY <1>1, <1>7, <1>8 DEF CacheInv, RecencyInv
  <1>10. last' \cup frame' = (last \cup frame) \cup {path}
    BY <1>1
  <1>11. RecentFirst(lru', last' \cup frame') /\ Kept(last' \cup frame', Resident)
    BY <1>7, <1>8, <1>10 DEF CacheInv, RecencyInv
  <1>12. RecencyInv'
    BY <1>1, <1>9, <1>11 DEF RecencyInv, RecentFirst, Kept
  <1> QED
    BY <1>4, <1>5, <1>6, <1>12 DEF CacheInv

LEMMA InitCache == CacheInit => CacheInv
  <1> SUFFICES ASSUME CacheInit PROVE CacheInv
    OBVIOUS
  <1> USE DEF CacheInit, Resident
  <1>1. CacheTypeOK
    BY DEF CacheTypeOK
  <1>2. StoreInv
    <2>1. Cardinality({}) = 0 /\ 0 <= Limit
      BY FS_EmptySet, LimitAssumption
    <2>2. DOMAIN textures = {} /\ DOMAIN lru = {}
      OBVIOUS
    <2>3. ToSet(lru) = {} /\ IsInjective(lru) /\ IsInjective(textures)
      BY <2>2 DEF ToSet, IsInjective
    <2> QED
      BY <2>1, <2>2, <2>3 DEF StoreInv
  <1>3. DrawnTextureExists
    BY DEF DrawnTextureExists
  <1>4. RecencyInv
    BY DEF RecencyInv, RecentFirst, Kept
  <1> QED
    BY <1>1, <1>2, <1>3, <1>4 DEF CacheInv

\* Every action of the renderer keeps the invariant of the cache.
LEMMA StepCache == CacheInv /\ [CacheNext]_cacheVars => CacheInv'
  <1> SUFFICES ASSUME CacheInv, [CacheNext]_cacheVars PROVE CacheInv'
    OBVIOUS
  <1> USE DEF Resident
  <1>1. ASSUME NEW p \in Paths, Hit(p) PROVE CacheInv'
    BY <1>1, HitStep
  <1>2. ASSUME NEW p \in Paths, NEW id \in Ids, Load(p, id) PROVE CacheInv'
    BY <1>2, LoadStore, LoadRecency DEF CacheInv
  <1>3. ASSUME NEW p \in Paths, LoadFails(p) PROVE CacheInv'
    BY <1>3 DEF LoadFails, CacheInv, CacheTypeOK, StoreInv, DrawnTextureExists, RecencyInv,
                RecentFirst, Kept
  <1>4. ASSUME NEW p \in Paths, FileChanges(p) PROVE CacheInv'
    <2>1. readable' \subseteq Paths
      BY <1>4 DEF FileChanges, SymDiff, CacheInv, CacheTypeOK
    <2> QED
      BY <1>4, <2>1 DEF FileChanges, CacheInv, CacheTypeOK, StoreInv, DrawnTextureExists,
                        RecencyInv, RecentFirst, Kept
  <1>5. CASE Render
    <2>1. RecencyInv'
      <3>1. frame' = {} /\ last' \cup frame' = frame /\ UNCHANGED <<lru, textures>>
        BY <1>5 DEF Render
      <3>2. RecentFirst(lru', {}) /\ Kept({}, Resident')
        BY DEF RecentFirst, Kept
      <3>3. RecentFirst(lru', frame) /\ Kept(frame, Resident')
        BY <3>1 DEF CacheInv, RecencyInv
      <3> QED
        BY <3>1, <3>2, <3>3 DEF RecencyInv, RecentFirst, Kept
    <2> QED
      BY <1>5, <2>1 DEF Render, CacheInv, CacheTypeOK, StoreInv, DrawnTextureExists
  <1>6. CASE Shutdown
    <2>1. /\ textures' = [p \in {} |-> 0] /\ lru' = <<>> /\ drawing' = 0
          /\ frame' = {} /\ last' = {} /\ readable' = readable
          /\ live' = {}
      BY <1>6 DEF Shutdown, CacheInv, StoreInv
    <2>2. CacheInit'
      BY <2>1 DEF CacheInit, CacheInv, CacheTypeOK
    <2>3. (CacheInit => CacheInv)'
      BY InitCache, PTL
    <2> QED
      BY <2>2, <2>3
  <1>7. CASE UNCHANGED cacheVars
    BY <1>7 DEF cacheVars, CacheInv, CacheTypeOK, StoreInv, DrawnTextureExists, RecencyInv,
                RecentFirst, Kept
  <1> QED
    BY <1>1, <1>2, <1>3, <1>4, <1>5, <1>6, <1>7 DEF CacheNext

\* The containers agree and the recent pictures are in front, throughout.
THEOREM CacheInvHolds == CacheSpec => []CacheInv
  BY InitCache, StepCache, PTL DEF CacheSpec

\* The two containers of the renderer and the driver's textures stay in step
\* (texture_for_path, touch_texture, evict_textures_if_needed, clear_textures).
THEOREM NothingEverLeaks == CacheSpec => []NothingLeaks
  <1>1. CacheInv => NothingLeaks
    <2> SUFFICES ASSUME CacheInv PROVE NothingLeaks
      OBVIOUS
    <2> USE DEF Resident
    <2>1. IsFiniteSet(Resident)
      BY PathsAssumption, FS_Subset DEF CacheInv, CacheTypeOK
    <2>2. \A p \in Resident : textures[p] \in live
      BY DEF CacheInv, StoreInv
    <2>3. textures \in [Resident -> live]
      BY <2>2 DEF CacheInv, CacheTypeOK
    <2>4. textures \in Surjection(Resident, live)
      BY <2>3 DEF Surjection, CacheInv, StoreInv
    <2>5. textures \in Injection(Resident, live)
      BY <2>3 DEF Injection, CacheInv, StoreInv
    <2>6. Cardinality(live) = Cardinality(Resident)
      BY <2>1, <2>4, <2>5, FS_Surjection
    <2> QED
      BY <2>6 DEF NothingLeaks, CacheInv, StoreInv
  <1> QED
    BY CacheInvHolds, <1>1, PTL

\* The texture that texture_for_path returns has not made room for itself.
THEOREM DrawnTexturesExist == CacheSpec => []DrawnTextureExists
  <1>1. CacheInv => DrawnTextureExists
    BY DEF CacheInv
  <1> QED
    BY CacheInvHolds, <1>1, PTL

\* With the least recently used first to go, a picture is read again only when two
\* frames need more than the limit.
THEOREM RedrawsLoadNothing == CacheSpec => RedrawLoadsNothing
  <1>1. CacheInv => \A p \in Paths, id \in Ids :
          Load(p, id) /\ p \in last => Cardinality(last \cup frame) > Limit
    <2> SUFFICES ASSUME CacheInv, NEW p \in Paths, NEW id \in Ids, Load(p, id), p \in last
                 PROVE  Cardinality(last \cup frame) > Limit
      OBVIOUS
    <2>1. p \notin Resident
      BY DEF Load
    <2>2. ~(Cardinality(last \cup frame) <= Limit)
      BY <2>1 DEF CacheInv, RecencyInv, Kept
    <2>3. Cardinality(last \cup frame) \in Nat
      <3>1. last \cup frame \in SUBSET Paths
        BY DEF CacheInv, CacheTypeOK
      <3> QED
        BY <3>1, PathsAssumption, FS_Subset, FS_CardinalityType
    <2> QED
      BY <2>2, <2>3, LimitAssumption
  <1> QED
    BY CacheInvHolds, <1>1, PTL DEF RedrawLoadsNothing
=============================================================================
