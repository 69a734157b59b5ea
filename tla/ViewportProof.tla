--------------------------- MODULE ViewportProof ---------------------------
(***************************************************************************)
(* For every set of modes, sizes of the surface and lengths of the list:   *)
(* no index outside the list is selected or can be clicked, and an arrow   *)
(* key that does not ask for the next web page leaves the selected card    *)
(* drawn where both sides agree on the rows.                               *)
(***************************************************************************)
EXTENDS Viewport, TLAPS

IInv == TypeOK /\ SelectionInList

\* The numbers of columns and rows of the application are few, so that the
\* products with them are linear case by case.
LEMMA GeometryIsSmall ==
  ASSUME NEW m \in Modes, NEW w \in Widths, NEW h \in Heights
  PROVE  /\ Cols(m, w) \in {1, 3, 4, 5, 7}
         /\ Rows(m, w, h) \in 1..4
  <1> DEFINE r == HexRadius(w)
  <1>1. m \in {"slice", "grid", "hex"} /\ w \in Nat /\ w > 0 /\ h \in Nat
    BY ModesAssumption, SizesAssumption
  <1>2. Cols(m, w) \in {1, 3, 4, 5, 7}
    BY <1>1 DEF Cols, GridCols
  <1>3. r \in Nat /\ r >= 70000
    BY <1>1 DEF HexRadius, Clamp, AtLeast, AtMost
  <1>4. HexStepY(w) \in Nat /\ HexStepY(w) > 0
    BY <1>3 DEF HexStepY
  <1>5. \A p \in Int : HexRowsIn(w, p) \in 2..4
    BY <1>4 DEF HexRowsIn, Clamp, AtLeast, AtMost
  <1>6. h - 180 \in Int
    BY <1>1
  <1>7. HexRowsIn(w, h - 180) \in 2..4
    BY <1>5, <1>6
  <1>8. Rows(m, w, h) \in 1..4
    BY <1>1, <1>7 DEF Rows, GridRows
  <1> QED BY <1>2, <1>8

\* The renderer's rows and columns of hexagons.
LEMMA HexDrawnIsSmall ==
  ASSUME NEW w \in Widths, NEW h \in Heights
  PROVE  HexDrawnCols(w) \in 3..7 /\ HexDrawnRows(w, h) \in 2..4
  <1>1. w \in Nat /\ w > 0 /\ h \in Nat
    BY SizesAssumption
  <1>2. HexRadius(w) \in Nat /\ HexRadius(w) >= 70000
    BY <1>1 DEF HexRadius, Clamp, AtLeast, AtMost
  <1>3. HexStepX(w) \in Nat /\ HexStepX(w) > 0 /\ HexStepY(w) \in Nat /\ HexStepY(w) > 0
    BY <1>2 DEF HexStepX, HexStepY
  <1>4. StageWidth(w) \in Int
    BY <1>1 DEF StageWidth, Clamp, AtLeast, AtMost
  <1>5. HexDrawnCols(w) \in 3..7
    BY <1>3, <1>4 DEF HexDrawnCols, AtLeast, AtMost
  <1>6. AtLeast(h - 138 - 86, 240) \in Int
    BY <1>1 DEF AtLeast
  <1>7. \A p \in Int : HexRowsIn(w, p) \in 2..4
    BY <1>3 DEF HexRowsIn, Clamp, AtLeast, AtMost
  <1> QED BY <1>5, <1>6, <1>7 DEF HexDrawnRows

\* The rows that are drawn hold wallpapers of the list.
LEMMA WindowInList ==
  ASSUME NEW n \in Nat, NEW s \in Nat, NEW c \in 1..7, NEW r \in 1..4
  PROVE  \A i \in Window(n, s, c, r) : i \in Nat /\ i < n
  <1>1. s \div c \in Nat
    OBVIOUS
  <1>2. (s \div c) * c \in Nat /\ r * c \in Nat
    BY <1>1
  <1> QED BY <1>2 DEF Window

\* So do the slices: the remainder is below the number of wallpapers, and a click on a
\* negative one selects nothing.
LEMMA SlicesInList ==
  ASSUME NEW n \in Nat, n > 0, NEW sel \in Nat, sel < n
  PROVE  \A i \in SliceCards(n, sel) : i \in Nat /\ i < n
  <1>1. ASSUME NEW o \in -7..7
        PROVE  Remainder(sel + o + n, n) \in Int /\ Remainder(sel + o + n, n) < n
    <2> DEFINE x == sel + o + n
    <2>1. x \in Int
      OBVIOUS
    <2>2. CASE x >= 0
      <3>1. x % n \in 0..(n - 1)
        BY <2>1, <2>2
      <3> QED BY <2>2, <3>1 DEF Remainder
    <2>3. CASE ~(x >= 0)
      <3>1. (-x) % n \in 0..(n - 1)
        BY <2>1, <2>3
      <3> QED BY <2>3, <3>1 DEF Remainder
    <2> QED BY <2>2, <2>3
  <1> QED BY <1>1 DEF SliceCards

\* Every card render_grid, render_hex and render_slice draw is in the list.
LEMMA DrawnInList ==
  ASSUME NEW m \in Modes, NEW w \in Widths, NEW h \in Heights,
         NEW n \in Nat, NEW sel \in Nat, n > 0 => sel < n, NEW s \in Nat
  PROVE  \A i \in Drawn(m, w, h, n, sel, s) : i \in Nat /\ i < n
  <1>1. CASE n = 0
    BY <1>1 DEF Drawn
  <1>2. CASE n > 0 /\ m = "slice"
    BY <1>2, SlicesInList DEF Drawn
  <1>3. CASE n > 0 /\ m = "grid"
    <2>1. GridCols(w) \in 1..7 /\ GridRows(h) \in 1..4
      BY DEF GridCols, GridRows
    <2> QED BY <1>3, <2>1, WindowInList DEF Drawn
  <1>4. CASE n > 0 /\ m = "hex"
    <2>1. HexDrawnCols(w) \in 1..7 /\ HexDrawnRows(w, h) \in 1..4
      BY HexDrawnIsSmall
    <2> QED BY <1>4, <2>1, WindowInList DEF Drawn
  <1> QED BY <1>1, <1>2, <1>3, <1>4, ModesAssumption

\* The adjusted offset is an offset, and the rows from it on hold the selection.
LEMMA AdjustedKeeps ==
  ASSUME IInv, NEW sel \in Nat, sel < size
  PROVE  /\ Adjusted(sel) \in Nat
         /\ sel \in Window(size, Adjusted(sel), Cols(mode, width), Rows(mode, width, height))
  <1> DEFINE c == Cols(mode, width)
             v == Rows(mode, width, height)
  <1>1. /\ mode \in Modes /\ width \in Widths /\ height \in Heights
        /\ scroll \in Nat /\ size \in Nat
    BY ListsAssumption DEF IInv, TypeOK
  <1>2. c \in {1, 3, 4, 5, 7} /\ v \in 1..4
    BY <1>1, GeometryIsSmall
  <1> HIDE DEF c, v
  <1>3. Adjusted(sel) = IF sel \div c < scroll \div c THEN (sel \div c) * c
                        ELSE IF sel \div c >= (scroll \div c) + v
                        THEN ((sel \div c) - v + 1) * c
                        ELSE scroll
    BY DEF Adjusted, c, v
  <1> DEFINE a == Adjusted(sel)
  <1> HIDE DEF a
  <1>4. /\ a \in Nat
        /\ (a \div c) * c <= sel
        /\ sel < (a \div c) * c + v * c
        /\ (a \div c) * c \in Nat
    <2>1. CASE c = 1 BY <2>1, <1>1, <1>2, <1>3 DEF a
    <2>2. CASE c = 3 BY <2>2, <1>1, <1>2, <1>3 DEF a
    <2>3. CASE c = 4 BY <2>3, <1>1, <1>2, <1>3 DEF a
    <2>4. CASE c = 5 BY <2>4, <1>1, <1>2, <1>3 DEF a
    <2>5. CASE c = 7 BY <2>5, <1>1, <1>2, <1>3 DEF a
    <2> QED BY <1>2, <2>1, <2>2, <2>3, <2>4, <2>5
  <1>5. v * c \in Nat
    BY <1>2
  <1>6. sel \in Window(size, a, c, v)
    BY <1>1, <1>4, <1>5 DEF Window
  <1> QED BY <1>4, <1>6 DEF a, c, v

\* A drawing of a list with a selection inside it keeps the invariant.
LEMMA DrawKeepsIInv ==
  ASSUME IInv, NEW sel \in Nat, NEW n \in Sizes, Draw(sel, n),
         n > 0 => sel < n, n = 0 => sel = 0,
         mode' \in Modes, scroll' \in Nat, web' \in BOOLEAN, UNCHANGED <<width, height>>
  PROVE  IInv'
  <1>1. width \in Widths /\ height \in Heights /\ n \in Nat
    BY ListsAssumption DEF IInv, TypeOK
  <1>2. \A i \in Drawn(mode', width, height, n, sel, scroll') : i \in Nat /\ i < n
    BY <1>1, DrawnInList
  <1>3. size' = n /\ selected' = sel /\ \A i \in hits' : i \in Nat /\ i < n
    BY <1>2 DEF Draw
  <1>4. hits' \subseteq Nat /\ \A i \in hits' : i < size'
    BY <1>3
  <1>5. width' \in Widths /\ height' \in Heights
    BY <1>1
  <1>6. TypeOK'
    BY <1>3, <1>4, <1>5, Zenon DEF TypeOK
  <1>7. SelectionInList'
    BY <1>3, <1>4 DEF SelectionInList
  <1> QED BY <1>6, <1>7 DEF IInv

\* So do redraw of the same list and of dirty data.
LEMMA RedrawKeepsIInv ==
  ASSUME IInv, NEW sel \in Nat, Redraw(sel) \/ Reload(sel),
         size > 0 => sel < size, size = 0 => sel = 0,
         mode' \in Modes, scroll' \in Nat, web' \in BOOLEAN, UNCHANGED <<width, height>>
  PROVE  IInv'
  <1>1. CASE Redraw(sel)
    <2>1. size \in Sizes
      BY DEF IInv, TypeOK
    <2> QED BY <1>1, <2>1, DrawKeepsIInv DEF Redraw
  <1>2. CASE Reload(sel)
    <2>1. PICK n \in Sizes : Draw(Clamped(sel, n), n)
      BY <1>2 DEF Reload
    <2>2. n \in Nat
      BY ListsAssumption
    <2>3. /\ Clamped(sel, n) \in Nat
          /\ n > 0 => Clamped(sel, n) < n
          /\ n = 0 => Clamped(sel, n) = 0
      BY <2>2 DEF Clamped, AtLeast
    <2> QED BY <2>1, <2>3, DrawKeepsIInv
  <1> QED BY <1>1, <1>2

\* Asking for the next page keeps the invariant, refused or not.
LEMMA NextPageKeepsIInv ==
  ASSUME IInv, NEW sel \in Nat, NextPage(sel),
         size > 0 => sel < size, size = 0 => sel = 0,
         scroll' \in Nat, UNCHANGED <<width, height, web>>
  PROVE  IInv'
  <1>1. mode \in Modes /\ web \in BOOLEAN
    BY Zenon DEF IInv, TypeOK
  <1>2. web' \in BOOLEAN
    BY <1>1
  <1>3. mode' \in Modes /\ (Redraw(sel) \/ Reload(sel))
    BY <1>1, ModesAssumption DEF NextPage
  <1> QED BY <1>2, <1>3, RedrawKeepsIInv

\* The first drawing has the invariant.
LEMMA InitIInv == Init => IInv
  <1> SUFFICES ASSUME Init PROVE IInv
    OBVIOUS
  <1>1. /\ mode \in Modes /\ width \in Widths /\ height \in Heights /\ size \in Nat
        /\ hits = Drawn(mode, width, height, size, 0, 0)
    BY ListsAssumption DEF Init
  <1>2. \A i \in hits : i \in Nat /\ i < size
    BY <1>1, DrawnInList
  <1>3. TypeOK
    BY <1>1, <1>2 DEF Init, TypeOK
  <1> QED BY <1>1, <1>2, <1>3 DEF Init, SelectionInList, IInv

\* The selection move_selection comes to is in the list, and so is the one before.
LEMMA TargetInList ==
  ASSUME IInv, size > 0, NEW d \in Deltas
  PROVE  Target(d) \in Nat /\ Target(d) < size
  <1>1. mode \in Modes /\ width \in Widths /\ height \in Heights /\ size \in Nat
    BY ListsAssumption DEF IInv, TypeOK
  <1>2. Cols(mode, width) \in {1, 3, 4, 5, 7}
    BY <1>1, GeometryIsSmall
  <1>3. d \in Int /\ selected \in Nat
    BY <1>2 DEF Deltas, IInv, TypeOK
  <1> QED BY <1>1, <1>3 DEF Target, Clamp, AtLeast, AtMost

\* The offsets of the wheel.
LEMMA WheelOffsets ==
  ASSUME IInv, size > 0, NEW k \in {-3, -1, 1, 3}
  PROVE  LastRow \in Nat /\ Bounded(Scrolled(k)) \in Nat
  <1> DEFINE c == Cols(mode, width)
  <1>1. /\ mode \in Modes /\ width \in Widths /\ height \in Heights
        /\ size \in Nat /\ scroll \in Nat
    BY ListsAssumption DEF IInv, TypeOK
  <1>2. c \in {1, 3, 4, 5, 7}
    BY <1>1, GeometryIsSmall
  <1> HIDE DEF c
  <1>3. ((size - 1) \div c) * c \in Nat
    BY <1>1, <1>2
  <1>4. LastRow \in Nat
    BY <1>3 DEF LastRow, c
  <1>5. ((scroll + k * c) \div c) * c \in Int
    BY <1>1, <1>2
  <1>6. Scrolled(k) \in Int
    BY <1>5 DEF Scrolled, c
  <1> QED BY <1>4, <1>6 DEF Bounded, Clamp, AtLeast, AtMost

\* Every handler of the picker keeps the invariant.
LEMMA StepIInv == IInv /\ [Next]_vars => IInv'
  <1> SUFFICES ASSUME IInv, [Next]_vars PROVE IInv'
    OBVIOUS
  <1>1. /\ mode \in Modes /\ scroll \in Nat /\ selected \in Nat /\ size \in Nat
        /\ size > 0 => selected < size
        /\ size = 0 => selected = 0
        /\ \A i \in hits : i \in Nat /\ i < size
    BY ListsAssumption DEF IInv, TypeOK, SelectionInList
  <1>2. web \in BOOLEAN
    BY Zenon DEF IInv, TypeOK
  <1>3. ASSUME NEW d \in Deltas, MoveSelection(d) PROVE IInv'
    <2>1. Target(d) \in Nat /\ Target(d) < size /\ size > 0
      BY <1>3, TargetInList DEF MoveSelection
    <2>2. Adjusted(Target(d)) \in Nat
      BY <2>1, AdjustedKeeps
    <2>3. /\ mode' \in Modes /\ scroll' \in Nat /\ Redraw(Target(d))
          /\ UNCHANGED <<width, height, web>>
      BY <1>1, <1>3, <2>2 DEF MoveSelection
    <2>4. web' \in BOOLEAN
      BY <1>2, <2>3
    <2> QED BY <2>1, <2>3, <2>4, RedrawKeepsIInv
  <1>4. ASSUME NEW d \in Deltas, MovePastEnd(d) PROVE IInv'
    <2>1. size - 1 \in Nat /\ size - 1 < size /\ scroll' \in Nat
      BY <1>1, <1>4 DEF MovePastEnd
    <2> QED BY <1>1, <1>4, <2>1, NextPageKeepsIInv DEF MovePastEnd
  <1>5. ASSUME NEW k \in {-3, -1, 1, 3}, ScrollViewport(k) PROVE IInv'
    <2>1. scroll' \in Nat
      BY <1>5, WheelOffsets DEF ScrollViewport
    <2>2. /\ mode' \in Modes /\ Redraw(selected) /\ UNCHANGED <<width, height, web>>
      BY <1>1, <1>5 DEF ScrollViewport
    <2>3. web' \in BOOLEAN
      BY <1>2, <2>2
    <2> QED BY <1>1, <2>1, <2>2, <2>3, RedrawKeepsIInv
  <1>6. ASSUME NEW k \in {-3, -1, 1, 3}, ScrollPastEnd(k) PROVE IInv'
    <2>1. scroll' \in Nat
      BY <1>6, WheelOffsets DEF ScrollPastEnd
    <2> QED BY <1>1, <1>6, <2>1, NextPageKeepsIInv DEF ScrollPastEnd
  <1>7. ASSUME NEW m \in Modes, SetMode(m) PROVE IInv'
    <2>1. /\ mode' \in Modes /\ scroll' \in Nat /\ Redraw(selected)
          /\ UNCHANGED <<width, height, web>>
      BY <1>1, <1>7 DEF SetMode
    <2>2. web' \in BOOLEAN
      BY <1>2, <2>1
    <2> QED BY <1>1, <2>1, <2>2, RedrawKeepsIInv
  <1>8. CASE ResetView
    <2>1. /\ mode' \in Modes /\ scroll' = 0 /\ Reload(0)
          /\ UNCHANGED <<width, height>> /\ web' \in {web, FALSE}
      BY <1>1, <1>8 DEF ResetView
    <2>2. web' \in BOOLEAN
      BY <1>2, <2>1, Zenon
    <2> QED BY <1>1, <2>1, <2>2, RedrawKeepsIInv
  <1>9. CASE ShowWeb
    <2>1. /\ mode' \in Modes /\ scroll' = 0 /\ Reload(0)
          /\ UNCHANGED <<width, height>> /\ web' \in BOOLEAN
      BY <1>9, ModesAssumption DEF ShowWeb
    <2> QED BY <1>1, <2>1, RedrawKeepsIInv
  <1>10. CASE AskNextPage
    <2>1. scroll' \in Nat
      BY <1>1, <1>10 DEF AskNextPage
    <2> QED BY <1>1, <1>10, <2>1, NextPageKeepsIInv DEF AskNextPage
  <1>11. ASSUME NEW i \in hits, Click(i) PROVE IInv'
    <2>1. /\ mode' \in Modes /\ scroll' \in Nat /\ (Redraw(i) \/ Reload(i))
          /\ UNCHANGED <<width, height, web>>
      BY <1>1, <1>11 DEF Click
    <2>2. web' \in BOOLEAN
      BY <1>2, <2>1
    <2>3. i \in Nat /\ (size > 0 => i < size) /\ (size = 0 => i = 0)
      BY <1>1
    <2> QED BY <2>1, <2>2, <2>3, RedrawKeepsIInv
  <1>12. CASE Refresh
    <2>1. /\ mode' \in Modes /\ scroll' \in Nat /\ Reload(selected)
          /\ UNCHANGED <<width, height, web>>
      BY <1>1, <1>12 DEF Refresh
    <2>2. web' \in BOOLEAN
      BY <1>2, <2>1
    <2> QED BY <1>1, <2>1, <2>2, RedrawKeepsIInv
  <1>13. ASSUME NEW w \in Widths, NEW h \in Heights, Configure(w, h) PROVE IInv'
    BY <1>13 DEF Configure, IInv, TypeOK, SelectionInList
  <1>14. CASE UNCHANGED vars
    BY <1>14 DEF vars, IInv, TypeOK, SelectionInList
  <1> QED
    BY <1>3, <1>4, <1>5, <1>6, <1>7, <1>8, <1>9, <1>10, <1>11, <1>12, <1>13, <1>14
    DEF Next, Keyboard, ArrowKey, Pointer, Wheel

\* The inductive invariant.
THEOREM IInvHolds == Spec => []IInv
  BY InitIInv, StepIInv, PTL DEF Spec

\* Offsets and selections are natural numbers, whatever the wheel does.
THEOREM TypeCorrect == Spec => []TypeOK
  <1>1. IInv => TypeOK
    BY DEF IInv
  <1> QED BY <1>1, IInvHolds, PTL

\* No handler uses an index outside the list (apply_selected, toggle_favorite_at,
\* pointer_button), for every size of the surface and length of the list.
THEOREM SelectionStaysInList == Spec => []SelectionInList
  <1>1. IInv => SelectionInList
    BY DEF IInv
  <1> QED BY <1>1, IInvHolds, PTL

\* What move_selection adjusts is what the renderer draws from.
LEMMA MoveDrawsSelection ==
  ASSUME IInv, NEW d \in Deltas, MoveSelection(d), SameRows(mode, width, height)
  PROVE  SelectionDrawn
  <1> DEFINE sel == Target(d)
  <1>1. /\ mode \in Modes /\ width \in Widths /\ height \in Heights
        /\ size \in Nat /\ size # 0 /\ size > 0
    BY ListsAssumption DEF IInv, TypeOK, MoveSelection
  <1>2. sel \in Nat /\ sel < size
    BY <1>1, TargetInList
  <1>3. /\ selected' = sel /\ scroll' = Adjusted(sel) /\ size' = size
        /\ UNCHANGED <<mode, width, height>>
    BY DEF MoveSelection, Redraw, Draw
  <1>4. sel \in Window(size, Adjusted(sel), Cols(mode, width), Rows(mode, width, height))
    BY <1>2, AdjustedKeeps
  <1> HIDE DEF sel
  <1>5. CASE mode = "slice"
    <2>1. sel \in SliceCards(size, sel)
      BY DEF SliceCards
    <2> QED BY <1>1, <1>3, <1>5, <2>1 DEF SelectionDrawn, Drawn
  <1>6. CASE mode = "grid"
    <2>1. Cols(mode, width) = GridCols(width) /\ Rows(mode, width, height) = GridRows(height)
      BY <1>6 DEF Cols, Rows
    <2> QED BY <1>1, <1>3, <1>4, <1>6, <2>1 DEF SelectionDrawn, Drawn
  <1>7. CASE mode = "hex"
    <2>1. /\ Cols(mode, width) = HexDrawnCols(width)
          /\ Rows(mode, width, height) = HexDrawnRows(width, height)
      BY <1>7 DEF SameRows
    <2> QED BY <1>1, <1>3, <1>4, <1>7, <2>1 DEF SelectionDrawn, Drawn
  <1> QED BY <1>1, <1>5, <1>6, <1>7, ModesAssumption

\* The key that asks for the next page selects the last card and leaves the view.
LEMMA PastEndDrawsLast ==
  ASSUME IInv, NEW d \in Deltas, MovePastEnd(d),
         size - 1 \in Drawn(mode, width, height, size, size - 1, scroll),
         UNCHANGED <<mode, size>>
  PROVE  SelectionDrawn
  <1>1. size \in Nat /\ size > 0
    BY ListsAssumption DEF IInv, TypeOK, MovePastEnd
  <1>2. UNCHANGED <<mode, size, scroll, width, height>>
    BY DEF MovePastEnd
  <1>3. Clamped(size - 1, size) = size - 1
    BY <1>1 DEF Clamped
  <1>4. selected' = size - 1
    <2>1. CASE Redraw(size - 1)
      BY <2>1 DEF Redraw, Draw
    <2>2. CASE Reload(size - 1)
      BY <1>2, <1>3, <2>2 DEF Reload, Draw
    <2> QED BY <2>1, <2>2 DEF MovePastEnd, NextPage
  <1> QED BY <1>2, <1>4 DEF SelectionDrawn

\* An arrow key leaves the selected card on the screen, where the application and the
\* renderer agree on the rows (always, for the grid and the slices), unless it asks
\* for the next page of the web list: move_selection then returns before it adjusts
\* the scroll offset (wayland_app.cpp:480), and only a last card that was in view in a
\* list and a mode that stay is known to be drawn.
THEOREM MovesKeepSelectionDrawn == Spec => MoveKeepsSelectionDrawn
  <1> DEFINE Promised(d) ==
        /\ ArrowKey(d)
        /\ SameRows(mode, width, height)
        /\ AsksNextPage(d) =>
             /\ size - 1 \in Drawn(mode, width, height, size, size - 1, scroll)
             /\ UNCHANGED <<mode, size>>
  <1>1. IInv /\ [Next]_vars => [\A d \in Deltas : Promised(d) => SelectionDrawn]_vars
    <2> SUFFICES ASSUME IInv, NEW d \in Deltas, Promised(d) PROVE SelectionDrawn
      OBVIOUS
    <2>1. CASE MoveSelection(d)
      BY <2>1, MoveDrawsSelection
    <2>2. CASE MovePastEnd(d)
      BY <2>2, PastEndDrawsLast DEF MovePastEnd
    <2> QED BY <2>1, <2>2 DEF ArrowKey
  <1> QED BY <1>1, IInvHolds, PTL DEF Spec, MoveKeepsSelectionDrawn
=============================================================================
