------------------------------ MODULE Viewport ------------------------------
(***************************************************************************)
(* The list the picker shows: which wallpaper is selected, where the view  *)
(* is scrolled to, and which cards are on the screen (move_selection,      *)
(* scroll_viewport and the handlers of picker/wayland_app.cpp against the  *)
(* geometry of picker/renderer.cpp).  The application and the renderer     *)
(* each compute the number of columns and rows of their own; what a click  *)
(* hits is what the last drawing left.  A wallpaper is its index in the    *)
(* list.  The mosaic, whose cards have the heights of their pictures, is   *)
(* left out.                                                               *)
(***************************************************************************)
EXTENDS Integers

CONSTANTS
  Modes,           \* the display modes used, of slice, grid and hex
  Widths, Heights, \* sizes the compositor may give the surface
  Sizes            \* lengths the list of wallpapers may have

ASSUME ModesAssumption == Modes \subseteq {"slice", "grid", "hex"} /\ "grid" \in Modes
ASSUME SizesAssumption == Widths \subseteq Nat \ {0} /\ Heights \subseteq Nat \ {0}
ASSUME ListsAssumption == Sizes \subseteq Nat

VARIABLES
  mode,           \* mode_
  width, height,  \* width_, height_
  web,            \* wallhaven_mode_
  size,           \* wallpapers_.size()
  selected,       \* selected_
  scroll,         \* scroll_offset_
  hits            \* the indices in hit_regions_ a click can select

vars == <<mode, width, height, web, size, selected, scroll, hits>>

AtLeast(x, y) == IF x < y THEN y ELSE x
AtMost(x, y) == IF x > y THEN y ELSE x
Clamp(x, low, high) == AtMost(AtLeast(x, low), high)

-----------------------------------------------------------------------------
(* The geometry.  Lengths of the hexagons are in 10^-5 pixels, so that the *)
(* factors of the code are exact.                                          *)

GridCols(w) == IF w >= 1500 THEN 5 ELSE IF w >= 1100 THEN 4 ELSE 3
GridRows(h) == IF h >= 920 THEN 4 ELSE 3

HexRadius(w) == Clamp(w * 52, 70000, 108000)
HexStepX(w) == HexRadius(w) * 155
HexStepY(w) == HexRadius(w) * 134
HexRowsIn(w, pixels) ==
  Clamp((200000 * pixels + HexStepY(w)) \div (2 * HexStepY(w)), 2, 4)

\* scroll_step and visible_rows_count of the application.
Cols(m, w) == CASE m = "grid" -> GridCols(w)
                [] m = "hex" -> (IF w >= 1500 THEN 7 ELSE IF w >= 1100 THEN 5 ELSE 3)
                [] OTHER -> 1
Rows(m, w, h) == CASE m = "grid" -> GridRows(h)
                   [] m = "hex" -> HexRowsIn(w, h - 180)
                   [] OTHER -> 1

\* render_hex, with the stage of update_stage.
StageWidth(w) == AtMost(AtLeast(w * 1000 - 2 * Clamp(w * 75, 52000, 140000), 320000), 1180000)
HexDrawnCols(w) ==
  AtMost(AtLeast((200 * StageWidth(w) - HexStepX(w)) \div (2 * HexStepX(w)), 3), 7)
HexDrawnRows(w, h) == HexRowsIn(w, AtLeast(h - 138 - 86, 240))

\* The cards from the row of the scroll offset on, for c columns and r rows.
Window(n, s, c, r) == LET start == (s \div c) * c
                      IN  {i \in start..(start + r * c - 1) : i < n}

\* render_slice: seven neighbours on each side, with the remainder of C++, and
\* the selected card.  For fewer than seven wallpapers an index can be negative, and
\* its region is left out: a click on it selects nothing, as hit_test returns a
\* negative number, and if it is off the stage the picker closes as if no card were
\* there (wayland_app.cpp:901).  What render_slice reads before the first wallpaper is
\* undefined and only coloured pixels here.
Remainder(x, n) == IF x >= 0 THEN x % n ELSE -((-x) % n)
SliceCards(n, sel) ==
  {i \in {Remainder(sel + o + n, n) : o \in (-7..7) \ {0}} : i >= 0} \cup {sel}

Drawn(m, w, h, n, sel, s) ==
  IF n = 0 THEN {}
  ELSE CASE m = "slice" -> SliceCards(n, sel)
         [] m = "grid" -> Window(n, s, GridCols(w), GridRows(h))
         [] m = "hex" -> Window(n, s, HexDrawnCols(w), HexDrawnRows(w, h))

-----------------------------------------------------------------------------
(* Bugs the properties are tried against.                                  *)

\* The offset of the last row.
LastRow == ((size - 1) \div Cols(mode, width)) * Cols(mode, width)

\* A row too late; a shorter list is not noticed.
BugAdjusted(sel) == LET c == Cols(mode, width)
                        v == Rows(mode, width, height)
                        row == sel \div c
                        start == scroll \div c
                    IN  IF row < start THEN row * c
                        ELSE IF row > start + v THEN (row - v + 1) * c
                        ELSE scroll
BugClamped(sel, n) == sel

-----------------------------------------------------------------------------
Init == /\ mode \in Modes
        /\ width \in Widths
        /\ height \in Heights
        /\ web = FALSE
        /\ size \in Sizes
        /\ selected = 0
        /\ scroll = 0
        /\ hits = Drawn(mode, width, height, size, selected, scroll)

\* load_wallpapers keeps the selection inside a list of n wallpapers.
Clamped(sel, n) == IF sel >= n THEN AtLeast(n - 1, 0) ELSE sel

\* A drawing of n wallpapers, whose regions replace the old ones.
Draw(sel, n) == /\ size' = n
                /\ selected' = sel
                /\ hits' = Drawn(mode', width, height, n, sel, scroll')

\* redraw of the same list, and of dirty data: the table may have changed in any way.
Redraw(sel) == Draw(sel, size)
Reload(sel) == \E n \in Sizes : Draw(Clamped(sel, n), n)

\* The selection move_selection(delta) comes to, and the scroll offset that is
\* to keep it in the viewport.
Target(delta) == Clamp(selected + delta, 0, size - 1)
Adjusted(sel) == LET c == Cols(mode, width)
                     v == Rows(mode, width, height)
                     row == sel \div c
                     start == scroll \div c
                 IN  IF row < start THEN row * c
                     ELSE IF row >= start + v THEN (row - v + 1) * c
                     ELSE scroll

Deltas == {1, -1, Cols(mode, width), -Cols(mode, width)}

\* The arrow keys.  At the end of the web list one asks for the next page.
AsksNextPage(delta) == web /\ delta > 0 /\ selected + delta >= size

MoveSelection(delta) ==
  /\ size > 0
  /\ ~AsksNextPage(delta)
  /\ scroll' = Adjusted(Target(delta))
  /\ mode' = mode
  /\ Redraw(Target(delta))
  /\ UNCHANGED <<width, height, web>>

\* load_wallhaven_next_page: refused, or it starts a load that keeps the view.
NextPage(sel) == \/ mode' = mode /\ Redraw(sel)
                 \/ mode' = "grid" /\ Reload(sel)

\* move_selection then returns before it adjusts the scroll offset.
MovePastEnd(delta) == /\ size > 0
                      /\ AsksNextPage(delta)
                      /\ scroll' = scroll
                      /\ NextPage(size - 1)
                      /\ UNCHANGED <<width, height, web>>

ArrowKey(delta) == MoveSelection(delta) \/ MovePastEnd(delta)

\* The key or the button for the next page.
AskNextPage == /\ web
               /\ scroll' = scroll
               /\ NextPage(selected)
               /\ UNCHANGED <<width, height, web>>

\* The wheel: scroll_viewport aligns the offset to rows and bounds it.
Bounded(offset) == Clamp(offset, 0, LastRow)
Scrolled(steps) == ((scroll + steps * Cols(mode, width)) \div Cols(mode, width))
                     * Cols(mode, width)

ScrollViewport(steps) ==
  /\ size > 0
  /\ ~(web /\ steps > 0 /\ Scrolled(steps) > LastRow)
  /\ scroll' = Bounded(Scrolled(steps))
  /\ mode' = mode
  /\ Redraw(selected)
  /\ UNCHANGED <<width, height, web>>

ScrollPastEnd(steps) == /\ size > 0
                        /\ web /\ steps > 0 /\ Scrolled(steps) > LastRow
                        /\ scroll' = LastRow
                        /\ NextPage(selected)
                        /\ UNCHANGED <<width, height, web>>

SetMode(m) == /\ mode' = m
              /\ scroll' = scroll
              /\ Redraw(selected)
              /\ UNCHANGED <<width, height, web>>

\* A filter, the query or the local list: the view starts again from the top.
ResetView == /\ mode' = mode
             /\ web' \in {web, FALSE}
             /\ scroll' = 0
             /\ Reload(0)
             /\ UNCHANGED <<width, height>>

\* The web list is shown from its first page.
ShowWeb == /\ mode' = "grid"
           /\ web' = TRUE
           /\ scroll' = 0
           /\ Reload(0)
           /\ UNCHANGED <<width, height>>

\* A click on a card, or on its star: it is selected; what it then does (apply,
\* favourite) redraws, with a new list when the data is dirty.
Click(i) == /\ mode' = mode
            /\ scroll' = scroll
            /\ Redraw(i) \/ Reload(i)
            /\ UNCHANGED <<width, height, web>>

\* Every other redraw: a load ends or is refused, a wallpaper was applied or not.
Refresh == /\ mode' = mode
           /\ scroll' = scroll
           /\ Reload(selected)
           /\ UNCHANGED <<width, height, web>>

\* layer_configure takes a new size and does not redraw.
Configure(w, h) == /\ width' = w
                   /\ height' = h
                   /\ UNCHANGED <<mode, web, size, selected, scroll, hits>>

\* What the keys do, and what the cards and the buttons of the toolbar do.
Keyboard == \/ \E d \in Deltas : ArrowKey(d)
            \/ \E m \in Modes : SetMode(m)
            \/ ResetView \/ ShowWeb \/ Refresh
Pointer == \/ \E i \in hits : Click(i)
           \/ \E m \in Modes : SetMode(m)
           \/ ResetView \/ ShowWeb \/ AskNextPage \/ Refresh
Wheel == \E s \in {-3, -1, 1, 3} : ScrollViewport(s) \/ ScrollPastEnd(s)

Next == \/ Keyboard \/ Pointer \/ Wheel
        \/ Refresh
        \/ \E w \in Widths, h \in Heights : Configure(w, h)

Spec == Init /\ [][Next]_vars

-----------------------------------------------------------------------------
(* Properties.                                                             *)

TypeOK == /\ mode \in Modes
          /\ width \in Widths
          /\ height \in Heights
          /\ web \in BOOLEAN
          /\ size \in Sizes
          /\ selected \in Nat
          /\ scroll \in Nat
          /\ hits \subseteq Nat

\* The selected wallpaper is one of the list, whatever became of the list, and
\* so is every wallpaper a click can select: neither the handlers nor the next
\* drawing index beyond wallpapers_, although the regions are those of an
\* earlier drawing.
SelectionInList == /\ size > 0 => selected < size
                   /\ size = 0 => selected = 0
                   /\ \A i \in hits : i < size

\* The application and the renderer divide the screen into the same rows.
SameRows(m, w, h) ==
  CASE m = "hex" -> Cols(m, w) = HexDrawnCols(w) /\ Rows(m, w, h) = HexDrawnRows(w, h)
    [] OTHER -> TRUE

\* What the renderer draws after the step has the selected card.
SelectionDrawn == selected' \in Drawn(mode', width', height', size', selected', scroll')

\* After an arrow key the selected card is drawn, wherever the wheel, a resize, a
\* change of mode or a shorter list had left the view (move_selection against
\* render_grid, render_slice, render_hex), with two exceptions.  Where the honeycomb
\* of the application has other rows than that of the renderer the card can be off
\* the screen.  And the key that asks for the next page of the web list leaves the
\* scroll offset alone (wayland_app.cpp:480), so its card is promised only where the
\* last card was in the view before and the list and the mode stay as they are.
MoveKeepsSelectionDrawn ==
  [][\A d \in Deltas :
       /\ ArrowKey(d)
       /\ SameRows(mode, width, height)
       /\ AsksNextPage(d) =>
            /\ size - 1 \in Drawn(mode, width, height, size, size - 1, scroll)
            /\ UNCHANGED <<mode, size>>
       => SelectionDrawn]_vars

\* The same of the keys that come to the comment of wayland_app.cpp:485, without the
\* condition on the rows: "Adjust scroll_offset_ to make sure selected_ is in the
\* viewport".
SelectionIsInViewport == [][\A d \in Deltas : MoveSelection(d) => SelectionDrawn]_vars
=============================================================================
