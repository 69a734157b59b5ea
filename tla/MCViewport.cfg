\* Grids of 3 x 3, 3 x 4, 5 x 3 and 5 x 4 cards, hexagons of 7 x 4, slices; lists
\* that are empty, shorter than a row or than the slices, and longer than the view.
SPECIFICATION Spec
CONSTANTS
  Modes = {"slice", "grid", "hex"}
  Widths = {1000, 1920}
  Heights = {760, 1080}
  Sizes = {0, 4, 31}
INVARIANTS SelectionInList
PROPERTIES MoveKeepsSelectionDrawn
