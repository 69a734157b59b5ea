\* Hexagons on a wide screen: 7 columns in the application, 6 in the renderer.
SPECIFICATION Spec
CONSTANTS
  Modes = {"grid", "hex"}
  Widths = {2560}
  Heights = {1440}
  Sizes = {31}
PROPERTIES SelectionIsInViewport
