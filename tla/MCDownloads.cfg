\* Two downloaders that meet at a preview and at a picture, in two pieces each.
SPECIFICATION Spec
CONSTANTS
  Pictures = {g1}
  Previews = {f1}
  Downloaders = {d1, d2}
  Pieces = 2
  None = None
SYMMETRY Symmetry
INVARIANTS RestingFileIsWhole NamedPreviewExists
