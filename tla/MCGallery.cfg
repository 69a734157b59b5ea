\* An image and a video, two entries of the server of which the newest is listed.
SPECIFICATION Spec
CONSTANTS
  Wallpapers = {i1, v1}
  Videos = {v1}
  Coloured = {}
  Types = {"video"}
  Colours = {}
  Named = {i1}
  Entries = {e1, e2}
  PageSize = 1
  Cap = 1
  MaxAnswers = 2
SYMMETRY Symmetry
INVARIANTS TypeOK ListIsAsAsked WhatIsSeenIsActedOn FreshResultsAreShown
