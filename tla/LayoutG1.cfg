SPECIFICATION Spec
CONSTANTS
  Circle = 26
  Disks <- McDisks
  Thetas <- McThetas
  Widths <- McWidths
CHECK_DEADLOCK FALSE
INVARIANTS CountsOrRefuses PlacesAsMeant TracksAsMeant AnglesUndo
