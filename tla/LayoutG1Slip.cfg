SPECIFICATION Spec
CONSTANTS
  Circle = 26
  Disks <- SlippedCylinder
  Thetas <- McThetas
  Widths <- McWidths
CHECK_DEADLOCK FALSE
INVARIANTS LbnComesBack
