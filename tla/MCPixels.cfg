CONSTANTS
  Widths = {2, 3, 4}
  Heights = {1, 4, 6, 8, 9, 16}
  Surfaces <- MCSurfaces
  Stale = Stale
SPECIFICATION Spec
CHECK_DEADLOCK FALSE
INVARIANTS
  PictureIsWhole
  OverrunsWhenUnaligned
