SPECIFICATION FairSpec
CONSTANTS
  Moves <- SomeMoves
  xsize = 24
  ysize = 48
  MaxLost = 2
INVARIANTS TypeOK OnePointer
PROPERTIES FollowsMouse Realigns
