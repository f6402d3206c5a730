SPECIFICATION Spec
CONSTANTS
  HasData = TRUE
  Start <- MCStart
  NumBlocks <- MCNumBlocks
INVARIANTS TypeOK MountedIsCoherent
PROPERTIES BootMounts FilesSurvive
