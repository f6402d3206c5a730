SPECIFICATION Spec
CONSTANTS
  Paths = {"logo", "app"}
  Sizes = {1, 5}
  NoFile <- MCNoFile
  IsDir <- MCIsDir
  FdMax = 2
  Threads = {t1}
  Hex = Hex
  Nobody = Nobody
  Alignment = 4
  Grain = 2
  HeapStart = 2
  HeapEnd = 14
  Word = 16
  Args = {"app"}
  Requests = {4}
  MaxOthers = 1
  Candidates <- MCCandidates
  ImgDir = {"logo"}
  SysDir = {"app"}
  NoPath = NoPath
  Rounds = 1
INVARIANTS TypeOK BufferInside HeapAccounted FdsBalanced SearchIsComplete
