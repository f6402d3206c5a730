SPECIFICATION Spec
CONSTANTS
  Files = {"a", "b", "c"}
  Tools = {"t1", "t2"}
  MaxHistory = 2
  MaxUses = 4
INVARIANTS TypeOK ListsLatest
