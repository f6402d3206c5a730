SPECIFICATION Spec
CONSTANTS
  PoolBytes = 32
  MsgBytes = 4
  HeaderBytes = 4
INVARIANTS RefusedOnlyAtMaxMsg
CHECK_DEADLOCK FALSE
