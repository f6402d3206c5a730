SPECIFICATION FairSpec
CONSTANTS
  PoolBytes = 32
  MsgBytes = 4
  HeaderBytes = 4
INVARIANTS TypeOK LastSwitchWins
PROPERTIES Settles
CHECK_DEADLOCK FALSE
