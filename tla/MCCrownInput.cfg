SPECIFICATION FairSpec
CONSTANTS
  MaxClicks = 4
INVARIANTS TypeOK EachClickOnce NothingInvented
PROPERTIES RestIsHandedOver
