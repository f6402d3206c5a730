SPECIFICATION FairSpec
CONSTANTS
  Args = {"pkg", "other"}
  NoArg = NoArg
  StopOption = StopOption
  Line = Line
  Blocks = {b1, b2}
  Threads = {t1, t2}
  Nobody = Nobody
  Free = Free
INVARIANTS TypeOK ActsOnTyped OneOwner
PROPERTIES PromptReturns JobsEnd
