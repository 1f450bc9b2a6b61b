SPECIFICATION AlFairSpec
CONSTANTS
  Contexts = {c1, c2}
  Others = {t1}
  Owner = Owner
  SigThread = SigThread
  NoOne = NoOne
  EagerInit = FALSE
INVARIANT TeardownSafe
PROPERTY TerminateCompletes
PROPERTY TerminationEnds
