SPECIFICATION AlSpec
CONSTANTS
  Contexts = {c1, c2}
  Others = {t1}
  Owner = Owner
  SigThread = SigThread
  NoOne = NoOne
  EagerInit = TRUE
PROPERTY TerminateCompletes
