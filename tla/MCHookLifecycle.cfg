CONSTANTS
  t1 = t1
  t2 = t2
  None = None
  Threads = {t1, t2}
  Main = t1
  MaxLoads = 2
  SymTables <- MCSymTables
SPECIFICATION Spec
INVARIANTS TypeOK NoHookLoop AllOrNothing ImageWhole UsersHaveImage
CHECK_DEADLOCK FALSE
