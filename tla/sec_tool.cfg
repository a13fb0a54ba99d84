\* Commands run from two shells at the same time, on one table and one driver.
SPECIFICATION ToolSpec
CONSTANTS
  t1 = t1
  t2 = t2
  p1 = p1
  p2 = p2
  Thread = {t1, t2}
  Process = {p1, p2}
  ProcOf <- TwoProcesses
  MaxFd = 1
  NoStdin = {}
  Faults = {"read", "alloc"}
  Word = 512
  MaxIndex = 1
  MaxData = 2
  MaxSchema = 1
  OtherParts = {0}
  OtherGroups = {1}
  Calls <- Made
  Lines <- TwoShells
  FwError = {7}
  WriteOnly = 8
  Illegal = 9
  TooLarge = 10
  NoMemory = 11
INVARIANTS
  ToolIInv
  LibraryAccepts
  FailureNotDone
  SuccessDone
  OldFileKept
  OutputNotLost
  OnlySoftfuse
PROPERTY
  ImplementsCommands
