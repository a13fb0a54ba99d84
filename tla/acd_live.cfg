\* Two processes, the second without standard input; fairness.
SPECIFICATION LiveSpec
CONSTANTS
  t1 = t1
  t2 = t2
  p1 = p1
  p2 = p2
  Thread = {t1, t2}
  Process = {p1, p2}
  ProcOf <- TwoProcesses
  MaxFd = 1
  NoStdin = {p2}
  Faults = {"write", "read"}
  Word = 64
  MaxIndex = 1
  MaxData = 2
  Calls <- Few
  FwError = {7}
  WriteOnly = 8
  Illegal = 9
  TooLarge = 10
  NoMemory = 11
PROPERTY
  CallsReturn
