\* The firmware refuses to lock.
SPECIFICATION Spec
CONSTANTS
  t1 = t1
  t2 = t2
  p1 = p1
  p2 = p2
  Thread = {t1}
  Process = {p1}
  ProcOf <- OneThread
  MaxFd = 2
  NoStdin = {}
  Faults = {}
  Word = 64
  MaxIndex = 1
  MaxData = 2
  Calls <- Locks
  FwError = {7}
  WriteOnly = 8
  Illegal = 9
  TooLarge = 10
  NoMemory = 11
INVARIANT
  LockFailureIsNegative
