\* The read of the answer fails.
SPECIFICATION Spec
CONSTANTS
  t1 = t1
  t2 = t2
  p1 = p1
  p2 = p2
  Thread = {t1}
  Process = {p1}
  ProcOf <- OneThread
  MaxFd = 2
  NoStdin = {}
  Faults = {"read"}
  Word = 64
  MaxIndex = 1
  MaxData = 2
  Calls <- LegalSets
  FwError = {7}
  WriteOnly = 8
  Illegal = 9
  TooLarge = 10
  NoMemory = 11
INVARIANT
  SetFailureIsNegative
