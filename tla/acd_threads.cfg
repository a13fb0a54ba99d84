\* Two threads of one process share its descriptors and the table.
SPECIFICATION Spec
CONSTANTS
  t1 = t1
  t2 = t2
  p1 = p1
  p2 = p2
  Thread = {t1, t2}
  Process = {p1}
  ProcOf <- OneProcess
  MaxFd = 2
  NoStdin = {}
  Faults = {"connect", "read"}
  Word = 64
  MaxIndex = 1
  MaxData = 2
  Calls <- Effective
  FwError = {7}
  WriteOnly = 8
  Illegal = 9
  TooLarge = 10
  NoMemory = 11
SYMMETRY Threads2
INVARIANTS
  HandlesExclusive
  NegativeIsFinal
  ReturnTells
  NoHang
PROPERTY
  ImplementsService
