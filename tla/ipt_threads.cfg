\* Two threads of a process, any kernel call may fail.
SPECIFICATION Spec
CONSTANTS
  t1 = t1
  t2 = t2
  p1 = p1
  None = None
  Caller = Caller
  Thread = {t1, t2}
  Process = {p1}
  ProcOf <- OneProcess
  Uses <- Divided
  MaxFd = 2
  NoStdin = {}
  Faults = {"connect", "write", "read", "empty"}
  FwError = {1}
INVARIANTS
  TypeOK
  ConnectionsClosed
  OwnAnswer
  StatusIsOwn
  IInv
PROPERTIES
  ImplementsExchange
