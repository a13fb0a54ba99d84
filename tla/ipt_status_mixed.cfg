\* Two threads of a process, no kernel call fails.
SPECIFICATION Spec
CONSTANTS
  t1 = t1
  t2 = t2
  p1 = p1
  None = None
  Caller = Caller
  Thread = {t1, t2}
  Process = {p1}
  ProcOf <- OneProcess
  Uses <- AnyKind
  MaxFd = 2
  NoStdin = {}
  Faults = {}
  FwError = {1}
INVARIANTS
  StatusIsCarriedBack
