\* Two threads of one application.
SPECIFICATION Spec
CONSTANTS
  t1 = t1
  t2 = t2
  p1 = p1
  p2 = p2
  Thread = {t1, t2}
  Process = {p1}
  ProcOf <- OneProcess
  ErrorCode = {5}
  INVALID_INPUT = 13
  Failing = {"init", "deinit", "checked"}
  Polite = {}
INVARIANTS
  TypeOK
  NoLostFailure
  IInv
