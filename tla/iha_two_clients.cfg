\* Two applications that follow every exception up.
SPECIFICATION Spec
CONSTANTS
  t1 = t1
  t2 = t2
  p1 = p1
  p2 = p2
  Thread = {t1, t2}
  Process = {p1, p2}
  ProcOf <- TwoProcesses
  ErrorCode = {5}
  INVALID_INPUT = 13
  Failing = {"checked"}
  Polite = {t1, t2}
INVARIANT
  FailureIsReported
