\* One client that follows its exceptions up.
SPECIFICATION Spec
CONSTANTS
  t1 = t1
  t2 = t2
  p1 = p1
  p2 = p2
  Thread = {t1}
  Process = {p1}
  ProcOf <- OneThread
  ErrorCode = {5, 6}
  INVALID_INPUT = 13
  Failing = {"checked"}
  Polite = {t1}
INVARIANT
  OwnError
