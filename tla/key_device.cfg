\* Two threads send keymaster commands, a third one shares memory; one
\* process without standard input; connecting and allocating may fail, a read
\* may return no bytes, and what is given descriptor 0 cannot write.
SPECIFICATION LiveSpec
CONSTANTS
  t1 = t1
  t2 = t2
  t3 = t3
  p1 = p1
  Thread = {t1, t2, t3}
  Process = {p1}
  ProcOf <- OneProcess
  KeyThread = {t1, t2}
  Uses <- TwoSenders
  MaxFd = 2
  NoStdin = {p1}
  Faults = {"connect", "empty", "alloc"}
  KeyOpaqueSize = 40
  OutSize = {24, 32}
  Refusal = {2}
  Stray = {24, 65522}
  Word = 65536
INVARIANTS
  TypeOK
  HandlesExclusive
  ConnectionsClosed
  CodesTell
  ResultIsFirmwares
  RequestsFit
  AddressIsLive
  DescriptorsAccounted
  IInv
PROPERTIES
  NothingAfterReturn
  ImplementsExchange
  CallsReturn
