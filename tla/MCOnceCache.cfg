SPECIFICATION FairSpec
CONSTANTS
  c1 = c1
  c2 = c2
  c3 = c3
  c4 = c4
  x1 = x1
  x2 = x2
  None = None
  Preset = Preset
  Calls <- MCCalls
  Keys <- MCKeys
  KeyOf <- MCKeyOf
  Canonical <- MCCanonical
  Ctxs <- MCCtxs
  CtxOf <- MCCtxOf
  MayPanic = TRUE
INVARIANTS
  SingleFlight
  AskedOnce
  CallersAgree
PROPERTIES
  EveryCallReturns
CHECK_DEADLOCK FALSE
