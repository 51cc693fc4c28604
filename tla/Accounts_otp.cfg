SPECIFICATION Spec

CONSTANTS
  Conns = {c1}
  Ids = {i1}
  MaxSignups = 2
  NumCodes = 1
  Faults = {}
  Nobody = Nobody
  NoAccount = NoAccount

INVARIANT LoadedOtpIsStored

CHECK_DEADLOCK FALSE
