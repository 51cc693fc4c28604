SPECIFICATION Spec

CONSTANTS
  Conns = {c1, c2}
  Ids = {i1, i2}
  MaxSignups = 2
  NumCodes = 1
  Faults = {"insert", "hash", "codes", "invalidate"}
  Nobody = Nobody
  NoAccount = NoAccount

INVARIANT TypeOK
INVARIANT SignupOtpStored
INVARIANT CodesOfOneSignup
INVARIANT CodesSingleUse
PROPERTY AccountsPermanent

SYMMETRY ConnSymmetry

CHECK_DEADLOCK FALSE
