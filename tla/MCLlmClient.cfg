CONSTANTS
  Calls = {c1, c2}
  RequestKeys = {k1}
  OwnKey = own
  Attempts = 2
  MaxConcurrency = 1
  Breaker = 1
  AuthSuspend = 2
  Answers = {"ok", "wrong", "odd", "timeout", "failed", "limited", "refused", "noRouter", "stopLong", "stopShort"}
SPECIFICATION Spec
SYMMETRY ThreadSymmetry
INVARIANTS TypeOK SlotsConserved FlagsHaveProbes
PROPERTIES StopsOnlyLengthen KeyFaultsStayWithTheirKey
