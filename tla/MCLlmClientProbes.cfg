CONSTANTS
  Calls = {c1, c2, c3}
  RequestKeys = {k1}
  OwnKey = own
  Attempts = 2
  MaxConcurrency = 2
  Breaker = 1
  AuthSuspend = 2
  Answers = {"ok", "timeout"}
SPECIFICATION Spec
INVARIANT OneProbe
