CONSTANTS
  Calls = {c1, c2}
  RequestKeys = {k1}
  OwnKey = own
  Attempts = 2
  MaxConcurrency = 1
  Breaker = 1
  AuthSuspend = 2
  Answers = {"ok", "failed", "refused"}
SPECIFICATION FairSpec
PROPERTIES CallsEnd Recovers
