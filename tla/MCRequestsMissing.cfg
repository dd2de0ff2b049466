CONSTANTS
  MaxCalls = 2
  Slots = 1
  Calls = {1, 2, 3}
  Prompt <- MCPrompt
  Output = 2
  TokenLimit = 8
  CallAttempts = 3
  Askers = {"r1", "r2"}
  MaxChanges = 3
  Clients = {"k1", "k2", "k3"}
  RateLimit = 2
  Window = 4
  Second = 2
  MaxClients = 2
  MaxTime = 7
  Readers = {"r1", "r2"}
  Top = "top"
  Subs = {"sub"}
  Sizes <- MCSizes
  PageSize = 2
  MaxPages = 2
  ReadAttempts = 2
  MaxFaults = 1
  Workers = {"a", "b"}
  Lookers = {"t1", "t2"}
  Pods <- MCPods
  OneWorker <- MCSameWorker
  Broken = {2}
  MaxVersion = 3
  MaxCopies = 3
  MaxFailures <- MCMaxFailures
  Templates <- MCTemplates
  Sources <- MCSources
  Corpora <- MCCorpora
  Url <- MCUrl
  Title <- MCTitle
  NoUrl = "none"
  MarkerLimit = 999
  MaxNew = 2
  MaxNumber = 4
  MaxRequests = 3
  MaxEdits = 1
SPECIFICATION PartSpec
CHECK_DEADLOCK FALSE
INVARIANT SaysWhatIsMissingEver
