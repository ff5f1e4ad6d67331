SPECIFICATION FairSpec
CONSTANTS
  worker = worker
  request = request
  deepseek = deepseek
  kimi = kimi
  NoProvider = NoProvider
  NoControl = NoControl
  Providers = {deepseek, kimi}
  Callers = {worker, request}
  SlotCallers = {worker}
  MaxAttempts = 2
INVARIANTS LateRequestsBounded NothingLeavesUngranted RecordIsTrue
PROPERTIES CancelDrains
