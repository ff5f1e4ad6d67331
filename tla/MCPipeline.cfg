SPECIFICATION Spec
CONSTANTS
  w1 = w1
  w2 = w2
  c1 = c1
  c2 = c2
  deepseek = deepseek
  NoProvider = NoProvider
  NoControl = NoControl
  NoReport = NoReport
  NoWorker = NoWorker
  Providers = {deepseek}
  LastStage = 3
  Workers = {w1, w2}
  Clients = {c1}
  Requests = {"start", "retry", "approve", "mode", "cancel", "resume"}
  Modes = {"AUTO_CONTINUE", "REQUIRE_APPROVAL"}
  ProviderStages = {3}
  OcrStages = {2}
  Unneeded = {}
  ProviderOf <- Calls
  MaxCalls = 1
  MaxAttempts = 1
  MayExit = TRUE
INVARIANTS OneRunPerJob ActiveRunIsRegistered RunningHasWorker DoneStagesAreBacked
  FinishedStageIsNotPaidAgain
PROPERTIES CrossesBoundary SettledReportIsLeftAlone
SYMMETRY AnyWorker
