SPECIFICATION Spec
CONSTANTS
  o1 = o1
  o2 = o2
  o3 = o3
  o4 = o4
  Topic <- MCTopic
  Object <- MCObject
  RuleResult <- MCRuleResult
  General <- MCGeneral
  TypeSpecific <- MCTypeSpecific
  Routes <- MCRoutes
  Contract <- MCContract
  Content <- MCContent
  Results <- MCResults
  Draft <- MCDraft
  DirectLimit = 8
  ChunkChars = 3
  ChunkItems = 2
  MaxPasses = 5
  IndexChars = 4
  PreviewMin = 1
  PreviewMax = 3
  NoFile = NoFile
INVARIANT TypeOK
INVARIANT EveryFindingIsPlanned
INVARIANT IssuesPointAtShownObjects
INVARIANT PassesPartitionTheContract
