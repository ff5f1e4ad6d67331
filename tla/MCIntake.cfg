SPECIFICATION LocalSpec
CONSTANTS
  t1 = t1
  t2 = t2
  Thread = {t1, t2}
  Document <- MCDocument
  Free = {4, 9}
  MaxUpload = 5
  Reserve = 4
  MinNative = 32
  TitleWindow = 20
  MinParties = 2
  MinRoles = 2
  Torn = Torn
  None = None
INVARIANT LocalTypeOK
INVARIANT EvidenceIsStructured
INVARIANT ReferencesNameOneClause
INVARIANT VerdictsFollowTheText
SYMMETRY MCSymmetry
CHECK_DEADLOCK FALSE
