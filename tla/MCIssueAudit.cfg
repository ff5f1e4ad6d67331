SPECIFICATION Spec
CONSTANTS
  i1 = i1
  i2 = i2
  i3 = i3
  p1 = p1
  p2 = p2
  c1 = c1
  c2 = c2
  c3 = c3
  Issue = {i1, i2, i3}
  Plan = {p1, p2}
  IssuesOf <- MCIssuesOf
  Covered = {p1, p2}
  Contract = {c1, c2, c3}
  SourceOf <- MCSourceOf
  TextOf <- MCTextOf
  Rules = {r1, r2}
  HintsOf <- MCHintsOf
  Corpus = {k1, k2}
  AsOf = {"may", "june"}
  Model = {"chat"}
  Answer = {"finding"}
  NoCall1 = {i3}
  NoCall2 = {i3}
  Thread = {t1, t2}
  MaxOps = 7
  NoFile = NoFile
INVARIANT TypeOK
INVARIANT OneContextPerAudit
INVARIANT ReviewsFitTheirPrimary
INVARIANT ReportComparesOneContext
INVARIANT FreshReportCoversThePlan
INVARIANT CompleteStagesAreWhole
SYMMETRY MCSymmetry
CHECK_DEADLOCK FALSE
