SPECIFICATION Spec
CONSTANTS
  i1 = i1
  i2 = i2
  f1 = f1
  Reviewer = {r1, r2}
  Finding = {f1}
  Decision = {"CONFIRMED", "NEEDS_MORE_REVIEW"}
  Versions = 2
  IssuesAt <- MCIssuesAt
  RequiredAt <- MCRequiredAt
  MaxRequests = 3
INVARIANT NumbersAreConsecutive
INVARIANT ClosedOnCurrentEvidence
PROPERTY NewReportReopens
SYMMETRY MCReviewers
CHECK_DEADLOCK FALSE
