---------------------------- MODULE MCHumanReview ----------------------------
EXTENDS HumanReview, TLC
CONSTANTS i1, i2, f1
\* The second version of the plan has one issue more.
MCIssuesAt == <<{i1}, {i1, i2}>>
MCRequiredAt == <<{i1}, {i1}>>
MCReviewers == Permutations(Reviewer)
=============================================================================
