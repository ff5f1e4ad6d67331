---- MODULE MCResultsPage ----
EXTENDS ResultsPage, TLC
CONSTANTS j1, j2
Symmetric == Permutations(Job)
====
