---- MODULE MCIntakePage ----
EXTENDS IntakePage, TLC
CONSTANTS i1, i2, b1, b2
MCSymmetry == Permutations(Item) \cup Permutations(Batch)
====
