-------------------------- MODULE MCJobArchitecture --------------------------
EXTENDS JobArchitecture, TLC
MCClients == Permutations(Client)
=============================================================================
