---------------------------- MODULE MCDiscovery -----------------------------
\* Discovery for TLC.
EXTENDS Discovery, TLC

\* The callers run the same code and no property tells them apart.
CallerSymmetry == Permutations(Callers)
=============================================================================
