---------------------------- MODULE MCMsysClient ----------------------------
EXTENDS MsysClient, TLC
Symmetry == Permutations(Caller)
=============================================================================
