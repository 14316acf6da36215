----------------------------- MODULE MCEventLog -----------------------------
EXTENDS EventLog, TLC

CallerSymmetry == Permutations(Callers)
=============================================================================
