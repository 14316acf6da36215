----------------------------- MODULE MCCommands -----------------------------
EXTENDS Commands, TLC

CallerSymmetry == Permutations(Callers)

(* a plan, and the plan that replaces it after a recovery *)
OneThenOne == <<{"s1"}, {"s2"}>>
=============================================================================
