--------------------------- MODULE MCTaskRuntime ---------------------------
EXTENDS TaskRuntime, TLC

CallerSymmetry == Permutations(Callers)

READ(needs) == [risk |-> "READ", needs |-> needs]
WRITE(needs) == [risk |-> "WRITE", needs |-> needs]

(* one reading step: minimalPlan in PLAN mode *)
OneRead == {<<READ({})>>}

(* two proposals, one after the other or in any order *)
Pairs == {<<WRITE({}), WRITE({1})>>, <<WRITE({}), WRITE({})>>}
=============================================================================
