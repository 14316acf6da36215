---------------------------- MODULE MCToolIntents ----------------------------
EXTENDS ToolIntents, TLC

CallerSymmetry == Permutations(Callers)

Replace(path, content, expected) ==
  [path |-> path, content |-> content, expected |-> expected]

(* two files in one proposal, or the first of them alone *)
TwoFiles == {<<Replace("p", "new", "old"), Replace("q", "new", "old")>>}
OneOrTwo == TwoFiles \cup {<<Replace("p", "new", "old")>>}
AllOld == [path \in {"p", "q"} |-> "old"]
=============================================================================
