---------------------------- MODULE MCLongHorizon ---------------------------
(***************************************************************************)
(* Small horizons for TLC.  The stages are a part of the five that has the *)
(* design checkpoint and what follows it: files are written in IMPLEMENT,  *)
(* the task is verified after the last stage.                              *)
(***************************************************************************)
EXTENDS LongHorizon, TLC

Symmetric == Permutations(Callers)

Look == [mutates |-> FALSE, needs |-> {}]
Change == [mutates |-> TRUE, needs |-> {}]
Then(s) == [s EXCEPT !.needs = {1}]
Segment(s, last) == [steps |-> s, terminal |-> last]

OneLook == {Segment(<<Look>>, TRUE)}
Two == {Segment(<<Look, Then(Look)>>, TRUE), Segment(<<Change>>, TRUE)}

FirstStages == <<"DESIGN", "IMPLEMENT">>
LastStages == <<"DESIGN", "FINALIZE">>

AllOperations ==
  {"Advance", "Resume", "Cancel", "ApproveWrite", "ApproveCommand"}
=============================================================================
