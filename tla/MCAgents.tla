------------------------------ MODULE MCAgents ------------------------------
EXTENDS Agents, TLC

AnyCaller == Permutations(Callers)

ToolRisks == [t \in {"read_file", "write_file"} |->
                IF t = "read_file" THEN "READ" ELSE "WRITE"]

Reading(id, needs) ==
  [id |-> id, needs |-> needs, risk |-> "READ", tools |-> {"read_file"}, whole |-> TRUE]
Writing(id, needs) ==
  [id |-> id, needs |-> needs, risk |-> "WRITE", tools |-> {"write_file"}, whole |-> TRUE]

(* graphs of three reading steps, with and without a cycle; *)
(* small plans that write; what is refused for another reason; one plan to  *)
(* replan with                                                              *)
Graphs3 == {<<Reading(3, x), Reading(1, y), Reading(2, z)>> :
              x \in {{1}}, y \in {{}, {2}}, z \in {{}, {3}}}
Mixed == {<<Reading(1, {}), Writing(2, {1})>>, <<Writing(1, {}), Writing(2, {})>>,
          <<Writing(2, {}), Reading(1, {})>>}
Refused == {<< >>, <<Reading(1, {}), Reading(1, {})>>, <<Reading(1, {5})>>,
            <<[Reading(1, {}) EXCEPT !.tools = {"write_file"}]>>,
            <<[Reading(1, {}) EXCEPT !.whole = FALSE]>>}
SmallPlans == Graphs3 \cup Mixed \cup Refused \cup {<<Reading(4, {})>>}
=============================================================================
