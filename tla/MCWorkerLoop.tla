---------------------------- MODULE MCWorkerLoop ----------------------------
EXTENDS WorkerLoop

Alone(act) == <<[id |-> 1, act |-> act]>>
Both(first, second) == <<[id |-> 1, act |-> first], [id |-> 2, act |-> second]>>

(* no call, one, two, and the answers that are wrong as a whole: one ID     *)
(* twice, one call too many, arguments that are no JSON                     *)
SmallAnswers ==
  {<< >>, Alone("read"),
   Both("write", "read"), Both("ask", "write"), Alone("adjust"),
   Both("write", "bad"), Both("read", "read"), Both("write", "json"),
   <<[id |-> 1, act |-> "write"], [id |-> 1, act |-> "read"]>>,
   Both("write", "read") \o <<[id |-> 3, act |-> "adjust"]>>}
=============================================================================
