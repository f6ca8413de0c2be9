--------------------------- MODULE MCObjectModel ---------------------------
(* Instances of ObjectModel.  Ids are interchangeable: nothing compares them. *)
EXTENDS ObjectModel, TLC

CONSTANTS t1, t2, c1, c2, r1, r2, r3, q1, q2

TwoTables   == {t1, t2}
TwoChains   == {c1, c2}
ThreeRules  == {r1, r2, r3}
TwoRequests == {q1, q2}
MinusOne    == -1

Ids == Permutations(TwoTables) \cup Permutations(TwoChains)
       \cup Permutations(ThreeRules) \cup Permutations(TwoRequests)
=============================================================================
