----------------------------- MODULE MCRecords -----------------------------
(* Records with two versions of each field, which nothing tells apart, and *)
(* one GET_* step.                                                         *)
EXTENDS Records

CONSTANTS first, second

MCValues == {first, second}
MCSteps  == {1}
Versions == {[v \in MCValues |-> v],
             [v \in MCValues |-> IF v = first THEN second ELSE first]}
============================================================================
