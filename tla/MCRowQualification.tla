-------------------------- MODULE MCRowQualification --------------------------
(* A small instance of RowQualification for TLC.                             *)
EXTENDS RowQualification

Level5 == {3, 5, 8}

(* Two identities put the rows in opposite orders.                           *)
Opposite(identity, row) == IF identity = 1 THEN row ELSE 10 - row

(* They differ in the model or the budget.                                   *)
OneDataset(identity) == 1

(* One that is fine, one with an event too few behind it.                    *)
TwoGenerations ==
  {[capped |-> FALSE, predicted |-> 3, eligible |-> e, placed |-> TRUE] : e \in {2, 3}}
==============================================================================
