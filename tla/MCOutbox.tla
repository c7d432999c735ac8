------------------------------ MODULE MCOutbox ------------------------------
(* A device with two tabs: an expense, and a comment on it.                *)
EXTENDS Outbox, TLC

CONSTANTS expense, comment

MCNeeds == [c \in Changes |-> IF c = comment THEN {expense} ELSE {}]

\* The tabs run the same code.
Twins == Permutations(Tabs)
=============================================================================
