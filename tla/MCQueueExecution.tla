-------------------------- MODULE MCQueueExecution --------------------------
(* Small runs for TLC: one item alone, and two items of which the second       *)
(* comes after the first, by its dependencies or by the sequence.              *)
EXTENDS QueueExecution

NoDependency == [i \in Item |-> {}]
Sequence == [graph |-> FALSE, dependsOn |-> NoDependency]
Chain == [graph |-> TRUE, dependsOn |-> [i \in Item |-> 1..(i - 1)]]

InSequence == {Sequence}
InOrder == {Sequence, Chain}
=============================================================================
