--------------------------- MODULE MCQueueManager ---------------------------
(* Instances of QueueManager for TLC.                                      *)
EXTENDS QueueManager, TLC

CONSTANTS t1, t2, t3, s1, s2, w1, w2

(* Both tasks on one shot, as when a user generates it again.              *)
SameShot == [t \in Tasks |-> s1]

(* The second task belongs to another shot.                                *)
TwoShots == [t \in Tasks |-> IF t = t2 THEN s2 ELSE s1]

(* The two threads of the pool are interchangeable.                        *)
Threads == Permutations(Workers)
=============================================================================
