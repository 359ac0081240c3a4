------------------------ MODULE MCRemovalSubmission ------------------------
EXTENDS RemovalSubmission, TLC

CONSTANTS a1, a2, r1, r2, b1

OneBatch == [r \in {r1, r2} |-> {b1}]
Alone    == [r \in {r1} |-> {b1}]
FirstThenSecond == [r \in {r1, r2} |-> IF r = r1 THEN 1 ELSE 2]
OnlyFirst == [r \in {r1} |-> 1]

AttemptSymmetry == Permutations({a1, a2})
=============================================================================
