------------------------- MODULE MCRemovalDeletion -------------------------
EXTENDS RemovalDeletion, TLC

CONSTANTS a1, a2, d1, d2, r1, r2, b1

OneBatch == [r \in {r1, r2} |-> {b1}]
Alone    == [r \in {r1} |-> {b1}]
FirstThenSecond == [r \in {r1, r2} |-> IF r = r1 THEN 1 ELSE 2]
OnlyFirst == [r \in {r1} |-> 1]

ProcessSymmetry == Permutations({a1, a2}) \cup Permutations({d1, d2})
=============================================================================
