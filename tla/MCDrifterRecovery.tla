-------------------------- MODULE MCDrifterRecovery --------------------------
EXTENDS DrifterRecovery, TLC

CONSTANTS t1, t2, k1, k2

MCTrx == {t1, t2}
MCKeys1 == {k1}
MCKeys2 == {k1, k2}

\* Two record lengths are enough for an offset to fall inside a record.
MCRecLens == {1, 2}

Symmetry == Permutations(MCTrx)
=============================================================================
