---------------------------- MODULE MCDrifterRead ----------------------------
EXTENDS DrifterRead, TLC

CONSTANTS t1, t2

MCTrx == {t1, t2}
MCKeys == {1, 2}
MCIsoLevels == {"RU", "RC", "RR"}
DefaultIsoLevel == {"RR"}
NoFalsePositives == {{}}
AnyFalsePositives == SUBSET MCKeys
Symmetry == Permutations(MCTrx)

=============================================================================
