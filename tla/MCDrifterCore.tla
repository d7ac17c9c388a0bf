---------------------------- MODULE MCDrifterCore ----------------------------
(* Instantiates DrifterCore for TLC: two transactions, two keys.           *)
EXTENDS DrifterCore, TLC

CONSTANTS t1, t2, k1, k2

MCTrx  == {t1, t2}
MCKeys == {k1, k2}
MCKeys1 == {k1}

\* Transactions and keys are interchangeable model values.
Symmetry == Permutations(MCTrx) \cup Permutations(MCKeys)

\* Enough for every getSeq call: one per GetTransaction, and at most two
\* Set attempts per Put/Delete with two transactions.
MCMaxSeq == 2 * (1 + 2 * 2)
=============================================================================
