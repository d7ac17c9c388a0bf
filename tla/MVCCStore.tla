------------------------------ MODULE MVCCStore ------------------------------
(***************************************************************************)
(* What drifterdb's write path promises about the versions it stores      *)
(* (spec.md section 3, invariants 2 and 4, and the lifecycles), with the  *)
(* memtables, their lifecycle and the SSTs abstracted away: the store is   *)
(* one set of versions [key, seq, op, trx].                                *)
(*                                                                         *)
(*  - every seq handed out is larger than the last, and a write adds one   *)
(*    version, owned by its transaction, with the seq it took;            *)
(*  - a write may instead be refused (a row lock) and only use up a seq;  *)
(*  - commit clears the TrxId of exactly the transaction's versions,       *)
(*    rollback removes exactly them, and each happens once;               *)
(*  - freezing, collecting and flushing memtables change nothing here:    *)
(*    they are steps that leave the store as it is.                       *)
(* The row lock itself (invariant 3) is not part of this specification;   *)
(* DrifterCore checks it.                                                  *)
(***************************************************************************)
EXTENDS Naturals

CONSTANTS Keys, Trx, NoTrx, MaxSeq

OpTypes == {"Put", "Delete"}
Version == [key : Keys, seq : 1..MaxSeq, op : OpTypes, trx : Trx \cup {NoTrx}]

VARIABLES
    store,    \* the versions held by the memtables and the tables of level 0
    seq,      \* the last seq handed out
    live      \* transactions begun and not yet committed or rolled back

vars == <<store, seq, live>>

TypeOK == store \subseteq Version /\ seq \in 0..MaxSeq /\ live \subseteq Trx

Init == store = {} /\ seq = 0 /\ live = {}

\* A transaction starts with a read seq of its own.
Begin(t) ==
    /\ t \notin live
    /\ seq' = seq + 1
    /\ live' = live \cup {t}
    /\ UNCHANGED store

\* A write of k by t stores a version with the next seq.
Write(t, k, op) ==
    /\ t \in live
    /\ seq' = seq + 1
    /\ store' = store \cup {[key |-> k, seq |-> seq + 1, op |-> op, trx |-> t]}
    /\ UNCHANGED live

\* A write attempt the row lock refuses uses up a seq and stores nothing.
Refused(t) ==
    /\ t \in live
    /\ seq' = seq + 1
    /\ UNCHANGED <<store, live>>

Commit(t) ==
    /\ t \in live
    /\ store' = {IF v.trx = t THEN [v EXCEPT !.trx = NoTrx] ELSE v : v \in store}
    /\ live' = live \ {t}
    /\ UNCHANGED seq

Rollback(t) ==
    /\ t \in live
    /\ store' = {v \in store : v.trx # t}
    /\ live' = live \ {t}
    /\ UNCHANGED seq

Next ==
    \E t \in Trx :
        \/ Begin(t) \/ Refused(t) \/ Commit(t) \/ Rollback(t)
        \/ \E k \in Keys, op \in OpTypes : Write(t, k, op)

Spec == Init /\ [][Next]_vars

=============================================================================
