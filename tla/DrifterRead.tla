----------------------------- MODULE DrifterRead -----------------------------
(***************************************************************************)
(* drifterdb's read path: the skip list of MVCC keys with its towers and  *)
(* its prev/back pointers (SkipList.Set, GetEntry, Delete, Range), the two *)
(* MVCC comparators, the collector and the dumper that turn a frozen       *)
(* memtable into a level-0 table (DrifterSST), and ReadView.Get, which     *)
(* asks the active, frozen and immutable memtables and then the level-0    *)
(* tables of its version.  Writers are transactions that insert, commit    *)
(* (TrxId = 0) and roll back (Delete); waiting on a row lock is            *)
(* modelled in DrifterCore, here a refused Set leaves the list as it is   *)
(* and the writer retries the same write.  Contents are naturals ordered   *)
(* as bytes.Compare orders them.                                           *)
(***************************************************************************)
EXTENDS Integers, Sequences, FiniteSets, SequencesExt, DrifterSST

CONSTANTS
    Keys,         \* key contents, a set of naturals
    Trx,          \* transaction ids
    NoTrx,        \* TrxId 0
    IsoLevels,    \* isolation levels SetIsolationLevel may set
    MaxHeight,    \* bound: tower height (maxLevel is 48)
    MaxTables,    \* bound: memtables frozen over the run
    MaxSeq,       \* bound: values of db.seq
    FPChoices     \* the sets of contents a filter's stray bits may admit

ASSUME Keys \subseteq Nat /\ NoTrx \notin Trx /\ MaxHeight >= 1

OpTypes == {"Put", "Delete"}
None == 0         \* a lookup that finds nothing; seqs start at 1
Crash == -1       \* a lookup that panics

\* An entry's prev pointer: another key (possibly of an entry no longer, or
\* never, linked), the list head cast to an Entry, or nil.
Refs == [key : Keys, seq : 1..MaxSeq]
HeadRef == [key |-> 0, seq |-> 0]     \* &list.EntryBase seen as an *Entry
NilRef == [key |-> 0, seq |-> -1]
Ref(e) == [key |-> e.key, seq |-> e.seq]

Entry == [key : Keys, seq : 1..MaxSeq, op : OpTypes, trx : Trx \cup {NoTrx},
          h : 1..MaxHeight, prev : Refs \cup {HeadRef, NilRef}]
\* A memtable: its level-0 entries in list order, list.back, and whether
\* it is the one InitCurrentVersion stored as version.memtable.
Memtable == [ents : Seq(Entry), back : Refs \cup {HeadRef, NilRef}, init : BOOLEAN]
EmptyMemtable == [ents |-> <<>>, back |-> NilRef, init |-> FALSE]
NoWrite == [key |-> None, op |-> "none"]

VARIABLES
    active,       \* db.memtable: a Memtable
    length,       \* its list.length (Delete never decrements it)
    frozen,       \* db.frozenMemtables, oldest first: Seq(Memtable)
    immutable,    \* db.immutableMemtables, oldest first: Seq(Memtable)
    level0,       \* the current version's levels[0], oldest first
    dead,         \* the dumper goroutine panicked, ending the process
    seq,          \* db.seq
    pc,           \* [Trx -> {"idle", "active", "await"}]
    target,       \* [Trx -> key and op]: the write an awaiting Put/Delete retries
    iso,          \* [Trx -> IsoLevels]: ReadView.IsolationLevel
    readSeq,      \* [Trx -> Nat]: ReadView.readSeq
    ver           \* [Trx -> Nat]: level-0 tables in the ReadView's version

vars == <<active, length, frozen, immutable, level0, dead, seq, pc, target, iso, readSeq, ver>>

-----------------------------------------------------------------------------
(* Comparators (common/comparable.go).  Both order contents ascending and, *)
(* for one content, newer seqs first; QueryCompare answers 0 instead of    *)
(* -1 when the left key is newer, so a probe stops at the newest version   *)
(* not newer than itself.                                                  *)

\* Mutant: a probe compared with ModifyCompare, which never answers 0 for
\* an older version.
QueryCompareModify(a, b) == ModifyCompare(a, b)

QueryCompare(a, b) ==
    IF CmpContent(a, b) # 0 THEN CmpContent(a, b)
    ELSE IF a.seq < b.seq THEN 1 ELSE 0

-----------------------------------------------------------------------------
(* SkipList *)

\* The entry after position cur (0 is the head) that reaches level i
\* (levels count from 0); 0 when the level ends.
NextAt(l, i, cur) ==
    LET js == {j \in (cur + 1)..Len(l) : l[j].h > i}
    IN IF js = {} THEN 0 ELSE Min(js)

\* The visibility gate GetEntry applies to an entry of the probe's content.
Admits(q, e) ==
    CASE q.iso = "RU" -> TRUE
      [] q.iso = "RC" -> e.trx = NoTrx \/ e.trx = q.trx
      [] q.iso = "RR" -> (e.seq =< q.seq /\ e.trx = NoTrx) /\ e.trx = q.trx

\* Walk level i forward from cur over the entries QueryCompare puts before q.
RECURSIVE Walk(_, _, _, _)
Walk(l, q, i, cur) ==
    LET n == NextAt(l, i, cur)
    IN IF n # 0 /\ QueryCompare(q, l[n]) > 0 THEN Walk(l, q, i, n) ELSE cur

\* SkipList.GetEntry: from the top level down, the entry where each level's
\* walk stops decides the result when it has the probe's content and the
\* gate admits it (a Delete resolves to nothing); otherwise the result of
\* the levels above stands.  The answer is the entry's seq, or None.
RECURSIVE Descend(_, _, _, _, _)
Descend(l, q, i, cur, result) ==
    IF i < 0 THEN result
    ELSE LET c == Walk(l, q, i, cur)
             n == NextAt(l, i, c)
             hit == n # 0 /\ QueryCompare(q, l[n]) = 0 /\ Admits(q, l[n])
         IN Descend(l, q, i - 1, c,
                    IF ~hit THEN result
                    ELSE IF l[n].op = "Put" THEN l[n].seq ELSE None)

GetEntry(l, q) == Descend(l, q, MaxHeight - 1, 0, None)

\* Set's walk on level i from position cur over the entries ModifyCompare
\* puts before e; it stops at the last of them (comp == 0 needs an equal
\* seq, which getSeq never hands out twice).
RECURSIVE SetWalk(_, _, _, _)
SetWalk(l, e, i, cur) ==
    LET n == NextAt(l, i, cur)
    IN IF n # 0 /\ ModifyCompare(e, l[n]) > 0 THEN SetWalk(l, e, i, n) ELSE cur

\* Mutant of SetDescend: the level skip loses its comparison with topLevel,
\* so every level below the first walked one is skipped.
SetDescendSkipAll(l, e, i, cur) == IF i < 0 THEN cur ELSE SetWalk(l, e, i, cur)

\* Set's predecessor search, from level i down to level 0: each level's
\* walk starts where the level above stopped.  Skipping a level whose next
\* entry is the one the level above stopped before is a walk that stops
\* at once, so every level is walked here.
RECURSIVE SetDescend(_, _, _, _)
SetDescend(l, e, i, cur) ==
    IF i < 0 THEN cur ELSE SetDescend(l, e, i - 1, SetWalk(l, e, i, cur))

\* Where SkipList.Set links a key: previousLevels[0], the position after
\* which the descent from the top level ends.
InsertPos(l, e) == SetDescend(l, e, MaxHeight - 1, 0)

\* Set refuses when the entry it would be linked before holds the same
\* content and another transaction's TrxId.
SetRefused(l, e) ==
    LET p == InsertPos(l, e)
    IN /\ p < Len(l)
       /\ l[p + 1].key = e.key
       /\ l[p + 1].trx \notin {NoTrx, e.trx}

\* randomLevel: with list.length 0 the cap bits.Len(0) * 4 keeps level 1.
Heights(len) == IF len = 0 THEN {1} ELSE 1..MaxHeight

\* SkipList.Set of e, refused or not, on a memtable: before the conflict
\* check the entry after the insertion point already has e as its prev; a
\* linked e gets its level-0 predecessor as prev (nil after the head) and
\* becomes list.back when nothing follows it.
SetLink(m, e, refused) ==
    LET p == InsertPos(m.ents, e)
        ents == IF p < Len(m.ents) THEN [m.ents EXCEPT ![p + 1].prev = Ref(e)] ELSE m.ents
        ne == [e EXCEPT !.prev = IF p = 0 THEN NilRef ELSE Ref(m.ents[p])]
    IN IF refused THEN [m EXCEPT !.ents = ents]
       ELSE [m EXCEPT !.ents = SubSeq(ents, 1, p) \o <<ne>> \o SubSeq(ents, p + 1, Len(ents)),
                      !.back = IF p = Len(m.ents) THEN Ref(e) ELSE m.back]

\* SkipList.Delete's unlinking, level i upwards: the entry after position j
\* on level i gets the level-i predecessor (the head when there is none)
\* as its prev, so a higher level overwrites a lower one.
RECURSIVE Unlink(_, _, _)
Unlink(l, j, i) ==
    IF i >= l[j].h THEN l
    ELSE LET s == NextAt(l, i, j)
             ps == {x \in 1..(j - 1) : l[x].h > i}
             pr == IF ps = {} THEN HeadRef ELSE Ref(l[Max(ps)])
         IN Unlink(IF s = 0 THEN l ELSE [l EXCEPT ![s].prev = pr], j, i + 1)

\* SkipList.Delete of the entry at position j; list.back moves to the
\* deleted entry's prev when it was the back.
DeleteAt(m, j) ==
    [m EXCEPT !.ents = RemoveAt(Unlink(m.ents, j, 0), j),
              !.back = IF m.back = Ref(m.ents[j]) THEN m.ents[j].prev ELSE m.back]

\* Mutant: prevContent is recorded only for an entry that is returned.
RECURSIVE ScanDeleteKeepsPrev(_, _, _, _, _, _, _, _)
ScanDeleteKeepsPrev(l, st, en, count, offset, i, prev, acc) ==
    IF i > Len(l) THEN acc
    ELSE LET e == l[i] IN
         IF ModifyCompare(e, st) < 0 THEN ScanDeleteKeepsPrev(l, st, en, count, offset, i + 1, prev, acc)
         ELSE IF ModifyCompare(e, en) >= 0 THEN acc
         ELSE IF offset > 0 THEN ScanDeleteKeepsPrev(l, st, en, count, offset - 1, i + 1, prev, acc)
         ELSE IF prev # None /\ e.key = prev THEN ScanDeleteKeepsPrev(l, st, en, count, 0, i + 1, prev, acc)
         ELSE IF e.op = "Delete" THEN ScanDeleteKeepsPrev(l, st, en, count, 0, i + 1, prev, acc)
         ELSE IF Len(acc) + 1 >= count THEN Append(acc, e.seq)
         ELSE ScanDeleteKeepsPrev(l, st, en, count, 0, i + 1, e.key, Append(acc, e.seq))

\* SkipList.Range over level 0 from the first entry: entries in
\* [start, end) under ModifyCompare, the first entry of each content only,
\* Deletes skipped, at most count results; the answer lists their seqs.
RECURSIVE Scan(_, _, _, _, _, _, _, _)
Scan(l, st, en, count, offset, i, prev, acc) ==
    IF i > Len(l) THEN acc
    ELSE LET e == l[i] IN
         IF ModifyCompare(e, st) < 0 THEN Scan(l, st, en, count, offset, i + 1, prev, acc)
         ELSE IF ModifyCompare(e, en) >= 0 THEN acc
         ELSE IF offset > 0 THEN Scan(l, st, en, count, offset - 1, i + 1, prev, acc)
         ELSE IF prev # None /\ e.key = prev THEN Scan(l, st, en, count, 0, i + 1, prev, acc)
         ELSE IF e.op = "Delete" THEN Scan(l, st, en, count, 0, i + 1, e.key, acc)
         ELSE IF Len(acc) + 1 >= count THEN Append(acc, e.seq)
         ELSE Scan(l, st, en, count, 0, i + 1, e.key, Append(acc, e.seq))

SkipRange(l, st, en, count, offset) == Scan(l, st, en, count, offset, 1, None, <<>>)

-----------------------------------------------------------------------------
(* The dump (dumpImmutableTables, DumpTable) *)

\* memtable.First() and Last() are non-nil entries: level 0 is not empty
\* and list.back is a key, not nil nor the head read as an entry.
Dumpable(m) == m.ents # <<>> /\ m.back \notin {HeadRef, NilRef}

\* DumpTable of memtable m: its rows in list order, minKey from First(),
\* maxKey from Last() (list.back), and the filter filled with the dumped
\* keys; fp are the contents whose bits the hashes happen to have set, lf
\* those the filter LoadTable reads back admits.
DumpTable(m, fp, lf) ==
    LET recs == [j \in 1..Len(m.ents) |->
                    [key |-> m.ents[j].key, seq |-> m.ents[j].seq,
                     op |-> m.ents[j].op, trx |-> m.ents[j].trx]]
    IN [recs |-> recs, minKey |-> Ref(m.ents[1]), maxKey |-> m.back,
        filter |-> FilterOf(recs), fp |-> fp, lf |-> lf, init |-> m.init]

-----------------------------------------------------------------------------
(* ReadView.Get *)

\* The probe key: the read seq (refreshed by getSeq under RC and RU), the
\* isolation level, and TrxId 0.
Probe(t, k) ==
    [key |-> k, seq |-> IF iso[t] = "RR" THEN readSeq[t] ELSE seq + 1,
     iso |-> iso[t], trx |-> NoTrx]

MemTables == <<active>> \o frozen \o immutable

\* A level-0 table's answer: nil, a panic, or the seq of the record found.
SstAnswer(tb, k) ==
    LET r == DumpedGet(tb, k)
    IN IF r.st = "none" THEN None ELSE IF r.st = "panic" THEN Crash ELSE r.rec.seq

\* Get's answers in the order it asks: db.memtable, db.frozenMemtables,
\* db.immutableMemtables, then the level-0 tables of rv.version.
Answers(t, k) ==
    [i \in 1..Len(MemTables) |-> GetEntry(MemTables[i].ents, Probe(t, k))]
        \o [i \in 1..ver[t] |-> SstAnswer(level0[i], k)]

\* The first answer that is not nil.
ViewGet(t, k) ==
    LET a == Answers(t, k)
        i == SelectInSeq(a, LAMBDA x : x # None)
    IN IF i = 0 THEN None ELSE a[i]

\* rv.version.memtable: the memtable InitCurrentVersion stored, wherever it
\* now is; once dumped, its level-0 table holds the same rows.
VersionMemRows ==
    IF \E i \in 1..Len(MemTables) : MemTables[i].init
    THEN MemTables[CHOOSE i \in 1..Len(MemTables) : MemTables[i].init].ents
    ELSE level0[CHOOSE i \in 1..Len(level0) : level0[i].init].recs

\* SkipRange answers seqs; the rows of list l with those seqs, in order.
RowsOfSeqs(l, s) == [i \in 1..Len(s) |-> l[CHOOSE j \in 1..Len(l) : l[j].seq = s[i]]]

\* MergeRangeResult: both results sorted by ModifyCompare, and of each
\* content only the first kept.
MergeRangeResult(left, right) ==
    FoldLeft(LAMBDA acc, e : IF acc # <<>> /\ Last(acc).key = e.key THEN acc ELSE Append(acc, e),
             <<>>, SortSeq(left \o right, LAMBDA x, y : ModifyCompare(x, y) < 0))

\* ReadView.Range(a, b, count, offset): the version's memtable via
\* Memtable.Range (SkipList.Range with count + offset and no offset), then
\* each level-0 table of the version via Table.Range, merged one by one;
\* the seqs of result[offset : offset + count], or Crash on a panic.
ViewRange(t, a, b, count, offset) ==
    LET q == Probe(t, a).seq
        st == [key |-> a, seq |-> q]
        en == [key |-> b, seq |-> q]
        mem == RowsOfSeqs(VersionMemRows, SkipRange(VersionMemRows, st, en, count + offset, 0))
        tabs == [i \in 1..ver[t] |-> DumpedRange(level0[i], st, en, count + offset, offset)]
        res == FoldLeft(LAMBDA acc, x : MergeRangeResult(acc, x.recs), MergeRangeResult(<<>>, mem), tabs)
    IN IF \E i \in 1..ver[t] : tabs[i].st = "panic" THEN Crash
       ELSE IF Len(res) < offset THEN <<>>
       ELSE [i \in 1..(IF Len(res) >= offset + count THEN count ELSE Len(res) - offset) |-> res[offset + i].seq]

\* checkLockOnFrozenMemtables' probe of one frozen table: a ReadUncommitted
\* GetEntry with seq 0xFFFFFFFFFFFFFFFF finds an entry another transaction
\* owns.
FrozenConflict(l, t, k) ==
    LET s == GetEntry(l, [key |-> k, seq |-> MaxSeq + 1, iso |-> "RU", trx |-> t])
    IN \E j \in 1..Len(l) : l[j].seq = s /\ s # None /\ l[j].trx \notin {NoTrx, t}

-----------------------------------------------------------------------------
Init ==
    /\ active = [EmptyMemtable EXCEPT !.init = TRUE]   \* InitCurrentVersion's memtable
    /\ length = 0
    /\ frozen = <<>>
    /\ immutable = <<>>
    /\ level0 = <<>>
    /\ dead = FALSE
    /\ seq = 0
    /\ pc = [t \in Trx |-> "idle"]
    /\ target = [t \in Trx |-> NoWrite]
    /\ iso = [t \in Trx |-> "RR"]   \* the transaction set starts at RepeatableRead
    /\ readSeq = [t \in Trx |-> 0]
    /\ ver = [t \in Trx |-> 0]

\* GetTransaction: NewReadView takes readSeq = getSeq() and the current
\* version; the level is the transaction set's, which SetIsolationLevel
\* may have changed.
Begin(t) ==
    /\ ~dead
    /\ pc[t] = "idle"
    /\ seq < MaxSeq
    /\ seq' = seq + 1
    /\ readSeq' = [readSeq EXCEPT ![t] = seq + 1]
    /\ ver' = [ver EXCEPT ![t] = Len(level0)]
    /\ \E lv \in IsoLevels : iso' = [iso EXCEPT ![t] = lv]
    /\ pc' = [pc EXCEPT ![t] = "active"]
    /\ UNCHANGED <<active, length, frozen, immutable, level0, dead, target>>

\* A Put or Delete starts from an active transaction; after a refused Set
\* it loops on the same key until the Set succeeds.
MayWrite(t, k, op) ==
    \/ pc[t] = "active"
    \/ pc[t] = "await" /\ target[t] = [key |-> k, op |-> op]

\* Mutant: Set links the entry without counting it in list.length.
WriteNoLength(t, k, op, h) ==
    /\ ~dead
    /\ MayWrite(t, k, op)
    /\ seq < MaxSeq
    /\ ~\E i \in 1..Len(frozen) : FrozenConflict(frozen[i].ents, t, k)
    /\ h \in Heights(length)
    /\ LET e == [key |-> k, seq |-> seq + 1, op |-> op, trx |-> t, h |-> h, prev |-> NilRef]
           refused == SetRefused(active.ents, e)
       IN /\ seq' = seq + 1
          /\ active' = SetLink(active, e, refused)
          /\ length' = length
          /\ pc' = [pc EXCEPT ![t] = IF refused THEN "await" ELSE "active"]
          /\ target' = [target EXCEPT ![t] = IF refused THEN [key |-> k, op |-> op] ELSE NoWrite]
    /\ UNCHANGED <<frozen, immutable, level0, dead, iso, readSeq, ver>>

\* Transaction.Put/Delete, one attempt: the RU probe of the frozen
\* memtables finds no other transaction's row (else the writer waits), a
\* seq is taken and Set inserts the key with a random height, or refuses
\* and the transaction waits to retry.
Write(t, k, op, h) ==
    /\ ~dead
    /\ MayWrite(t, k, op)
    /\ seq < MaxSeq
    /\ ~\E i \in 1..Len(frozen) : FrozenConflict(frozen[i].ents, t, k)
    /\ h \in Heights(length)
    /\ LET e == [key |-> k, seq |-> seq + 1, op |-> op, trx |-> t, h |-> h, prev |-> NilRef]
           refused == SetRefused(active.ents, e)
       IN /\ seq' = seq + 1
          /\ active' = SetLink(active, e, refused)
          /\ length' = IF refused THEN length ELSE length + 1
          /\ pc' = [pc EXCEPT ![t] = IF refused THEN "await" ELSE "active"]
          /\ target' = [target EXCEPT ![t] = IF refused THEN [key |-> k, op |-> op] ELSE NoWrite]
    /\ UNCHANGED <<frozen, immutable, level0, dead, iso, readSeq, ver>>

\* Transaction.commit: TrxId = 0 on the transaction's keys, in every table.
Cleared(m, t) ==
    [m EXCEPT !.ents = [j \in 1..Len(m.ents) |->
                           IF m.ents[j].trx = t THEN [m.ents[j] EXCEPT !.trx = NoTrx]
                           ELSE m.ents[j]]]

\* Mutant: commit clears the TrxId in the active memtable only.
CommitActiveOnly(t) ==
    /\ ~dead
    /\ pc[t] = "active"
    /\ active' = Cleared(active, t)
    /\ pc' = [pc EXCEPT ![t] = "idle"]
    /\ UNCHANGED <<length, frozen, immutable, level0, dead, seq, target, iso, readSeq, ver>>

Commit(t) ==
    /\ ~dead
    /\ pc[t] = "active"
    /\ active' = Cleared(active, t)
    /\ frozen' = [i \in 1..Len(frozen) |-> Cleared(frozen[i], t)]
    /\ pc' = [pc EXCEPT ![t] = "idle"]
    /\ UNCHANGED <<length, immutable, level0, dead, seq, target, iso, readSeq, ver>>

\* Transaction.rollback: SkipList.Delete of each recorded key, in the
\* order the writes were made (ascending seq), in the table it went to.
RECURSIVE RolledBack(_, _)
RolledBack(m, t) ==
    LET js == {j \in 1..Len(m.ents) : m.ents[j].trx = t}
    IN IF js = {} THEN m
       ELSE RolledBack(DeleteAt(m, CHOOSE j \in js : \A x \in js : m.ents[j].seq =< m.ents[x].seq), t)

Rollback(t) ==
    /\ ~dead
    /\ pc[t] = "active"
    /\ active' = RolledBack(active, t)
    /\ frozen' = [i \in 1..Len(frozen) |-> RolledBack(frozen[i], t)]
    /\ pc' = [pc EXCEPT ![t] = "idle"]
    /\ UNCHANGED <<length, immutable, level0, dead, seq, target, iso, readSeq, ver>>

\* FrozeMemtable: once something was inserted (the size threshold counts
\* rolled-back inserts too), the active memtable joins the end of
\* frozenMemtables and a new empty one is installed.
Freeze ==
    /\ ~dead
    /\ Len(frozen) + Len(immutable) + Len(level0) < MaxTables
    /\ length > 0
    /\ frozen' = Append(frozen, active)
    /\ active' = EmptyMemtable
    /\ length' = 0
    /\ UNCHANGED <<immutable, level0, dead, seq, pc, target, iso, readSeq, ver>>

\* collectMemtable: every frozen memtable no transaction refers to moves,
\* in order, to the end of immutableMemtables.  A writer's ref lasts until
\* it commits or rolls back, so here a table is free once no row of it
\* carries a TrxId.
Free(m) == \A j \in 1..Len(m.ents) : m.ents[j].trx = NoTrx

Collect ==
    /\ ~dead
    /\ \E i \in 1..Len(frozen) : Free(frozen[i])
    /\ frozen' = SelectSeq(frozen, LAMBDA m : ~Free(m))
    /\ immutable' = immutable \o SelectSeq(frozen, Free)
    /\ UNCHANGED <<active, length, level0, dead, seq, pc, target, iso, readSeq, ver>>

\* dumpImmutableTables: DumpTable of immutableMemtables[0], appended to
\* level 0 of a new version; First() or Last() returning nil or the head
\* panics the goroutine and the process.
Flush ==
    /\ ~dead
    /\ immutable # <<>>
    /\ IF Dumpable(immutable[1])
       THEN /\ \E fp, lf \in FPChoices : level0' = Append(level0, DumpTable(immutable[1], fp, lf))
            /\ immutable' = Tail(immutable)
            /\ UNCHANGED dead
       ELSE /\ dead' = TRUE
            /\ UNCHANGED <<immutable, level0>>
    /\ UNCHANGED <<active, length, frozen, seq, pc, target, iso, readSeq, ver>>

Next ==
    \/ \E t \in Trx : \/ Begin(t) \/ Commit(t) \/ Rollback(t)
                      \/ \E k \in Keys, op \in OpTypes, h \in 1..MaxHeight : Write(t, k, op, h)
    \/ Freeze
    \/ Collect
    \/ Flush

Spec == Init /\ [][Next]_vars

-----------------------------------------------------------------------------
(* Properties *)

Rows == UNION {Range(m.ents) : m \in Range(MemTables)} \cup UNION {Range(tb.recs) : tb \in Range(level0)}

Rec == [key : Keys, seq : 1..MaxSeq, op : OpTypes, trx : {NoTrx}]

TypeOK ==
    /\ active \in Memtable /\ length \in Nat /\ Len(active.ents) =< length
    /\ frozen \in Seq(Memtable) /\ immutable \in Seq(Memtable)
    /\ \A i \in 1..Len(level0) :
           /\ level0[i].recs \in Seq(Rec) /\ level0[i].fp \in FPChoices /\ level0[i].lf \in FPChoices
           /\ level0[i].minKey \in Refs /\ level0[i].maxKey \in Refs
    /\ dead \in BOOLEAN
    /\ seq \in 0..MaxSeq
    /\ pc \in [Trx -> {"idle", "active", "await"}]
    /\ target \in [Trx -> [key : Keys, op : OpTypes] \cup {NoWrite}]
    /\ iso \in [Trx -> IsoLevels] /\ readSeq \in [Trx -> 0..MaxSeq]
    /\ ver \in [Trx -> 0..Len(level0)]

(* SkipList.Set's descent through towers of random height links every    *)
(* key where Modify order puts it: contents ascending, and for one content *)
(* newer versions first.  GetEntry, Set's lock check, Range and the dump   *)
(* all rely on level 0 visiting the newest version of a content first.    *)
ListSorted ==
    \A m \in Range(MemTables) :
        \A j \in 1..Len(m.ents) - 1 : ModifyCompare(m.ents[j], m.ents[j + 1]) < 0

\* The newest version of content k not newer than s, when it is a Put.
NewestPut(l, k, s) ==
    LET vs == {j \in 1..Len(l) : l[j].key = k /\ l[j].seq =< s}
    IN IF vs = {} THEN None
       ELSE IF l[Min(vs)].op = "Put" THEN l[Min(vs)].seq ELSE None

(* spec.md section 4.1: under ReadUncommitted, GetEntry's descent through  *)
(* the towers answers, whatever the tower heights, with the newest version *)
(* not newer than the probe, and "not found" when that version is a        *)
(* Delete.                                                                 *)
GetEntryFindsNewest ==
    \A m \in Range(MemTables), k \in Keys, s \in 1..MaxSeq + 1 :
        GetEntry(m.ents, [key |-> k, seq |-> s, iso |-> "RU", trx |-> NoTrx]) = NewestPut(m.ents, k, s)

\* The spec's range answer: contents in [a, b), the newest version of each,
\* Deletes left out, the first count of them.
RangeSpec(l, a, b, count) ==
    LET cs == {c \in Keys : a =< c /\ c < b /\ NewestPut(l, c, MaxSeq) # None}
        sorted == SetToSortSeq(cs, <)
        firsts == [i \in 1..Len(sorted) |-> NewestPut(l, sorted[i], MaxSeq)]
    IN SubSeq(firsts, 1, IF count < Len(firsts) THEN count ELSE Len(firsts))

(* spec.md section 4.1: SkipList.Range, with the fresh read seq of an RC  *)
(* or RU ReadView and offset 0 as SkiplistMemtable.Range passes it, yields *)
(* the newest version of each content in [start, end) in content order,   *)
(* no content twice and no Delete.                                         *)
RangeFindsNewest ==
    \A m \in Range(MemTables), a, b \in Keys \cup {Max(Keys) + 1}, count \in 1..2 :
        LET st == [key |-> a, seq |-> seq + 1]
            en == [key |-> b, seq |-> seq + 1]
        IN SkipRange(m.ents, st, en, count, 0) = RangeSpec(m.ents, a, b, count)

(* spec.md section 5 (SST format) and P4: the sparse index DumpTable     *)
(* writes, read back by NewLinearIndex, cuts the data block only at       *)
(* record starts, in increasing order, and each i-block's minRecord is    *)
(* the content of the record it starts with, so RowRecordBytesToElement   *)
(* parses whole records and Find's search over minRecords is sound.       *)
IndexBlocksAligned ==
    \A i \in 1..Len(level0) :
        LET tb == level0[i]
            bs == Blocks(tb)
        IN \A b \in 1..Len(bs) :
               /\ b > 1 => bs[b - 1].off < bs[b].off
               /\ \E j \in 1..Len(tb.recs) :
                      RecordStart(tb.recs, j) = bs[b].off /\ tb.recs[j].key = bs[b].min

\* What a point lookup of content c in table tb should return: the newest
\* record of c when it is a Put, else nothing.
TableSpec(tb, c) ==
    LET j == SelectInSeq(tb.recs, LAMBDA r : r.key = c)
    IN IF j # 0 /\ tb.recs[j].op = "Put" THEN [st |-> "found", rec |-> tb.recs[j]]
       ELSE [st |-> "none"]

(* spec.md P1 and P4: the dumper turns every memtable the collector hands *)
(* it into a level-0 table without failing, and that table, as DumpTable  *)
(* returns it and as LoadTable reads it back, answers a lookup of each    *)
(* content it holds with that content's newest version (nothing for a     *)
(* Delete).  DumpTable reads First() and list.back, never sets Table.min  *)
(* and max, and fills the filter with seq-prefixed keys that Get then     *)
(* queries with the bare content.                                          *)
FlushedTablesServeReads ==
    /\ ~dead
    /\ \A i \in 1..Len(level0) :
           \A c \in {r.key : r \in Range(level0[i].recs)} :
               /\ DumpedGet(level0[i], c) = TableSpec(level0[i], c)
               /\ LoadedGet(level0[i], c) = TableSpec(level0[i], c)

\* The spec's point read for transaction t: the newest version of k over
\* all tables that is not newer than the read seq and that the level
\* admits (ReadCommitted and RepeatableRead: committed, or t's own).
SpecGet(t, k) ==
    LET q == Probe(t, k)
        rows == {e \in Rows : e.key = k /\ e.seq =< q.seq
                              /\ (iso[t] = "RU" \/ e.trx \in {NoTrx, t})}
        n == CHOOSE e \in rows : \A f \in rows : f.seq =< e.seq
    IN IF rows = {} THEN None ELSE IF n.op = "Put" THEN n.seq ELSE None

(* spec.md P1, P2, P6 and section 4.1: ReadView.Get returns the newest     *)
(* version the transaction's isolation level admits, across the memtables *)
(* and level 0, and nothing when that version is a Delete.  Get stops at  *)
(* the first table whose lookup answers, asks frozen memtables and level-0 *)
(* tables oldest first, reads level 0 from the version taken at begin,    *)
(* probes with TrxId 0, and GetEntry keeps a higher level's answer when   *)
(* the gate refuses the entry below it.                                    *)
GetFindsNewestVisible ==
    \A t \in Trx, k \in Keys :
        (pc[t] = "active" /\ ~\E e \in Rows : e.key = k /\ e.trx = t)
            => ViewGet(t, k) = SpecGet(t, k)

\* The spec's range for transaction t: the contents in [a, b) whose newest
\* admitted version is a Put, in content order, that version's seq for
\* each, from the (offset + 1)-th on and at most count of them.
SpecRange(t, a, b, count, offset) ==
    LET cs == SetToSortSeq({c \in Keys : a =< c /\ c < b /\ SpecGet(t, c) # None}, LAMBDA x, y : x < y)
    IN [i \in 1..(IF Len(cs) >= offset + count THEN count ELSE Len(cs) - offset) |-> SpecGet(t, cs[offset + i])]

(* spec.md section 4.9 and P6: ReadView.Range answers, for every start    *)
(* (the empty content included), end, count and offset, exactly the       *)
(* newest version visible to the transaction of each content in range,    *)
(* skipping contents whose newest visible version is a Delete.  Range     *)
(* reads rv.version.memtable, SkipList.Range applies no isolation gate,   *)
(* each table drops its Deletes before MergeRangeResult, and Table.Range  *)
(* compares with Table.min and max.                                        *)
RangeFindsNewestVisible ==
    \A t \in Trx :
        (pc[t] = "active" /\ ~\E e \in Rows : e.trx = t)
            => \A a \in {EmptyContent} \cup Keys, b \in Keys \cup {Max(Keys) + 1},
                  count \in 1..2, offset \in 0..1 :
                   ViewRange(t, a, b, count, offset) = SpecRange(t, a, b, count, offset)

-----------------------------------------------------------------------------
(* Refinement of MVCCStore: the versions of every memtable and level-0    *)
(* table, projected to [key, seq, op, trx], with db.seq and the            *)
(* transactions that have begun and not ended.                             *)

Versions == {[key |-> e.key, seq |-> e.seq, op |-> e.op, trx |-> e.trx] : e \in Rows}

Store == INSTANCE MVCCStore WITH store <- Versions, live <- {t \in Trx : pc[t] # "idle"}

(* spec.md section 3, invariants 2 and 4, and the memtable lifecycle: the  *)
(* memtables and tables together behave as one store of versions.  A       *)
(* write adds exactly its version with a fresh seq (or, refused, only uses *)
(* a seq up); Transaction.commit clears the TrxId of the transaction's     *)
(* rows in the active and every frozen memtable; rollback's SkipList.Delete *)
(* calls remove exactly its rows; freezing, collecting and dumping a       *)
(* memtable (DumpTable's records) neither lose nor invent a version.       *)
StoreRefined == Store!Spec

=============================================================================
