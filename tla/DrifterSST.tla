------------------------------ MODULE DrifterSST ------------------------------
(***************************************************************************)
(* drifterdb's sorted-string tables (sstable.go, iblock.go, row.go and the *)
(* Bloom filter), as operators over the records a dump writes.  A record  *)
(* is a memtable row [key, seq, op, trx]; contents are naturals ordered as *)
(* bytes.Compare orders them, and content 0 stands for the empty byte      *)
(* string of a zero MVCCKey.  Byte offsets are kept: a record is 4 + 1 +   *)
(* 1 + 4 + 8 header bytes, an 8-byte seq/op prefix, a one-byte content     *)
(* and its value, so block boundaries fall where the code puts them.       *)
(***************************************************************************)
EXTENDS Naturals, Sequences, SequencesExt

CONSTANTS
    BlockSize,    \* BlockSize (1 << 12 in the code; scaled to the records)
    ValueLen      \* bytes of a Put's value; a Delete's value is empty

EmptyContent == 0

\* ElementToRowRecordBytes' length: 18 header bytes, DumpBytes(key) and value.
RecordLen(r) == 18 + 8 + 1 + (IF r.op = "Put" THEN ValueLen ELSE 0)

\* ComparableBytes.QueryCompare on contents, and MVCCBytes.ModifyCompare:
\* contents ascending, then newer seqs first.
CmpContent(a, b) == IF a.key > b.key THEN 1 ELSE IF a.key < b.key THEN -1 ELSE 0

ModifyCompare(a, b) ==
    IF CmpContent(a, b) # 0 THEN CmpContent(a, b)
    ELSE IF a.seq < b.seq THEN 1 ELSE IF a.seq > b.seq THEN -1 ELSE 0

\* Byte offset of record j in the data block.
RecordStart(recs, j) ==
    FoldLeft(LAMBDA acc, r : acc + RecordLen(r), 0, SubSeq(recs, 1, j - 1))

DataLen(recs) == RecordStart(recs, Len(recs) + 1)

\* Mutant: the index offset is the remainder alone.
RECURSIVE IndexFoldRemainder(_, _, _, _, _)
IndexFoldRemainder(recs, j, offset, prev, idx) ==
    IF j > Len(recs) THEN idx
    ELSE LET split == offset >= BlockSize
             p == IF split THEN prev + offset \div BlockSize ELSE prev
             o == IF split THEN offset % BlockSize ELSE offset
             nidx == IF split THEN Append(idx, [min |-> recs[j].key, off |-> o]) ELSE idx
         IN IndexFoldRemainder(recs, j + 1, o + RecordLen(recs[j]), p, nidx)

\* DumpTable's loop: before a record is written, once offset has reached
\* BlockSize, prev absorbs the whole blocks, offset keeps the remainder and
\* an index record [key, prev * BlockSize + offset] starts a block there.
RECURSIVE IndexFold(_, _, _, _, _)
IndexFold(recs, j, offset, prev, idx) ==
    IF j > Len(recs) THEN idx
    ELSE LET split == offset >= BlockSize
             p == IF split THEN prev + offset \div BlockSize ELSE prev
             o == IF split THEN offset % BlockSize ELSE offset
             nidx == IF split THEN Append(idx, [min |-> recs[j].key, off |-> p * BlockSize + o])
                     ELSE idx
         IN IndexFold(recs, j + 1, o + RecordLen(recs[j]), p, nidx)

\* NewLinearIndex: a first i-block at offset 0 whose minRecord is minKey,
\* then one per index record; a block ends where the next one starts and
\* the last at the data length.
Blocks(t) == <<[min |-> t.minKey.key, off |-> 0]>> \o IndexFold(t.recs, 1, 0, 0, <<>>)

BlockEnd(t, b) ==
    IF b < Len(Blocks(t)) THEN Blocks(t)[b + 1].off ELSE DataLen(t.recs)

\* RowRecordBytesToElement of block b: the records that start inside it.
BlockRecs(t, b) ==
    SelectSeq(t.recs, LAMBDA r :
        LET j == SelectInSeq(t.recs, LAMBDA x : x = r)
        IN Blocks(t)[b].off =< RecordStart(t.recs, j) /\ RecordStart(t.recs, j) < BlockEnd(t, b))

\* LinearIndex.Find's binary search over the blocks' min contents (lo and
\* hi are 0-based as in the code).  It ends with indexBlocks[lo], which is
\* out of range when lo reaches the number of blocks.
RECURSIVE FindLoop(_, _, _, _)
FindLoop(bs, c, lo, hi) ==
    IF lo < hi
    THEN LET mid == (lo + hi) \div 2 IN
         IF bs[mid + 1].min < c THEN FindLoop(bs, c, mid + 1, hi)
         ELSE IF bs[mid + 1].min > c THEN FindLoop(bs, c, lo, mid)
         ELSE [st |-> "block", b |-> mid + 1]
    ELSE IF lo >= Len(bs) THEN [st |-> "panic", b |-> 0]
    ELSE IF bs[lo + 1].min > c
         THEN IF lo = 0 THEN [st |-> "panic", b |-> 0] ELSE [st |-> "block", b |-> lo]
         ELSE [st |-> "block", b |-> lo + 1]

\* LinearIndex.Find: nothing outside [Min(), Max()] of the dumped keys.
Find(t, c) ==
    IF c < t.minKey.key \/ c > t.maxKey.key THEN [st |-> "none", b |-> 0]
    ELSE FindLoop(Blocks(t), c, 0, Len(Blocks(t)))

\* ElementsBinarySearch by content: some record of content c, or 0.
RECURSIVE Search(_, _, _, _)
Search(recs, c, lo, hi) ==
    IF lo >= hi THEN 0
    ELSE LET mid == (lo + hi) \div 2 IN
         IF recs[mid + 1].key < c THEN Search(recs, c, mid + 1, hi)
         ELSE IF recs[mid + 1].key > c THEN Search(recs, c, lo, mid)
         ELSE mid + 1

\* Filter.Add receives DumpBytes(key), the seq/op prefix and the content.
DumpKey(r) == <<r.seq, r.op, r.key>>
FilterOf(recs) == {DumpKey(recs[j]) : j \in 1..Len(recs)}

\* Filter.Exists: the bits of every added item answer for it; fp are the
\* other items whose bits happen to be set.
FilterExists(t, x) == x \in t.filter \/ x \in t.fp

\* LoadFilterFromBytes takes m = log2(words), which is the dumped m - 6, so
\* the loaded mask keeps the low m - 6 bits of each hash: Exists reads bits
\* of word 0 only.  Which contents those bits admit depends on the hashes
\* alone, whether they were added or not: lf.
LoadedFilterExists(t, x) == x \in t.lf

\* Table.Get with the table's min and max contents: outside them, or when
\* the filter denies the content, nil; otherwise the record the binary
\* search finds in the block Find picks, whatever its op.
TableGet(t, min, max, admitted, c) ==
    IF c > max \/ c < min \/ ~admitted THEN [st |-> "none"]
    ELSE LET f == Find(t, c) IN
         IF f.st # "block" THEN [st |-> f.st]
         ELSE LET rs == BlockRecs(t, f.b)
                  j == Search(rs, c, 0, Len(rs))
              IN IF j = 0 THEN [st |-> "none"] ELSE [st |-> "found", rec |-> rs[j]]

\* A table DumpTable returns: Table.min and max are never assigned, so
\* they stay the zero key; LoadTable's LoadFullHeader sets them from the
\* minKey and maxKey written in the header.
DumpedGet(t, c) == TableGet(t, EmptyContent, EmptyContent, FilterExists(t, c), c)
LoadedGet(t, c) == TableGet(t, t.minKey.key, t.maxKey.key, LoadedFilterExists(t, c), c)

\* Table.Range's scan from the block Find picked to the last block: a
\* record in [start, end) under ModifyCompare either counts towards offset
\* or, past it, is kept when it is the first of its content and not a
\* Delete, until count records are kept.
RECURSIVE RangeScan(_, _, _, _, _, _, _, _, _)
RangeScan(recs, st, en, count, offset, i, curOff, prev, acc) ==
    IF i > Len(recs) THEN acc
    ELSE LET e == recs[i] IN
         IF ~(ModifyCompare(st, e) =< 0 /\ ModifyCompare(en, e) > 0)
         THEN RangeScan(recs, st, en, count, offset, i + 1, curOff, prev, acc)
         ELSE IF curOff < offset
         THEN RangeScan(recs, st, en, count, offset, i + 1, curOff + 1, prev, acc)
         ELSE IF prev # EmptyContent /\ e.key = prev
         THEN RangeScan(recs, st, en, count, offset, i + 1, curOff, prev, acc)
         ELSE IF e.op = "Delete"
         THEN RangeScan(recs, st, en, count, offset, i + 1, curOff, e.key, acc)
         ELSE IF Len(acc) + 1 >= count THEN Append(acc, e)
         ELSE RangeScan(recs, st, en, count, offset, i + 1, curOff, e.key, Append(acc, e))

\* The records of block b and of each block after it: GetByIndex(index)
\* for index = b, b + 1, ... until it returns nil past the last block.
RecsFrom(t, b) == FlattenSeq([i \in 1..(Len(Blocks(t)) - b + 1) |-> BlockRecs(t, b + i - 1)])

\* Table.Range with the table's min and max contents: nil outside them or
\* when Find gives no block; otherwise the scan of the records of that
\* block and of every later one (GetByIndex until it returns nil).
TableRange(t, min, max, st, en, count, offset) ==
    IF st.key > max \/ en.key < min THEN [st |-> "ok", recs |-> <<>>]
    ELSE LET f == Find(t, st.key)
         IN IF f.st = "panic" THEN [st |-> "panic", recs |-> <<>>]
            ELSE IF f.st = "none" THEN [st |-> "ok", recs |-> <<>>]
            ELSE [st |-> "ok",
                  recs |-> RangeScan(RecsFrom(t, f.b), st, en, count, offset, 1, 0, EmptyContent, <<>>)]

DumpedRange(t, st, en, count, offset) == TableRange(t, EmptyContent, EmptyContent, st, en, count, offset)

=============================================================================
