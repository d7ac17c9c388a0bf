--------------------------- MODULE DrifterRecovery ---------------------------
(***************************************************************************)
(* Durability of drifterdb across crashes: the write-ahead log as a byte   *)
(* log of records, the freeze / collect / flush pipeline that moves the    *)
(* version's wal_offset, the version.json rotation of Storage.DumpVersion, *)
(* a crash at any step, and OpenDB's recovery (LoadVersion, then replaying *)
(* the WAL from wal_offset through db.put).                                *)
(*                                                                         *)
(* The lock protocol is modelled in DrifterCore; here a transaction's      *)
(* write simply waits (is disabled) while another live transaction holds   *)
(* the row, and the switch lock only keeps other steps out of a version    *)
(* publication.  A row carries a ghost field w, the index of its WAL       *)
(* record, and fate records what became of each logged write.             *)
(***************************************************************************)
EXTENDS Naturals, FiniteSets, Sequences, SequencesExt

CONSTANTS
    Trx,            \* transaction ids
    Keys,           \* key contents
    NoTrx,          \* trxId 0
    RecLens,        \* byte lengths a WAL record can have (Op2Log)
    MaxWrites,      \* bound: WAL records written over the whole run
    MaxCrashes,     \* bound: process crashes
    MaxMemtables,   \* bound: memtables allocated over the whole run
    MemtableSize,   \* option.MemtableSize, in puts
    MaxSeq          \* bound: values of db.seq

ASSUME NoTrx \notin Trx /\ RecLens \subseteq Nat \ {0}

MemIds == 1..MaxMemtables
OpTypes == {"Put", "Delete"}
Row == [key : Keys, seq : 0..MaxSeq, op : OpTypes, trx : Trx \cup {NoTrx},
        w : 1..MaxWrites]
Record == [key : Keys, seq : 0..MaxSeq, op : OpTypes, len : RecLens]
Missing == [st |-> "missing"]   \* version.json does not exist
Torn == [st |-> "torn"]         \* version.json truncated by WriteFile, not yet written

VARIABLES
    wal,          \* the WAL file: Seq(Record), never truncated
    verFile,      \* version.json: [levels, off], Missing or Torn
    verBak,       \* version.json.bak
    up,           \* the process is running
    opening,      \* OpenDB has run NewStorage and not yet replayed the WAL
    openFailed,   \* "none", or why OpenDB panicked: "version" / "wal"
    crashes,      \* crashes so far
    cursor,       \* wal.cursor
    seq,          \* db.seq
    mem,          \* [MemIds -> SUBSET Row]
    size,         \* [MemIds -> Nat]: byteSize in puts
    active,       \* db.memtable
    nextMem,      \* memtables allocated so far
    frozen,       \* db.frozenMemtables
    immutable,    \* db.immutableMemtables
    offMap,       \* db.memtableWalOffsetMap
    waitingForFreezing,
    level0,       \* current version: level-0 tables [tseq, rows], oldest first
    verOff,       \* current version: walOffset
    pub,          \* "idle", "renamed", "truncated": DumpVersion in progress
    pubVer,       \* the version DumpVersion is writing
    pc,           \* [Trx -> {"idle", "active", "await"}]
    target,       \* [Trx -> [key, op]]: the write a refused writer retries
    refTables,    \* [Trx -> SUBSET MemIds]
    writes,       \* [Trx -> SUBSET 1..MaxWrites]: WAL indexes of modificationRecord
    fate,         \* [1..MaxWrites -> {"none", "live", "committed", "rolledback"}]
    tableSeq,     \* db.tableSeq: the seq naming the next SST file
    sstFiles,     \* table seqs whose .sst file exists in the work directory
    dumped        \* the table DumpMemtable wrote and the flusher has not published

vars == <<wal, verFile, verBak, up, opening, openFailed, crashes, cursor, seq, mem, size,
          active, nextMem, frozen, immutable, offMap, waitingForFreezing,
          level0, verOff, pub, pubVer, pc, target, refTables, writes, fate,
          tableSeq, sstFiles, dumped>>

tableVars == <<tableSeq, sstFiles, dumped>>

disk == <<wal, verFile, verBak>>
memVars == <<opening, cursor, seq, mem, size, active, nextMem, frozen, immutable, offMap,
             waitingForFreezing, level0, verOff, pub, pubVer, pc, target, refTables, writes>>

EmptyVersion == [st |-> "ok", levels |-> <<>>, off |-> 0]
NoDump == [tseq |-> 0, rows |-> {}]

-----------------------------------------------------------------------------
(* Helpers *)

\* Byte offset at which WAL record i starts.
Pos(i) == FoldLeft(LAMBDA acc, r : acc + r.len, 0, SubSeq(wal, 1, i - 1))

\* Offsets at which WALReader.Next starts reading a whole record.
Boundaries == {Pos(i) : i \in 1..Len(wal) + 1}

\* The row an OperationRecord decodes to: ParseMVCCKey sets TrxId = 0.
Replayed(i) == [key |-> wal[i].key, seq |-> wal[i].seq, op |-> wal[i].op,
                trx |-> NoTrx, w |-> i]

\* A live transaction other than t holds an uncommitted row of key k in one
\* of the memtables ms.
LockedIn(ms, t, k) == \E m \in ms : \E r \in mem[m] : r.key = k /\ r.trx \notin {NoTrx, t}

\* The write may pass its lock checks: checkLockOnFrozenMemtables runs once
\* before the first attempt; a retry after a refusal only meets Set again.
MayWrite(t, k, op) ==
    \/ pc[t] = "active" /\ ~LockedIn(Range(frozen), t, k)
    \/ pc[t] = "await" /\ target[t] = [key |-> k, op |-> op]

\* The switch lock is free: no DumpVersion is running under it.
Unlocked == up /\ pub = "idle"

\* MaxSeqInVersion: the largest seq of a table the version lists, or 0.
MaxSeqInVersion(v) == Max({0} \cup {v.levels[i].tseq : i \in 1..Len(v.levels)})

Refd(m) == \E t \in Trx : m \in refTables[t]

\* LoadVersion of a version.json that parses: when ReadFile fails, the
\* backup is read but the empty version is returned; otherwise the levels,
\* each table opened by LoadTable (os.OpenFile, then Throw), and walOffset.
LoadVersion(f) == IF f.st = "missing" THEN EmptyVersion ELSE f

\* Storage.DumpVersion's first step: rename version.json to .bak if it exists.
Rotate(v) ==
    IF v.st = "ok" THEN v ELSE verBak

-----------------------------------------------------------------------------
Init ==
    /\ wal = <<>>
    /\ verFile = EmptyVersion
    /\ verBak = Missing
    /\ up = TRUE
    /\ opening = FALSE
    /\ openFailed = "none"
    /\ crashes = 0
    /\ cursor = 0
    /\ seq = 0
    /\ mem = [m \in MemIds |-> {}]
    /\ size = [m \in MemIds |-> 0]
    /\ active = 1
    /\ nextMem = 1
    /\ frozen = <<>>
    /\ immutable = <<>>
    /\ offMap = [m \in MemIds |-> 0]
    /\ waitingForFreezing = FALSE
    /\ level0 = <<>>
    /\ verOff = 0
    /\ pub = "idle"
    /\ pubVer = EmptyVersion
    /\ pc = [t \in Trx |-> "idle"]
    /\ target = [t \in Trx |-> [key |-> CHOOSE k \in Keys : TRUE, op |-> "Put"]]
    /\ refTables = [t \in Trx |-> {}]
    /\ writes = [t \in Trx |-> {}]
    /\ fate = [i \in 1..MaxWrites |-> "none"]
    /\ tableSeq = 1
    /\ sstFiles = {}
    /\ dumped = NoDump

-----------------------------------------------------------------------------
(* Transactions *)

\* GetTransaction: NewReadView takes a seq.
Begin(t) ==
    /\ Unlocked
    /\ pc[t] = "idle"
    /\ seq < MaxSeq
    /\ seq' = seq + 1
    /\ pc' = [pc EXCEPT ![t] = "active"]
    /\ UNCHANGED <<target, disk, up, opening, openFailed, crashes, cursor, mem, size, active,
                   nextMem, frozen, immutable, offMap, waitingForFreezing,
                   level0, verOff, pub, pubVer, refTables, writes, fate>>
    /\ UNCHANGED tableVars

\* Transaction.Put/Delete with the row free: db.put appends the record to
\* the WAL buffer and flushes it (cursor += len), then SkipList.Set inserts
\* the row; the size check may request a freeze.  A row held by another
\* transaction in a frozen memtable makes the writer wait before anything
\* is logged, so the step is disabled then.
Write(t, k, op, len) ==
    /\ Unlocked
    /\ MayWrite(t, k, op)
    /\ ~LockedIn({active}, t, k)
    /\ Len(wal) < MaxWrites /\ seq < MaxSeq
    /\ LET s == seq + 1
           i == Len(wal) + 1
       IN /\ seq' = s
          /\ wal' = Append(wal, [key |-> k, seq |-> s, op |-> op, len |-> len])
          /\ cursor' = cursor + len
          /\ mem' = [mem EXCEPT ![active] = @ \cup
                        {[key |-> k, seq |-> s, op |-> op, trx |-> t, w |-> i]}]
          /\ size' = [size EXCEPT ![active] = @ + 1]
          /\ waitingForFreezing' = (waitingForFreezing \/ size[active] + 1 > MemtableSize)
          /\ refTables' = [refTables EXCEPT ![t] = @ \cup {active}]
          /\ writes' = [writes EXCEPT ![t] = @ \cup {<<active, i>>}]
          /\ fate' = [fate EXCEPT ![i] = "live"]
    /\ pc' = [pc EXCEPT ![t] = "active"]
    /\ UNCHANGED <<verFile, verBak, up, opening, openFailed, crashes, active, nextMem,
                   frozen, immutable, offMap, level0, verOff, pub, pubVer, target>>
    /\ UNCHANGED tableVars

\* The same call when the active memtable holds another transaction's row
\* of the key: the WAL record is written and flushed before SkipList.Set
\* refuses, then the writer polls the row until its owner ends, and then
\* retries the same write (Write from "await").
WriteRefused(t, k, op, len) ==
    /\ Unlocked
    /\ pc[t] = "active" /\ MayWrite(t, k, op)
    /\ LockedIn({active}, t, k)
    /\ Len(wal) < MaxWrites /\ seq < MaxSeq
    /\ seq' = seq + 1
    /\ wal' = Append(wal, [key |-> k, seq |-> seq + 1, op |-> op, len |-> len])
    /\ cursor' = cursor + len
    /\ waitingForFreezing' = (waitingForFreezing \/ size[active] > MemtableSize)
    /\ refTables' = [refTables EXCEPT ![t] = @ \cup {active}]
    /\ fate' = [fate EXCEPT ![Len(wal) + 1] = "refused"]
    /\ pc' = [pc EXCEPT ![t] = "await"]
    /\ target' = [target EXCEPT ![t] = [key |-> k, op |-> op]]
    /\ UNCHANGED <<verFile, verBak, up, opening, openFailed, crashes, mem, size, active,
                   nextMem, frozen, immutable, offMap, level0, verOff, pub,
                   pubVer, writes>>
    /\ UNCHANGED tableVars

\* Transaction.commit: TrxId = 0 on the transaction's own key objects.
Commit(t) ==
    /\ Unlocked
    /\ pc[t] = "active"
    /\ LET mine == {i \in 1..MaxWrites : \E m \in MemIds : <<m, i>> \in writes[t]}
       IN /\ mem' = [m \in MemIds |-> {IF r.w \in mine /\ r.trx = t
                                       THEN [r EXCEPT !.trx = NoTrx] ELSE r : r \in mem[m]}]
          /\ fate' = [i \in 1..MaxWrites |-> IF i \in mine THEN "committed" ELSE fate[i]]
    /\ pc' = [pc EXCEPT ![t] = "idle"]
    /\ refTables' = [refTables EXCEPT ![t] = {}]
    /\ writes' = [writes EXCEPT ![t] = {}]
    /\ UNCHANGED <<target, disk, up, opening, openFailed, crashes, cursor, seq, size, active,
                   nextMem, frozen, immutable, offMap, waitingForFreezing,
                   level0, verOff, pub, pubVer>>
    /\ UNCHANGED tableVars

\* Transaction.rollback: SkipList.Delete of each recorded key in its table;
\* Delete locates the entry by content and seq.
Rollback(t) ==
    /\ Unlocked
    /\ pc[t] = "active"
    /\ LET mine == {i \in 1..MaxWrites : \E m \in MemIds : <<m, i>> \in writes[t]}
       IN /\ mem' = [m \in MemIds |->
                       {r \in mem[m] : ~\E i \in 1..Len(wal) :
                            /\ <<m, i>> \in writes[t]
                            /\ r.key = wal[i].key /\ r.seq = wal[i].seq}]
          /\ fate' = [i \in 1..MaxWrites |-> IF i \in mine THEN "rolledback" ELSE fate[i]]
    /\ pc' = [pc EXCEPT ![t] = "idle"]
    /\ refTables' = [refTables EXCEPT ![t] = {}]
    /\ writes' = [writes EXCEPT ![t] = {}]
    /\ UNCHANGED <<target, disk, up, opening, openFailed, crashes, cursor, seq, size, active,
                   nextMem, frozen, immutable, offMap, waitingForFreezing,
                   level0, verOff, pub, pubVer>>
    /\ UNCHANGED tableVars

-----------------------------------------------------------------------------
(* Background goroutines *)

\* FrozeMemtableLoop: record wal.cursor for the memtable and install a new one.
Freeze ==
    /\ Unlocked
    /\ waitingForFreezing
    /\ nextMem < MaxMemtables
    /\ frozen' = Append(frozen, active)
    /\ offMap' = [offMap EXCEPT ![active] = cursor]
    /\ active' = nextMem + 1
    /\ nextMem' = nextMem + 1
    /\ waitingForFreezing' = FALSE
    /\ UNCHANGED <<target, disk, up, opening, openFailed, crashes, cursor, seq, mem, size,
                   immutable, level0, verOff, pub, pubVer, pc, refTables, writes, fate>>
    /\ UNCHANGED tableVars

\* collectMemtable: frozen memtables with no refs become immutable.
Collect ==
    /\ Unlocked
    /\ immutable' = immutable \o SelectSeq(frozen, LAMBDA m : ~Refd(m))
    /\ frozen' = SelectSeq(frozen, Refd)
    /\ UNCHANGED <<target, disk, up, opening, openFailed, crashes, cursor, seq, mem, size, active,
                   nextMem, offMap, waitingForFreezing, level0, verOff, pub,
                   pubVer, pc, refTables, writes, fate>>
    /\ UNCHANGED tableVars

\* The process dies: everything in memory is lost, the files stay.
ProcessDies ==
    /\ up \/ opening
    /\ up' = FALSE /\ opening' = FALSE
    /\ cursor' = 0 /\ seq' = 0
    /\ mem' = [m \in MemIds |-> {}] /\ size' = [m \in MemIds |-> 0]
    /\ active' = 1 /\ nextMem' = 1 /\ frozen' = <<>> /\ immutable' = <<>>
    /\ offMap' = [m \in MemIds |-> 0] /\ waitingForFreezing' = FALSE
    /\ level0' = <<>> /\ verOff' = 0 /\ pub' = "idle" /\ pubVer' = EmptyVersion
    /\ pc' = [t \in Trx |-> "idle"]
    /\ refTables' = [t \in Trx |-> {}] /\ writes' = [t \in Trx |-> {}]
    /\ dumped' = NoDump

\* DumpTable opens the file named by the seq with O_CREATE|O_EXCL and
\* hands the error to common.Throw: the open fails when the file exists.
ExclusiveCreateFails(s) == s \in sstFiles

\* Mutant of Dump: the table is recorded under the seq after the one its
\* file is created with.
DumpNextSeq ==
    /\ Unlocked
    /\ immutable # <<>>
    /\ dumped = NoDump
    /\ IF ExclusiveCreateFails(tableSeq)
       THEN ProcessDies /\ UNCHANGED <<crashes, sstFiles, tableSeq>>
       ELSE /\ sstFiles' = sstFiles \cup {tableSeq}
            /\ dumped' = [tseq |-> tableSeq + 1, rows |-> mem[Head(immutable)]]
            /\ UNCHANGED <<up, memVars, crashes, tableSeq>>
    /\ UNCHANGED <<disk, openFailed, target, fate>>

\* dumpImmutableTables, before it takes the lock: Storage.DumpMemtable
\* writes immutableMemtables[0] to the file named by db.tableSeq, opened
\* with O_CREATE|O_EXCL; when that file exists OpenFile fails and
\* common.Throw panics, ending the process.
Dump ==
    /\ Unlocked
    /\ immutable # <<>>
    /\ dumped = NoDump
    /\ IF ExclusiveCreateFails(tableSeq)
       THEN ProcessDies /\ UNCHANGED <<crashes, sstFiles, tableSeq>>
       ELSE /\ sstFiles' = sstFiles \cup {tableSeq}
            /\ dumped' = [tseq |-> tableSeq, rows |-> mem[Head(immutable)]]
            /\ UNCHANGED <<up, memVars, crashes, tableSeq>>
    /\ UNCHANGED <<disk, openFailed, target, fate>>

\* Then, under the lock, publish the version (levels[0] + the new table,
\* walOffset from the map) with SetVersion, whose DumpVersion first
\* renames version.json to .bak.  db.tableSeq += 1 comes before the lock
\* is released; nothing reads it in between, so it is taken here.
Flush ==
    /\ Unlocked
    /\ dumped # NoDump
    /\ LET m == Head(immutable)
           nv == [st |-> "ok", levels |-> Append(level0, dumped), off |-> offMap[m]]
       IN /\ level0' = nv.levels
          /\ verOff' = nv.off
          /\ pubVer' = nv
    /\ immutable' = Tail(immutable)
    /\ dumped' = NoDump
    /\ verBak' = Rotate(verFile)
    /\ verFile' = Missing
    /\ pub' = "renamed"
    /\ tableSeq' = tableSeq + 1
    /\ UNCHANGED <<target, wal, up, opening, openFailed, crashes, cursor, seq, mem, size,
                   active, nextMem, frozen, offMap, waitingForFreezing, pc, refTables,
                   writes, fate, sstFiles>>

\* ioutil.WriteFile: create/truncate version.json ...
VersionTruncate ==
    /\ pub = "renamed"
    /\ verFile' = Torn
    /\ pub' = "truncated"
    /\ UNCHANGED <<target, wal, verBak, up, opening, openFailed, crashes, cursor, seq, mem, size,
                   active, nextMem, frozen, immutable, offMap, waitingForFreezing,
                   level0, verOff, pubVer, pc, refTables, writes, fate>>
    /\ UNCHANGED tableVars

\* ... then write the JSON.
VersionWrite ==
    /\ pub = "truncated"
    /\ verFile' = pubVer
    /\ pub' = "idle"
    /\ UNCHANGED <<target, wal, verBak, up, opening, openFailed, crashes, cursor, seq, mem, size,
                   active, nextMem, frozen, immutable, offMap, waitingForFreezing,
                   level0, verOff, pubVer, pc, refTables, writes, fate, opening>>
    /\ UNCHANGED tableVars

-----------------------------------------------------------------------------
(* Crash and OpenDB *)

\* The process dies (a kill, or a transaction-timeout panic): memory is
\* lost, the files stay as they are.
Crash ==
    /\ crashes < MaxCrashes
    /\ crashes' = crashes + 1
    /\ ProcessDies
    /\ UNCHANGED <<disk, openFailed, target, fate, sstFiles, tableSeq>>


\* OpenDB, NewStorage: LoadVersion reads version.json (an unparsable file
\* panics in json.Unmarshal) and DumpVersion writes the loaded version
\* back, starting with the rename of version.json to .bak; VersionTruncate
\* and VersionWrite finish it before New goes on.
OpenStorage ==
    /\ ~up /\ ~opening
    /\ openFailed = "none"
    /\ IF verFile.st = "torn"
       THEN /\ openFailed' = "version"
            /\ UNCHANGED <<verFile, verBak, pub, pubVer, opening>>
       ELSE /\ pubVer' = LoadVersion(verFile)
            /\ verBak' = Rotate(verFile)
            /\ verFile' = Missing
            /\ pub' = "renamed"
            /\ opening' = TRUE
            /\ UNCHANGED openFailed
    /\ UNCHANGED <<wal, up, crashes, cursor, seq, mem, size, active, nextMem, frozen,
                   immutable, offMap, waitingForFreezing, level0, verOff, pc, target,
                   refTables, writes, fate>>
    /\ UNCHANGED tableVars

\* Mutant of Recover: db.seq is set one past the largest replayed seq.
RecoverSeqNext ==
    /\ opening /\ pub = "idle"
    /\ opening' = FALSE
    /\ IF pubVer.off \notin Boundaries
       THEN /\ openFailed' = "wal"
            /\ UNCHANGED <<up, cursor, seq, mem, size, waitingForFreezing, level0, verOff,
                           tableSeq>>
       ELSE LET start == CHOOSE i \in 1..Len(wal) + 1 : Pos(i) = pubVer.off
                idx == start..Len(wal)
                kept == {i \in idx : ~\E j \in start..(i - 1) :
                             wal[j].key = wal[i].key /\ wal[j].seq = wal[i].seq}
            IN /\ up' = TRUE
               /\ seq' = Max({0} \cup {wal[i].seq + 1 : i \in idx})
               /\ mem' = [mem EXCEPT ![1] = {Replayed(i) : i \in kept}]
               /\ size' = [size EXCEPT ![1] = Cardinality(idx)]
               /\ waitingForFreezing' = (Cardinality(idx) > MemtableSize)
               /\ cursor' = pubVer.off
               /\ level0' = pubVer.levels
               /\ verOff' = pubVer.off
               /\ tableSeq' = MaxSeqInVersion(pubVer) + 1
               /\ UNCHANGED openFailed
    /\ UNCHANGED <<disk, crashes, target, fate, sstFiles, dumped, pub, pubVer, active,
                   nextMem, frozen, immutable, offMap, pc, refTables, writes>>

\* OpenDB, once the loaded version is written back: the reader seeks to
\* walOffset and every record is put into the fresh memtable with TrxId 0
\* and db.seq raised to the largest seq seen; a read that does not start
\* at a record boundary fails its CRC and panics.  wal.cursor is set to
\* walOffset and db.tableSeq to MaxSeqInVersion + 1.
Recover ==
    /\ opening /\ pub = "idle"
    /\ opening' = FALSE
    /\ IF pubVer.off \notin Boundaries
       THEN /\ openFailed' = "wal"
            /\ UNCHANGED <<up, cursor, seq, mem, size, waitingForFreezing, level0, verOff,
                           tableSeq>>
       ELSE LET start == CHOOSE i \in 1..Len(wal) + 1 : Pos(i) = pubVer.off
                idx == start..Len(wal)
                kept == {i \in idx : ~\E j \in start..(i - 1) :
                             wal[j].key = wal[i].key /\ wal[j].seq = wal[i].seq}
            IN /\ up' = TRUE
               /\ seq' = Max({0} \cup {wal[i].seq : i \in idx})
               /\ mem' = [mem EXCEPT ![1] = {Replayed(i) : i \in kept}]
               /\ size' = [size EXCEPT ![1] = Cardinality(idx)]
               /\ waitingForFreezing' = (Cardinality(idx) > MemtableSize)
               /\ cursor' = pubVer.off
               /\ level0' = pubVer.levels
               /\ verOff' = pubVer.off
               /\ tableSeq' = MaxSeqInVersion(pubVer) + 1
               /\ UNCHANGED openFailed
    /\ UNCHANGED <<disk, crashes, target, fate, sstFiles, dumped, pub, pubVer, active,
                   nextMem, frozen, immutable, offMap, pc, refTables, writes>>

\* OpenDB panicked: the process never comes up.
Stopped ==
    /\ openFailed # "none"
    /\ UNCHANGED vars

-----------------------------------------------------------------------------
Next ==
    \/ \E t \in Trx : \/ Begin(t) \/ Commit(t) \/ Rollback(t)
                      \/ \E k \in Keys, op \in OpTypes, len \in RecLens :
                            Write(t, k, op, len) \/ WriteRefused(t, k, op, len)
    \/ Freeze \/ Collect \/ Dump \/ Flush \/ VersionTruncate \/ VersionWrite
    \/ Crash \/ OpenStorage \/ Recover \/ Stopped

Spec == Init /\ [][Next]_vars

-----------------------------------------------------------------------------
(* Properties *)

\* Rows of the memtables and of the current version's level-0 tables.
LiveRows == UNION {mem[m] : m \in MemIds} \cup UNION {level0[i].rows : i \in 1..Len(level0)}

TypeOK ==
    /\ wal \in Seq(Record) /\ Len(wal) =< MaxWrites
    /\ up \in BOOLEAN /\ opening \in BOOLEAN /\ openFailed \in {"none", "version", "wal"}
    /\ cursor \in Nat /\ seq \in 0..MaxSeq
    /\ mem \in [MemIds -> SUBSET Row] /\ size \in [MemIds -> Nat]
    /\ active \in MemIds /\ frozen \in Seq(MemIds) /\ immutable \in Seq(MemIds)
    /\ pub \in {"idle", "renamed", "truncated"}
    /\ pc \in [Trx -> {"idle", "active", "await"}]
    /\ refTables \in [Trx -> SUBSET MemIds]
    /\ writes \in [Trx -> SUBSET (MemIds \X (1..MaxWrites))]
    /\ fate \in [1..MaxWrites -> {"none", "live", "committed", "rolledback", "refused"}]
    /\ tableSeq \in Nat \ {0} /\ sstFiles \subseteq Nat \ {0}
    /\ \A i \in 1..Len(level0) : level0[i].tseq \in sstFiles /\ level0[i].rows \subseteq Row

(* OpenDB's replay rebuilds what the log says and no more (spec.md P8,    *)
(* section 3 and the rollback contract): a row readers treat as committed  *)
(* (TrxId 0) comes from a write whose transaction committed, and the       *)
(* running process never hands out a seq at or below one already in the   *)
(* WAL.  Replay turns every WAL record into a TrxId-0 row whatever became  *)
(* of the write, and raises db.seq only from the records after walOffset.  *)
ReplayFaithful ==
    up => /\ \A r \in LiveRows : r.trx = NoTrx => fate[r.w] = "committed"
          /\ \A i \in 1..Len(wal) : wal[i].seq =< seq

(* spec.md section 4.8: version.json is rotated atomically, so a reopen    *)
(* after a crash at any step finds a version.json that parses.             *)
(* DumpVersion renames it to .bak and then re-creates it with              *)
(* ioutil.WriteFile, which truncates before it writes; LoadVersion's       *)
(* json.Unmarshal of the empty file panics.                                *)
VersionUsable == openFailed # "version"

(* spec.md section 4.8: open falls back to the backup, so the process      *)
(* reopened after a crash serves a level 0 no shorter than the backup's.  *)
(* When version.json is missing, LoadVersion reads version.json.bak but   *)
(* returns EmptyVersion.                                                   *)
BackupHonoured == up /\ verBak.st = "ok" => Len(level0) >= Len(verBak.levels)

(* spec.md invariant 6: a published wal_offset is a record boundary of the *)
(* WAL file, so OpenDB's WALReader starts on a record.  After a reopen,    *)
(* wal.cursor restarts at walOffset while the file already holds the       *)
(* replayed records, and later freezes record that lagging cursor.         *)
OffsetOnRecord == verFile.st = "ok" => verFile.off \in Boundaries

(* OpenDB's LoadVersion opens every table version.json lists with        *)
(* LoadTable, which panics when the file is not there: the flusher writes *)
(* a table's file before any version that lists it is renamed into place *)
(* or written, whatever step a crash interrupts.                           *)
TablesLoadable ==
    verFile.st = "ok" => \A i \in 1..Len(verFile.levels) : verFile.levels[i].tseq \in sstFiles

(* spec.md section 4.5: DumpTable creates its file with exclusive-create  *)
(* semantics, and the flusher names each new table with db.tableSeq, so a  *)
(* dump never meets a file that is already there.  OpenDB takes the next   *)
(* seq from the tables the loaded version lists (MaxSeqInVersion + 1);     *)
(* a table dumped when the process died before publishing it is on disk    *)
(* and in no version.                                                      *)
DumpFresh == [][Dump => ~ExclusiveCreateFails(tableSeq)]_vars

=============================================================================
