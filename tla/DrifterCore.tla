----------------------------- MODULE DrifterCore -----------------------------
(***************************************************************************)
(* The write path of drifterdb: transactions writing through the           *)
(* optimistic row lock (the trx id stored in a skip-list key), the         *)
(* switch-memtable readers-writer lock, and the memtable lifecycle         *)
(* active -> frozen -> immutable -> level-0 SST driven by the freeze,      *)
(* collector and flusher goroutines, plus the one-second timeout ticker.   *)
(*                                                                         *)
(* Data is abstracted to what the lock and lifecycle properties tell       *)
(* apart: a skip-list row is [key, seq, op, trx] (values are not           *)
(* modelled), a WAL record is one unit of the WAL cursor, and the byte     *)
(* size of a memtable counts successful puts.                              *)
(***************************************************************************)
EXTENDS Integers, FiniteSets, Sequences, SequencesExt

CONSTANTS
    Trx,            \* transaction ids handed out by TransactionSet
    Keys,           \* key contents written by the transactions
    NoTrx,          \* trxId 0: a committed row / an unset owner
    MaxMemtables,   \* bound: memtables the freeze worker may allocate
    MemtableSize,   \* option.MemtableSize, in puts
    TrxTimeout,     \* TransactionTimeout, in ticker seconds
    MaxOps,         \* bound: Put/Delete calls per transaction
    MaxSeq          \* bound: values of db.seq

ASSUME NoTrx \notin Trx
ASSUME MaxMemtables \in Nat \ {0} /\ MemtableSize \in Nat
ASSUME TrxTimeout \in Nat /\ MaxOps \in Nat /\ MaxSeq \in Nat

MemIds  == 1..MaxMemtables
OpTypes == {"Put", "Delete"}
Workers == {"freeze", "collect", "flush"}
NoWriter == "none"
Row     == [key : Keys, seq : 0..MaxSeq, op : OpTypes, trx : Trx \cup {NoTrx}]

VARIABLES
    seq,                 \* db.seq
    mem,                 \* [MemIds -> SUBSET Row]: the skip list of each memtable
    size,                \* [MemIds -> Nat]: SkiplistMemtable.byteSize
    refs,                \* [MemIds -> SUBSET Trx]: SkiplistMemtable.RefTrx
    countRefs,           \* [MemIds -> Int]: SkiplistMemtable.countRefs
    active,              \* db.memtable
    nextMem,             \* memtables allocated so far
    frozen,              \* db.frozenMemtables
    immutable,           \* db.immutableMemtables
    level0,              \* version.levels[0]: dumped tables, with the rows dumped
    walCursor,           \* wal.cursor (records written and flushed)
    memStart,            \* [MemIds -> Nat]: wal.cursor when the memtable became active
    walOffsetMap,        \* db.memtableWalOffsetMap (0 = no entry)
    versionWalOffset,    \* storage.currentVersion.walOffset
    waitingForFreezing,  \* db.waitingForFreezing
    freezeChan,          \* signals pending in db.frozeMemtableChan
    dumpChan,            \* signals pending in db.dumpMemtableChan
    dumping,             \* [mem, rows]: the table the flusher has dumped, mem = 0 if none
    readers,             \* transactions holding switchMemtableLock.RLock
    rwait,               \* transactions blocked in switchMemtableLock.RLock
    writer,              \* worker that called switchMemtableLock.Lock, or NoWriter
    pc,                  \* [Trx -> control point]
    loaded,              \* [Trx -> Nat]: db.seq read by GetTransaction's getSeq
    opsDone,             \* [Trx -> Nat]: Put/Delete calls completed
    target,              \* [Trx -> [key, op]]: the Put/Delete in progress
    mods,                \* [Trx -> SUBSET (MemIds \X Keys \X Nat)]: modificationRecord
    refTables,           \* [Trx -> Seq(MemIds)]: trx.refTables, in append order
    refLoad,             \* [Trx -> Int]: countRefs as loaded by a Ref/CancelRef in progress
    waitOn,              \* [Trx -> record]: the conflicting key being polled
    timeSince,           \* [Trx -> Nat]: trx.timeSince, saturated at TrxTimeout+1
    crashed              \* a panic (transaction timeout) ended the process

vars == <<seq, mem, size, refs, countRefs, refLoad, active, nextMem, frozen, immutable, level0,
          walCursor, memStart, walOffsetMap, versionWalOffset,
          waitingForFreezing, freezeChan, dumpChan, dumping, readers, rwait,
          writer, pc, loaded, opsDone, target, mods, refTables, waitOn,
          timeSince, crashed>>

trxVars == <<pc, loaded, opsDone, target, mods, refTables, waitOn>>
lifeVars == <<active, nextMem, frozen, immutable, level0, memStart,
              walOffsetMap, versionWalOffset, waitingForFreezing, freezeChan,
              dumpChan, dumping>>

NoDump == [mem |-> 0, rows |-> {}]
NoWait == [mem |-> 0, key |-> CHOOSE k \in Keys : TRUE, seq |-> 0, owner |-> NoTrx]

-----------------------------------------------------------------------------
(* Helpers *)

\* The newest version of key k in a set of rows: the first entry of that
\* content in Modify order (larger seq sorts first).
NewestRow(rows, k) ==
    CHOOSE r \in rows : r.key = k /\ \A o \in rows : o.key = k => o.seq =< r.seq

\* Transactions registered in TransactionSet.Transactions.
Registered == {t \in Trx : pc[t] \notin {"idle", "begin", "done"}}

\* The key object's TrxId is cleared by its owner's commit() or rollback().
KeyCleared(w) == pc[w.owner] \in {"cancel", "cstore", "rcancel", "rcstore", "done"}

Timeout(t) == timeSince[t] > TrxTimeout

\* switchMemtableLock.RLock(): blocks while a writer has called Lock().
RLockCall(t) ==
    IF writer = NoWriter
    THEN /\ readers' = readers \cup {t} /\ rwait' = rwait
    ELSE /\ rwait' = rwait \cup {t}     /\ readers' = readers

\* switchMemtableLock.Unlock(): blocked readers are admitted.
WUnlock ==
    /\ writer' = NoWriter
    /\ readers' = readers \cup rwait
    /\ rwait' = {}

\* Mutant: FrozeMemtable() without the waitingForFreezing test.
FreezeCheckUnguarded(m, newSize) ==
    IF newSize > MemtableSize /\ nextMem < MaxMemtables
    THEN /\ waitingForFreezing' = TRUE
         /\ freezeChan' = freezeChan + 1
    ELSE UNCHANGED <<waitingForFreezing, freezeChan>>

\* db.put's tail: FrozeMemtable() when byteSize exceeds option.MemtableSize.
\* The freeze is not requested once MaxMemtables memtables exist (bound).
FreezeCheck(m, newSize) ==
    IF newSize > MemtableSize /\ ~waitingForFreezing /\ nextMem < MaxMemtables
    THEN /\ waitingForFreezing' = TRUE
         /\ freezeChan' = freezeChan + 1
    ELSE UNCHANGED <<waitingForFreezing, freezeChan>>

-----------------------------------------------------------------------------
Init ==
    /\ seq = 0
    /\ mem = [m \in MemIds |-> {}]
    /\ size = [m \in MemIds |-> 0]
    /\ refs = [m \in MemIds |-> {}]
    /\ countRefs = [m \in MemIds |-> 0]
    /\ refLoad = [t \in Trx |-> 0]
    /\ active = 1
    /\ nextMem = 1
    /\ frozen = <<>>
    /\ immutable = <<>>
    /\ level0 = <<>>
    /\ walCursor = 0
    /\ memStart = [m \in MemIds |-> 0]
    /\ walOffsetMap = [m \in MemIds |-> 0]
    /\ versionWalOffset = 0
    /\ waitingForFreezing = FALSE
    /\ freezeChan = 0
    /\ dumpChan = 0
    /\ dumping = NoDump
    /\ readers = {}
    /\ rwait = {}
    /\ writer = NoWriter
    /\ pc = [t \in Trx |-> "idle"]
    /\ loaded = [t \in Trx |-> 0]
    /\ opsDone = [t \in Trx |-> 0]
    /\ target = [t \in Trx |-> [key |-> CHOOSE k \in Keys : TRUE, op |-> "Put"]]
    /\ mods = [t \in Trx |-> {}]
    /\ refTables = [t \in Trx |-> <<>>]
    /\ waitOn = [t \in Trx |-> NoWait]
    /\ timeSince = [t \in Trx |-> 0]
    /\ crashed = FALSE

-----------------------------------------------------------------------------
(* TransactionSet.GetTransaction: NewReadView calls db.getSeq(), whose     *)
(* "db.seq += 1" runs under no lock; the load and the store are separate   *)
(* steps so that concurrent callers can lose or rewind an increment.       *)

GetTransactionLoad(t) ==
    /\ ~crashed
    /\ pc[t] = "idle"
    /\ loaded' = [loaded EXCEPT ![t] = seq]
    /\ pc' = [pc EXCEPT ![t] = "begin"]
    /\ UNCHANGED <<seq, mem, size, refs, countRefs, refLoad, readers, rwait, writer, opsDone, target,
                   mods, refTables, waitOn, timeSince, crashed, walCursor>>
    /\ UNCHANGED lifeVars

GetTransactionStore(t) ==
    /\ ~crashed
    /\ pc[t] = "begin"
    /\ loaded[t] < MaxSeq
    /\ seq' = loaded[t] + 1
    /\ pc' = [pc EXCEPT ![t] = "ready"]
    /\ UNCHANGED <<mem, size, refs, countRefs, refLoad, readers, rwait, writer, loaded, opsDone,
                   target, mods, refTables, waitOn, timeSince, crashed, walCursor>>
    /\ UNCHANGED lifeVars

(* Transaction.Put / Transaction.Delete: checkLockOnFrozenMemtables first  *)
(* takes switchMemtableLock.RLock.                                         *)
PutCall(t, k, op) ==
    /\ ~crashed
    /\ pc[t] = "ready"
    /\ opsDone[t] < MaxOps
    /\ target' = [target EXCEPT ![t] = [key |-> k, op |-> op]]
    /\ RLockCall(t)
    /\ pc' = [pc EXCEPT ![t] = "scan"]
    /\ UNCHANGED <<seq, mem, size, refs, countRefs, refLoad, writer, loaded, opsDone, mods,
                   refTables, waitOn, timeSince, crashed, walCursor>>
    /\ UNCHANGED lifeVars

\* SkiplistMemtable.Ref(trx) when trx is not yet in RefTrx: RefTrx.Store,
\* then "countRefs += 1" under no lock of its own, split into the load
\* (RefBegin) and the store of the loaded value plus one (RefEnd).
RefBegin(t, m) ==
    /\ refs' = [refs EXCEPT ![m] = @ \cup {t}]
    /\ refLoad' = [refLoad EXCEPT ![t] = countRefs[m]]

RefEnd(t, m) == countRefs' = [countRefs EXCEPT ![m] = refLoad[t] + 1]

\* SkiplistMemtable.CancelRef(trx) when trx is in RefTrx: RefTrx.Delete and
\* the load, then the store of "countRefs -= 1".
CancelBegin(t, m) ==
    /\ refs' = [refs EXCEPT ![m] = @ \ {t}]
    /\ refLoad' = [refLoad EXCEPT ![t] = countRefs[m]]

CancelEnd(t, m) == countRefs' = [countRefs EXCEPT ![m] = refLoad[t] - 1]

(* checkLockOnFrozenMemtables: scan the frozen memtables whose CountRefs() *)
(* is not 0 with a ReadUncommitted probe; the probe resolves to the newest *)
(* row of the key if it is a Put and to nil if it is a Delete.  A row of   *)
(* another live transaction is a conflict: Ref the table, append it to     *)
(* trx.refTables, RUnlock, poll.                                           *)
FrozenConflict(t, m) ==
    /\ countRefs[m] # 0
    /\ \E r \in mem[m] : r.key = target[t].key
    /\ LET top == NewestRow(mem[m], target[t].key)
       IN top.op = "Put" /\ top.trx \notin {NoTrx, t}

CheckLockScan(t) ==
    /\ ~crashed
    /\ pc[t] = "scan"
    /\ t \in readers
    /\ LET i == SelectInSeq(frozen, LAMBDA m : FrozenConflict(t, m))
           m == frozen[i]
           top == NewestRow(mem[m], target[t].key)
       IN IF i = 0
          THEN /\ pc' = [pc EXCEPT ![t] = "write"]
               /\ UNCHANGED <<refs, countRefs, refLoad, refTables, readers, waitOn>>
          ELSE /\ refTables' = [refTables EXCEPT ![t] = Append(@, m)]
               /\ waitOn' = [waitOn EXCEPT ![t] = [mem |-> m, key |-> top.key,
                                                    seq |-> top.seq, owner |-> top.trx]]
               /\ IF t \in refs[m]
                  THEN /\ readers' = readers \ {t}
                       /\ pc' = [pc EXCEPT ![t] = "fwait"]
                       /\ UNCHANGED <<refs, countRefs, refLoad>>
                  ELSE /\ RefBegin(t, m)
                       /\ pc' = [pc EXCEPT ![t] = "fref"]
                       /\ UNCHANGED <<countRefs, readers>>
    /\ UNCHANGED <<seq, mem, size, rwait, writer, loaded, opsDone, target, mods,
                   timeSince, crashed, walCursor>>
    /\ UNCHANGED lifeVars

\* The end of that Ref, then switchMemtableLock.RUnlock and the poll.
CheckLockRefStore(t) ==
    /\ ~crashed
    /\ pc[t] = "fref"
    /\ RefEnd(t, waitOn[t].mem)
    /\ readers' = readers \ {t}
    /\ pc' = [pc EXCEPT ![t] = "fwait"]
    /\ UNCHANGED <<seq, mem, size, refs, refLoad, rwait, writer, loaded, opsDone,
                   target, mods, refTables, waitOn, timeSince, crashed, walCursor>>
    /\ UNCHANGED lifeVars

\* The poll loop ends when the conflicting key's TrxId is cleared; then
\* switchMemtableLock.RLock is taken again.
CheckLockWaitDone(t) ==
    /\ ~crashed
    /\ pc[t] = "fwait"
    /\ KeyCleared(waitOn[t])
    /\ RLockCall(t)
    /\ pc' = [pc EXCEPT ![t] = "relock"]
    /\ UNCHANGED <<seq, mem, size, refs, countRefs, refLoad, writer, loaded, opsDone, target, mods,
                   refTables, waitOn, timeSince, crashed, walCursor>>
    /\ UNCHANGED lifeVars

\* With the read lock back, conflictMemtable.CancelRef(trx) drops the
\* transaction's ref on that memtable, whatever else it wrote there.
CheckLockRelock(t) ==
    /\ ~crashed
    /\ pc[t] = "relock"
    /\ t \in readers
    /\ IF t \in refs[waitOn[t].mem]
       THEN /\ CancelBegin(t, waitOn[t].mem)
            /\ pc' = [pc EXCEPT ![t] = "frel"]
            /\ UNCHANGED waitOn
       ELSE /\ waitOn' = [waitOn EXCEPT ![t] = NoWait]
            /\ pc' = [pc EXCEPT ![t] = "write"]
            /\ UNCHANGED <<refs, refLoad>>
    /\ UNCHANGED <<seq, mem, size, countRefs, readers, rwait, writer, loaded, opsDone,
                   target, mods, refTables, timeSince, crashed, walCursor>>
    /\ UNCHANGED lifeVars

CheckLockCancelStore(t) ==
    /\ ~crashed
    /\ pc[t] = "frel"
    /\ CancelEnd(t, waitOn[t].mem)
    /\ waitOn' = [waitOn EXCEPT ![t] = NoWait]
    /\ pc' = [pc EXCEPT ![t] = "write"]
    /\ UNCHANGED <<seq, mem, size, refs, refLoad, readers, rwait, writer, loaded,
                   opsDone, target, mods, refTables, timeSince, crashed, walCursor>>
    /\ UNCHANGED lifeVars

\* trx.timeout() while polling: common.Error panics and the process dies.
CheckLockTimeout(t) ==
    /\ ~crashed
    /\ pc[t] = "fwait"
    /\ ~KeyCleared(waitOn[t])
    /\ Timeout(t)
    /\ crashed' = TRUE
    /\ UNCHANGED <<seq, mem, size, refs, countRefs, refLoad, readers, rwait, writer, timeSince,
                   walCursor>>
    /\ UNCHANGED trxVars
    /\ UNCHANGED lifeVars

\* SkipList.Set: the entry that follows the insertion point of (k, s) at
\* level 0, if it has content k (Modify order puts larger seqs first).
SetNext(rows, k, s) == NewestRow({r \in rows : r.key = k /\ r.seq < s}, k)

\* SkipList.Set refuses to insert when no entry equals (k, s) and that next
\* entry carries the TrxId of another transaction.
SetRefused(rows, k, s, t) ==
    /\ ~\E r \in rows : r.key = k /\ r.seq = s
    /\ \E r \in rows : r.key = k /\ r.seq < s
    /\ SetNext(rows, k, s).trx \notin {NoTrx, t}

\* The top of Put's retry loop: trx.db.memtable.Ref(trx), up to its load
\* of countRefs, when the transaction is not yet in RefTrx.
PutRef(t) ==
    /\ ~crashed
    /\ pc[t] = "write"
    /\ t \in readers
    /\ t \notin refs[active]
    /\ RefBegin(t, active)
    /\ pc' = [pc EXCEPT ![t] = "wref"]
    /\ UNCHANGED <<seq, mem, size, countRefs, readers, rwait, writer, loaded,
                   opsDone, target, mods, refTables, waitOn, timeSince, crashed,
                   walCursor>>
    /\ UNCHANGED lifeVars

\* Ref's store of the loaded countRefs plus one, still before memtableLock.
PutRefStore(t) ==
    /\ ~crashed
    /\ pc[t] = "wref"
    /\ RefEnd(t, active)
    /\ pc' = [pc EXCEPT ![t] = "wlock"]
    /\ UNCHANGED <<seq, mem, size, refs, refLoad, readers, rwait, writer, loaded,
                   opsDone, target, mods, refTables, waitOn, timeSince, crashed,
                   walCursor>>
    /\ UNCHANGED lifeVars

(* The rest of one pass of the loop, under memtableLock.Lock (which a    *)
(* rollback holds throughout): append to trx.refTables, seq = getSeq(),  *)
(* db.put appends and flushes the WAL record and calls SkipList.Set.     *)
(* Set overwrites an entry of equal content and seq; otherwise it        *)
(* refuses when the next entry at level 0 has the same content and       *)
(* another transaction's TrxId.  db.put then compares the byte size with *)
(* the threshold.  On success the read lock taken by                      *)
(* checkLockOnFrozenMemtables is released; on refusal it is kept.         *)
PutInsert(t) ==
    /\ ~crashed
    /\ \/ pc[t] = "write" /\ t \in refs[active]
       \/ pc[t] = "wlock"
    /\ t \in readers
    /\ ~\E u \in Trx : pc[u] \in {"rcancel", "rcstore"}   \* memtableLock
    /\ seq < MaxSeq
    /\ LET m   == active
           k   == target[t].key
           s   == seq + 1
           row == [key |-> k, seq |-> s, op |-> target[t].op, trx |-> t]
           same  == {r \in mem[m] : r.key = k /\ r.seq = s}
           next  == SetNext(mem[m], k, s)
           blocked == SetRefused(mem[m], k, s, t)
       IN /\ seq' = s
          /\ walCursor' = walCursor + 1
          /\ refTables' = [refTables EXCEPT ![t] = Append(@, m)]
          /\ IF blocked
             THEN /\ waitOn' = [waitOn EXCEPT ![t] = [mem |-> m, key |-> k,
                                                    seq |-> next.seq, owner |-> next.trx]]
                  /\ pc' = [pc EXCEPT ![t] = "await"]
                  /\ FreezeCheck(m, size[m])
                  /\ UNCHANGED <<mem, size, readers, opsDone, mods>>
             ELSE /\ mem' = [mem EXCEPT ![m] = IF same = {} THEN @ \cup {row} ELSE @]
                  /\ size' = [size EXCEPT ![m] = @ + 1]
                  /\ mods' = [mods EXCEPT ![t] = @ \cup {<<m, k, s>>}]
                  /\ FreezeCheck(m, size[m] + 1)
                  /\ readers' = readers \ {t}
                  /\ opsDone' = [opsDone EXCEPT ![t] = @ + 1]
                  /\ pc' = [pc EXCEPT ![t] = "ready"]
                  /\ UNCHANGED waitOn
    /\ UNCHANGED <<refs, countRefs, refLoad, rwait, writer, loaded, target, timeSince, crashed, active,
                   nextMem, frozen, immutable, level0, memStart, walOffsetMap,
                   versionWalOffset, dumpChan, dumping>>

\* Put polls the blocking entry's TrxId while still holding the read lock;
\* when it clears, the loop retries.
PutWaitDone(t) ==
    /\ ~crashed
    /\ pc[t] = "await"
    /\ KeyCleared(waitOn[t])
    /\ waitOn' = [waitOn EXCEPT ![t] = NoWait]
    /\ pc' = [pc EXCEPT ![t] = "write"]
    /\ UNCHANGED <<seq, mem, size, refs, countRefs, refLoad, readers, rwait, writer, loaded,
                   opsDone, target, mods, refTables, timeSince, crashed,
                   walCursor>>
    /\ UNCHANGED lifeVars

\* trx.timeout() while polling: RUnlock, then common.Error panics.
PutTimeout(t) ==
    /\ ~crashed
    /\ pc[t] = "await"
    /\ ~KeyCleared(waitOn[t])
    /\ Timeout(t)
    /\ readers' = readers \ {t}
    /\ crashed' = TRUE
    /\ UNCHANGED <<seq, mem, size, refs, countRefs, refLoad, rwait, writer, timeSince, walCursor>>
    /\ UNCHANGED trxVars
    /\ UNCHANGED lifeVars

(* WithTransaction ends with TransactionSet.CommitTransaction or           *)
(* RollbackTransaction; both first take switchMemtableLock.RLock.          *)
EndCall(t, how) ==
    /\ ~crashed
    /\ pc[t] = "ready"
    /\ RLockCall(t)
    /\ pc' = [pc EXCEPT ![t] = how]
    /\ UNCHANGED <<seq, mem, size, refs, countRefs, refLoad, writer, loaded, opsDone, target, mods,
                   refTables, waitOn, timeSince, crashed, walCursor>>
    /\ UNCHANGED lifeVars

(* Transaction.commit: every recorded key gets TrxId = 0 (the key object  *)
(* is shared with the skip-list entry, so the row is committed wherever   *)
(* it now lives); then the refs are cancelled one table of trx.refTables  *)
(* at a time (CancelRef), and last the read lock is released.             *)
Commit(t) ==
    /\ ~crashed
    /\ pc[t] = "commit"
    /\ t \in readers
    /\ mem' = [m \in MemIds |->
                 {IF r.trx = t /\ <<m, r.key, r.seq>> \in mods[t]
                  THEN [r EXCEPT !.trx = NoTrx] ELSE r : r \in mem[m]}]
    /\ pc' = [pc EXCEPT ![t] = "cancel"]
    /\ mods' = [mods EXCEPT ![t] = {}]
    /\ UNCHANGED <<seq, size, refs, countRefs, refLoad, readers, rwait, writer, loaded,
                   opsDone, target, refTables, waitOn, timeSince, crashed, walCursor>>
    /\ UNCHANGED lifeVars

(* Transaction.rollback, under memtableLock.Lock as well, held to its end: *)
(* Delete each recorded key (located by content and seq) from its table;  *)
(* byteSize is not reduced.  Then the same CancelRef loop.                 *)
Rollback(t) ==
    /\ ~crashed
    /\ pc[t] = "rollback"
    /\ t \in readers
    /\ ~\E u \in Trx : pc[u] \in {"rcancel", "rcstore"}
    /\ mem' = [m \in MemIds |-> {r \in mem[m] : <<m, r.key, r.seq>> \notin mods[t]}]
    /\ pc' = [pc EXCEPT ![t] = "rcancel"]
    /\ mods' = [mods EXCEPT ![t] = {}]
    /\ UNCHANGED <<seq, size, refs, countRefs, refLoad, readers, rwait, writer, loaded,
                   opsDone, target, refTables, waitOn, timeSince, crashed, walCursor>>
    /\ UNCHANGED lifeVars

\* Control points of the CancelRef loop of commit (c) and rollback (rc).
CancelPc(how) == IF how = "c" THEN "cancel" ELSE "rcancel"
StorePc(how) == IF how = "c" THEN "cstore" ELSE "rcstore"

\* One iteration of "for _, t := range trx.refTables { t.CancelRef(trx) }":
\* a table the transaction is no longer in RefTrx of (cancelled already,
\* or listed twice) is passed over; otherwise CancelRef's load.
CancelRefStep(t, how) ==
    /\ ~crashed
    /\ pc[t] = CancelPc(how)
    /\ refTables[t] # <<>>
    /\ IF t \in refs[Head(refTables[t])]
       THEN /\ CancelBegin(t, Head(refTables[t]))
            /\ pc' = [pc EXCEPT ![t] = StorePc(how)]
            /\ UNCHANGED refTables
       ELSE /\ refTables' = [refTables EXCEPT ![t] = Tail(@)]
            /\ UNCHANGED <<refs, refLoad, pc>>
    /\ UNCHANGED <<seq, mem, size, countRefs, readers, rwait, writer, loaded, opsDone,
                   target, mods, waitOn, timeSince, crashed, walCursor>>
    /\ UNCHANGED lifeVars

\* CancelRef's store, and on to the next table.
CancelRefStore(t, how) ==
    /\ ~crashed
    /\ pc[t] = StorePc(how)
    /\ CancelEnd(t, Head(refTables[t]))
    /\ refTables' = [refTables EXCEPT ![t] = Tail(@)]
    /\ pc' = [pc EXCEPT ![t] = CancelPc(how)]
    /\ UNCHANGED <<seq, mem, size, refs, refLoad, readers, rwait, writer, loaded, opsDone,
                   target, mods, waitOn, timeSince, crashed, walCursor>>
    /\ UNCHANGED lifeVars

\* The loop is done: the deferred RUnlock (and, for rollback, Unlock of
\* memtableLock) ends the transaction.
EndRelease(t, how) ==
    /\ ~crashed
    /\ pc[t] = CancelPc(how)
    /\ refTables[t] = <<>>
    /\ readers' = readers \ {t}
    /\ pc' = [pc EXCEPT ![t] = "done"]
    /\ UNCHANGED <<seq, mem, size, refs, countRefs, refLoad, rwait, writer, loaded,
                   opsDone, target, mods, refTables, waitOn, timeSince, crashed,
                   walCursor>>
    /\ UNCHANGED lifeVars

-----------------------------------------------------------------------------
(* The background goroutines.  Each takes switchMemtableLock.Lock: the     *)
(* call blocks new readers at once (Go's RWMutex prefers a pending        *)
(* writer) and the body runs when the last reader has left.               *)

\* FrozeMemtableLoop receives a signal and calls Lock().
FreezeLock ==
    /\ ~crashed
    /\ freezeChan > 0
    /\ writer = NoWriter
    /\ writer' = "freeze"
    /\ freezeChan' = freezeChan - 1
    /\ UNCHANGED <<seq, mem, size, refs, countRefs, refLoad, readers, rwait, walCursor, crashed>>
    /\ UNCHANGED <<active, nextMem, frozen, immutable, level0, memStart,
                   walOffsetMap, versionWalOffset, waitingForFreezing, dumpChan,
                   dumping>>
    /\ UNCHANGED <<trxVars, timeSince>>

\* Mutant of FrozeMemtable: waitingForFreezing is never cleared.
FrozeMemtableKeepsFlag ==
    /\ ~crashed
    /\ writer = "freeze"
    /\ readers = {}
    /\ frozen' = Append(frozen, active)
    /\ walOffsetMap' = [walOffsetMap EXCEPT ![active] = walCursor]
    /\ active' = nextMem + 1
    /\ nextMem' = nextMem + 1
    /\ memStart' = [memStart EXCEPT ![nextMem + 1] = walCursor]
    /\ WUnlock
    /\ UNCHANGED <<seq, mem, size, refs, countRefs, refLoad, walCursor, crashed, immutable, level0,
                   versionWalOffset, freezeChan, dumpChan, dumping, waitingForFreezing>>
    /\ UNCHANGED <<trxVars, timeSince>>

\* FrozeMemtableLoop's body: append the memtable to frozen, record the WAL
\* cursor for it, install the new memtable, clear waitingForFreezing.
FrozeMemtable ==
    /\ ~crashed
    /\ writer = "freeze"
    /\ readers = {}
    /\ frozen' = Append(frozen, active)
    /\ walOffsetMap' = [walOffsetMap EXCEPT ![active] = walCursor]
    /\ active' = nextMem + 1
    /\ nextMem' = nextMem + 1
    /\ memStart' = [memStart EXCEPT ![nextMem + 1] = walCursor]
    /\ waitingForFreezing' = FALSE
    /\ WUnlock
    /\ UNCHANGED <<seq, mem, size, refs, countRefs, refLoad, walCursor, crashed, immutable, level0,
                   versionWalOffset, freezeChan, dumpChan, dumping>>
    /\ UNCHANGED <<trxVars, timeSince>>

\* collectMemtable wakes every MemtableCollectorInterval and calls Lock().
CollectLock ==
    /\ ~crashed
    /\ writer = NoWriter
    /\ writer' = "collect"
    /\ UNCHANGED <<seq, mem, size, refs, countRefs, refLoad, readers, rwait, walCursor, crashed>>
    /\ UNCHANGED lifeVars
    /\ UNCHANGED <<trxVars, timeSince>>

\* Mutant: one dumpMemtableChan signal per collector pass.
CollectMemtableOneSignal ==
    /\ ~crashed
    /\ writer = "collect"
    /\ readers = {}
    /\ LET moved == SelectSeq(frozen, LAMBDA m : countRefs[m] = 0)
       IN /\ immutable' = immutable \o moved
          /\ frozen' = SelectSeq(frozen, LAMBDA m : countRefs[m] # 0)
          /\ dumpChan' = dumpChan + 1
    /\ WUnlock
    /\ UNCHANGED <<seq, mem, size, refs, countRefs, refLoad, walCursor, crashed, active, nextMem,
                   level0, memStart, walOffsetMap, versionWalOffset,
                   waitingForFreezing, freezeChan, dumping>>
    /\ UNCHANGED <<trxVars, timeSince>>

\* Move every frozen memtable with CountRefs() == 0 to immutable, one
\* dumpMemtableChan signal each.
CollectMemtable ==
    /\ ~crashed
    /\ writer = "collect"
    /\ readers = {}
    /\ LET moved == SelectSeq(frozen, LAMBDA m : countRefs[m] = 0)
       IN /\ immutable' = immutable \o moved
          /\ frozen' = SelectSeq(frozen, LAMBDA m : countRefs[m] # 0)
          /\ dumpChan' = dumpChan + Len(moved)
    /\ WUnlock
    /\ UNCHANGED <<seq, mem, size, refs, countRefs, refLoad, walCursor, crashed, active, nextMem,
                   level0, memStart, walOffsetMap, versionWalOffset,
                   waitingForFreezing, freezeChan, dumping>>
    /\ UNCHANGED <<trxVars, timeSince>>

\* dumpImmutableTables receives a signal and, without any lock, dumps
\* immutableMemtables[0] to a new SST (Storage.DumpMemtable).
DumpImmutable ==
    /\ ~crashed
    /\ dumpChan > 0
    /\ dumping = NoDump
    /\ dumping' = [mem |-> Head(immutable), rows |-> mem[Head(immutable)]]
    /\ dumpChan' = dumpChan - 1
    /\ UNCHANGED <<seq, mem, size, refs, countRefs, refLoad, readers, rwait, writer, walCursor,
                   crashed, active, nextMem, frozen, immutable, level0, memStart,
                   walOffsetMap, versionWalOffset, waitingForFreezing, freezeChan>>
    /\ UNCHANGED <<trxVars, timeSince>>

FlushLock ==
    /\ ~crashed
    /\ dumping # NoDump
    /\ writer = NoWriter
    /\ writer' = "flush"
    /\ UNCHANGED <<seq, mem, size, refs, countRefs, refLoad, readers, rwait, walCursor, crashed>>
    /\ UNCHANGED lifeVars
    /\ UNCHANGED <<trxVars, timeSince>>

\* Under the lock: publish a version with the new table in level 0 and the
\* dumped memtable's recorded WAL offset, then drop immutableMemtables[0].
PublishVersion ==
    /\ ~crashed
    /\ writer = "flush"
    /\ readers = {}
    /\ level0' = Append(level0, dumping)
    /\ versionWalOffset' = walOffsetMap[dumping.mem]
    /\ walOffsetMap' = [walOffsetMap EXCEPT ![dumping.mem] = 0]
    /\ immutable' = Tail(immutable)
    /\ dumping' = NoDump
    /\ WUnlock
    /\ UNCHANGED <<seq, mem, size, refs, countRefs, refLoad, walCursor, crashed, active, nextMem,
                   frozen, memStart, waitingForFreezing, freezeChan,
                   dumpChan>>
    /\ UNCHANGED <<trxVars, timeSince>>

\* TransactionSet.StartTimer: once a second every registered transaction's
\* timeSince grows (saturated: only "> TrxTimeout" is ever tested).
Tick ==
    /\ ~crashed
    /\ \E t \in Registered : timeSince[t] =< TrxTimeout
    /\ timeSince' = [t \in Trx |-> IF t \in Registered /\ timeSince[t] =< TrxTimeout
                                    THEN timeSince[t] + 1 ELSE timeSince[t]]
    /\ UNCHANGED <<seq, mem, size, refs, countRefs, refLoad, readers, rwait, writer, walCursor, crashed>>
    /\ UNCHANGED lifeVars
    /\ UNCHANGED trxVars

\* After a panic nothing runs any more.
Halted ==
    /\ crashed
    /\ UNCHANGED vars

-----------------------------------------------------------------------------
TrxStep(t) ==
    \/ GetTransactionLoad(t)
    \/ GetTransactionStore(t)
    \/ \E k \in Keys, op \in OpTypes : PutCall(t, k, op)
    \/ CheckLockScan(t)
    \/ CheckLockRefStore(t)
    \/ CheckLockWaitDone(t)
    \/ CheckLockRelock(t)
    \/ CheckLockCancelStore(t)
    \/ CheckLockTimeout(t)
    \/ PutRef(t)
    \/ PutRefStore(t)
    \/ PutInsert(t)
    \/ PutWaitDone(t)
    \/ PutTimeout(t)
    \/ EndCall(t, "commit")
    \/ EndCall(t, "rollback")
    \/ Commit(t)
    \/ Rollback(t)
    \/ \E how \in {"c", "rc"} : CancelRefStep(t, how) \/ CancelRefStore(t, how) \/ EndRelease(t, how)

WorkerStep ==
    \/ FreezeLock \/ FrozeMemtable
    \/ CollectLock \/ CollectMemtable
    \/ DumpImmutable \/ FlushLock \/ PublishVersion

\* Every action but Halted requires that the process has not crashed.
Next ==
    \/ \E t \in Trx : TrxStep(t)
    \/ WorkerStep
    \/ Tick
    \/ Halted

Spec == Init /\ [][Next]_vars

(* Clients finish their transactions and the goroutines keep running.     *)
(* Lock() waits on sync.Mutex, which hands off to a starving waiter, so    *)
(* the workers' lock calls are strongly fair.                              *)
Fairness ==
    /\ \A t \in Trx : WF_vars(TrxStep(t))
    /\ SF_vars(FreezeLock) /\ WF_vars(FrozeMemtable)
    /\ SF_vars(CollectLock) /\ WF_vars(CollectMemtable)
    /\ WF_vars(DumpImmutable) /\ SF_vars(FlushLock) /\ WF_vars(PublishVersion)
    /\ WF_vars(Tick)

FairSpec == Spec /\ Fairness

-----------------------------------------------------------------------------
(* Properties *)

Flushed == {level0[i].mem : i \in 1..Len(level0)}
Unflushed == {active} \cup Range(frozen) \cup Range(immutable)

TypeOK ==
    /\ seq \in 0..MaxSeq
    /\ mem \in [MemIds -> SUBSET Row]
    /\ size \in [MemIds -> Nat]
    /\ refs \in [MemIds -> SUBSET Trx]
    /\ countRefs \in [MemIds -> -Cardinality(Trx)..Cardinality(Trx)]
    /\ refLoad \in [Trx -> -Cardinality(Trx)..Cardinality(Trx)]
    /\ active \in MemIds /\ nextMem \in MemIds
    /\ frozen \in Seq(MemIds) /\ immutable \in Seq(MemIds)
    /\ \A i \in 1..Len(level0) : level0[i].mem \in MemIds /\ level0[i].rows \subseteq Row
    /\ walCursor \in Nat /\ versionWalOffset \in Nat
    /\ memStart \in [MemIds -> Nat] /\ walOffsetMap \in [MemIds -> Nat]
    /\ waitingForFreezing \in BOOLEAN /\ freezeChan \in {0, 1} /\ dumpChan \in Nat
    /\ dumping.mem \in MemIds \cup {0} /\ dumping.rows \subseteq Row
    /\ readers \subseteq Trx /\ rwait \subseteq Trx /\ readers \cap rwait = {}
    /\ writer \in Workers \cup {NoWriter}
    /\ pc \in [Trx -> {"idle", "begin", "ready", "scan", "fref", "fwait", "relock",
                        "frel", "write", "wref", "wlock", "await", "commit", "rollback",
                        "cancel", "cstore", "rcancel", "rcstore", "done"}]
    /\ opsDone \in [Trx -> 0..MaxOps]
    /\ mods \in [Trx -> SUBSET (MemIds \X Keys \X (0..MaxSeq))]
    /\ refTables \in [Trx -> Seq(MemIds)]
    /\ timeSince \in [Trx -> 0..(TrxTimeout + 1)]
    /\ crashed \in BOOLEAN

(* Memtable lifecycle bookkeeping (FrozeMemtableLoop, collectMemtable,     *)
(* dumpImmutableTables): every allocated memtable is in exactly one of     *)
(* active / frozen / immutable / level 0, never twice, and the dump signals *)
(* pending plus the dump in progress match the immutable queue one to one, *)
(* so the flusher never reads immutableMemtables[0] of an empty list and    *)
(* never leaves a table unflushed or flushes one twice.                     *)
LifecycleConsistent ==
    LET order == frozen \o immutable \o [i \in 1..Len(level0) |-> level0[i].mem]
    IN /\ IsInjective(order)
       /\ active \notin Range(order)
       /\ Range(order) \cup {active} = 1..nextMem
       /\ dumpChan + (IF dumping = NoDump THEN 0 ELSE 1) = Len(immutable)
       /\ dumping # NoDump => dumping.mem = Head(immutable)

(* The FrozeMemtable / FrozeMemtableLoop handshake: db.waitingForFreezing *)
(* is set exactly while one freeze request is in flight (a signal queued   *)
(* on frozeMemtableChan, or FrozeMemtableLoop holding or waiting for the   *)
(* switch lock), and an active memtable over option.MemtableSize always   *)
(* has that request.  A lost request would leave every later db.put       *)
(* skipping FrozeMemtable forever; a duplicated one would freeze a fresh,  *)
(* empty memtable.                                                          *)
FreezeRequested ==
    /\ waitingForFreezing = (freezeChan + (IF writer = "freeze" THEN 1 ELSE 0) = 1)
    /\ freezeChan + (IF writer = "freeze" THEN 1 ELSE 0) =< 1
    /\ size[active] > MemtableSize /\ nextMem < MaxMemtables => waitingForFreezing

(* A memtable that is over option.MemtableSize while another memtable may  *)
(* still be allocated is eventually replaced by FrozeMemtableLoop (or the   *)
(* process dies of a timeout first): the waitingForFreezing handshake       *)
(* between db.put and the freeze goroutine never loses a request.           *)
FreezeEventuallyHappens ==
    \A m \in MemIds :
        (active = m /\ size[m] > MemtableSize /\ nextMem < MaxMemtables)
            ~> (active # m \/ crashed)

(* Every frozen memtable eventually reaches level 0 (or the process dies):  *)
(* the refs taken by transactions are all cancelled, the collector moves it *)
(* to immutable and the flusher publishes it.                               *)
FrozenEventuallyFlushed ==
    \A m \in MemIds : (m \in Range(frozen)) ~> (m \in Flushed \/ crashed)

-----------------------------------------------------------------------------
(* Properties the spec states of the code and that the code breaks.        *)

Rows(ms) == UNION {mem[m] : m \in ms}

(* Spec section 3, invariant 3 (the optimistic row lock): at most one      *)
(* transaction has uncommitted rows of a key across the active and frozen  *)
(* memtables.  checkLockOnFrozenMemtables looks for the lock with a Get    *)
(* that resolves a Delete tombstone to nil, and SkipList.Set only looks at *)
(* the active memtable.                                                    *)
RowLockExclusive ==
    \A k \in Keys :
        Cardinality({r.trx : r \in {o \in Rows({active} \cup Range(frozen)) :
                                        o.key = k /\ o.trx # NoTrx}}) =< 1

(* Spec section 3, invariant 5: an SST holds only rows with trx_id = 0.    *)
(* A memtable is dumped once its refs are gone, so this needs every        *)
(* transaction with an uncommitted row in a memtable to keep its ref;      *)
(* checkLockOnFrozenMemtables's CancelRef after a wait drops it.           *)
UncommittedNeverFlushed ==
    \A i \in 1..Len(level0) : \A r \in level0[i].rows : r.trx = NoTrx

(* Spec section 3, invariant 6: the version's wal_offset never passes a    *)
(* WAL record that only an unflushed memtable holds, so recovery from      *)
(* wal_offset replays all of them.  dumpImmutableTables publishes the      *)
(* cursor recorded at the dumped memtable's freeze, and memtables reach    *)
(* immutable in the order their refs drain, not in freeze order.           *)
WalOffsetCoversUnflushed ==
    \A m \in Unflushed : versionWalOffset =< memStart[m]

(* Nobody waits on itself through a chain of waits: a transaction blocked  *)
(* in switchMemtableLock.RLock waits for the pending writer, a pending     *)
(* writer waits for the readers, and a transaction polling a row lock      *)
(* waits for the lock's owner.  Put polls the row lock while still holding *)
(* the read lock taken in checkLockOnFrozenMemtables.                      *)
Actors == Trx \cup Workers

WaitsFor(a, b) ==
    \/ a \in rwait /\ b = writer
    \/ a = writer /\ b \in readers
    \/ /\ a \in Trx
       /\ pc[a] \in {"fwait", "await"}
       /\ ~KeyCleared(waitOn[a])
       /\ b = waitOn[a].owner

WaitedOn(a) == {b \in Actors : WaitsFor(a, b)}

RECURSIVE WaitClosure(_, _)
WaitClosure(S, n) ==
    IF n = 0 THEN S
    ELSE WaitClosure(S \cup UNION {WaitedOn(x) : x \in S}, n - 1)

NoWaitCycle ==
    \A a \in Actors : a \notin WaitClosure(WaitedOn(a), Cardinality(Actors))

=============================================================================
