---------------------------- MODULE BufferCache -----------------------------
(***************************************************************************)
(* The unified write-back LRU buffer cache (mofs_buffer.c) over a block    *)
(* device whose reads and writes can fail and whose own write cache is     *)
(* emptied by dev_fsync.                                                   *)
(*                                                                         *)
(* The cache mutex serialises the operations, so one operation is in       *)
(* progress at a time (cur); an iteration of its loop is one step, and the *)
(* process or the power can fail between any two steps.  Ticks are         *)
(* abstracted to what LRU selection reads off them: age[i] counts the      *)
(* slots touched after slot i.                                             *)
(***************************************************************************)
EXTENDS Integers

CONSTANTS NumSlots,   \* MOFS_BUFFER_CACHE_NUM
          NumBlocks,  \* blocks of the device
          MaxReq,     \* bound: largest req_blk_num of one call
          Parts,      \* the byte ranges of a block modify_block tells apart
          Vals        \* what one part can hold

ASSUME SizesAssumption == /\ NumSlots \in Nat \ {0}
                          /\ NumBlocks \in Nat \ {0}
                          /\ MaxReq \in Nat \ {0}
                          /\ 0 \in Vals

Slots    == 1 .. NumSlots
Blocks   == 0 .. (NumBlocks - 1)
Contents == [Parts -> Vals]

VARIABLES valid, dirty,   \* the slots whose flag is set
          blk, data, age, \* per slot: block number, contents, LRU age
          ready,          \* bcache_ready
          disk,           \* disk[b]: what a raw read of b returns
          stable,         \* stable[b][p]: what part p may hold after power loss
          cur,            \* the operation holding the mutex
          res             \* what the last step reported to the caller

pool == <<valid, dirty, blk, data, age>>
dev  == <<disk, stable>>
vars == <<valid, dirty, blk, data, age, ready, disk, stable, cur, res>>

\* at is the loop variable of the operation, end its bound.
Idle == [op |-> "idle", at |-> 0, end |-> 0]
Call(op, from, to) == [op |-> op, at |-> from, end |-> to]

NoResult == [op |-> "none", blk |-> 0, data |-> {}]
Result(op, b, cs) == [op |-> op, blk |-> b, data |-> cs]

\* The buffer of an invalid slot is never read; a fresh one stands for any.
FreshData == [i \in Slots |-> [p \in Parts |-> 0]]
FreshBlk  == [i \in Slots |-> 0]
FreshAge  == [i \in Slots |-> NumSlots - i]

Init == /\ valid = {} /\ dirty = {}
        /\ blk = FreshBlk /\ data = FreshData /\ age = FreshAge
        /\ ready = FALSE
        /\ disk \in [Blocks -> Contents]
        /\ stable = [b \in Blocks |-> [p \in Parts |-> {disk[b][p]}]]
        /\ cur = Idle
        /\ res = NoResult

-----------------------------------------------------------------------------
(* The device.                                                             *)

\* A raw write of block b leaves it holding d.
DevHolds(b, d) ==
    /\ disk' = [disk EXCEPT ![b] = d]
    /\ stable' = [stable EXCEPT ![b] = [p \in Parts |-> stable[b][p] \cup {d[p]}]]

\* A failed or short raw write of c leaves each part old or new.
Torn(b, c) == {d \in Contents : \A p \in Parts : d[p] \in {disk[b][p], c[p]}}

-----------------------------------------------------------------------------
(* Pool helpers.                                                           *)

\* No slot is valid; the buffers are allocated or freed.
Emptied == /\ valid' = {} /\ dirty' = {}
           /\ blk' = FreshBlk /\ data' = FreshData /\ age' = FreshAge

\* bcache_touch: i becomes the youngest slot.
Touch(i) == age' = [j \in Slots |-> CASE j = i -> 0
                                      [] j # i /\ age[j] < age[i] -> age[j] + 1
                                      [] OTHER -> age[j]]

\* bcache_find returns slot i for block b.
Finds(i, b) == /\ i \in valid /\ blk[i] = b
               /\ \A j \in valid : blk[j] = b => i <= j

\* Mutant: a dirty slot is not recognised as holding the block.
CachedClean(b) == \E i \in valid \ dirty : blk[i] = b

Cached(b) == \E i \in valid : blk[i] = b

\* bcache_get_victim selects slot i: the first empty one, else the oldest.
Selects(i) == IF valid = Slots
              THEN \A j \in Slots : age[j] <= age[i]
              ELSE i \notin valid /\ \A j \in Slots \ valid : i <= j

MustFlush(i) == i \in valid /\ i \in dirty

\* Mutant: the victim is reused without being written back.
EvictedUnwritten(i) == UNCHANGED dev

\* bcache_flush_entry inside bcache_get_victim succeeds, or is not needed.
Evicted(i) == IF MustFlush(i) THEN DevHolds(blk[i], data[i]) ELSE UNCHANGED dev

\* Mutant: the dirty flag is cleared although the write failed.
EvictionFailsClean(i) == /\ MustFlush(i)
                         /\ \E d \in Torn(blk[i], data[i]) : DevHolds(blk[i], d)
                         /\ cur' = Idle
                         /\ res' = Result("error", 0, {})
                         /\ dirty' = dirty \ {i}
                         /\ UNCHANGED <<valid, blk, data, age, ready>>

\* The flush of the victim fails: the slot stays as it was, the call ends.
EvictionFails(i) == /\ MustFlush(i)
                    /\ \E d \in Torn(blk[i], data[i]) : DevHolds(blk[i], d)
                    /\ cur' = Idle
                    /\ res' = Result("error", 0, {})
                    /\ UNCHANGED <<pool, ready>>

\* Slot i is given block b with contents c.
Fill(i, b, c) == /\ valid' = valid \cup {i}
                 /\ blk' = [blk EXCEPT ![i] = b]
                 /\ data' = [data EXCEPT ![i] = c]
                 /\ Touch(i)

\* The slot was emptied for a load that failed or came back short (its
\* buffer is not read again before the next Fill).
LoadFails(i) == /\ valid' = valid \ {i} /\ dirty' = dirty \ {i}
                /\ cur' = Idle
                /\ res' = Result("error", 0, {})
                /\ UNCHANGED <<blk, data, age, ready>>

\* Mutant: the loop runs once too often.
AdvancePast == cur' = IF cur.at = cur.end THEN Idle ELSE [cur EXCEPT !.at = @ + 1]

\* One more block was served; the call returns after the last one.
Advance == cur' = IF cur.at + 1 = cur.end THEN Idle ELSE [cur EXCEPT !.at = @ + 1]

-----------------------------------------------------------------------------
(* mofs_bcache_read_blocks                                                 *)

BeginRead(b, n) == /\ cur = Idle
                   /\ b + n <= NumBlocks
                   /\ cur' = Call("read", b, b + n)
                   /\ res' = NoResult
                   /\ UNCHANGED <<pool, ready, dev>>

ReadHit(i) == /\ ready /\ cur.op = "read"
              /\ Finds(i, cur.at)
              /\ Touch(i)
              /\ Advance
              /\ res' = Result("read", cur.at, {data[i]})
              /\ UNCHANGED <<valid, dirty, blk, data, ready, dev>>

ReadMiss(i) == /\ ready /\ cur.op = "read"
               /\ ~Cached(cur.at) /\ Selects(i)
               /\ \/ EvictionFails(i)
                  \/ Evicted(i) /\ LoadFails(i)
                  \/ /\ Evicted(i)
                     /\ Fill(i, cur.at, disk[cur.at])
                     /\ dirty' = dirty \ {i}
                     /\ Advance
                     /\ res' = Result("read", cur.at, {disk[cur.at]})
                     /\ UNCHANGED ready

\* Not ready: read_continuous_blocks_raw.
ReadRaw == /\ ~ready /\ cur.op = "read"
           /\ \/ /\ Advance
                 /\ res' = Result("read", cur.at, {disk[cur.at]})
              \/ /\ cur' = Idle
                 /\ res' = Result("error", 0, {})
           /\ UNCHANGED <<pool, ready, dev>>

-----------------------------------------------------------------------------
(* mofs_bcache_write_blocks; c is the caller's next block.                 *)

BeginWrite(b, n) == /\ cur = Idle
                    /\ b + n <= NumBlocks
                    /\ cur' = Call("write", b, b + n)
                    /\ res' = NoResult
                    /\ UNCHANGED <<pool, ready, dev>>

WriteHit(i, c) == /\ ready /\ cur.op = "write"
                  /\ Finds(i, cur.at)
                  /\ Fill(i, cur.at, c)
                  /\ dirty' = dirty \cup {i}
                  /\ Advance
                  /\ res' = Result("write", cur.at, {})
                  /\ UNCHANGED <<ready, dev>>

WriteMiss(i, c) == /\ ready /\ cur.op = "write"
                   /\ ~Cached(cur.at) /\ Selects(i)
                   /\ \/ EvictionFails(i)
                      \/ /\ Evicted(i)
                         /\ Fill(i, cur.at, c)
                         /\ dirty' = dirty \cup {i}
                         /\ Advance
                         /\ res' = Result("write", cur.at, {})
                         /\ UNCHANGED ready

\* Not ready: write_continuous_blocks_raw.
WriteRaw(c) == /\ ~ready /\ cur.op = "write"
               /\ \/ /\ DevHolds(cur.at, c)
                     /\ Advance
                     /\ res' = Result("write", cur.at, {})
                  \/ /\ \E d \in Torn(cur.at, c) : DevHolds(cur.at, d)
                     /\ cur' = Idle
                     /\ res' = Result("werror", cur.at, {})
               /\ UNCHANGED <<pool, ready>>

-----------------------------------------------------------------------------
(* mofs_bcache_modify_block: v replaces part p of block b.                 *)

\* Mutant: the rest of the block is cleared.
PatchAlone(c, p, v) == [q \in Parts |-> IF q = p THEN v ELSE 0]

Patch(c, p, v) == [c EXCEPT ![p] = v]

ModifyHit(i, b, p, v) == /\ ready /\ cur = Idle
                         /\ Finds(i, b)
                         /\ Fill(i, b, Patch(data[i], p, v))
                         /\ dirty' = dirty \cup {i}
                         /\ res' = Result("patch", b, {})
                         /\ UNCHANGED <<ready, dev, cur>>

ModifyMiss(i, b, p, v) == /\ ready /\ cur = Idle
                          /\ ~Cached(b) /\ Selects(i)
                          /\ \/ EvictionFails(i)
                             \/ Evicted(i) /\ LoadFails(i)
                             \/ /\ Evicted(i)
                                /\ Fill(i, b, Patch(disk[b], p, v))
                                /\ dirty' = dirty \cup {i}
                                /\ res' = Result("patch", b, {})
                                /\ UNCHANGED <<ready, cur>>

\* Not ready: MOFS_EINVAL.
ModifyUnready == /\ ~ready /\ cur = Idle
                 /\ res' = Result("error", 0, {})
                 /\ UNCHANGED <<pool, ready, dev, cur>>

-----------------------------------------------------------------------------
(* mofs_bcache_flush                                                       *)

\* Not ready: the call returns 0 at once, without dev_fsync.
FlushUnready == /\ ~ready /\ cur = Idle
                /\ res' = Result("unsynced", 0, {})
                /\ UNCHANGED <<pool, ready, dev, cur>>

BeginFlush == /\ ready /\ cur = Idle
              /\ cur' = Call("flush", 1, NumSlots + 1)
              /\ res' = NoResult
              /\ UNCHANGED <<pool, ready, dev>>

\* Mutant: a written slot stays dirty.
FlushSlotDirty == LET i == cur.at IN
    /\ cur.op = "flush" /\ i # cur.end
    /\ IF MustFlush(i) THEN DevHolds(blk[i], data[i]) ELSE UNCHANGED dev
    /\ cur' = [cur EXCEPT !.at = @ + 1]
    /\ UNCHANGED <<pool, ready, res>>

\* bcache_flush_entry on the next slot, when it needs it.
FlushSlot == LET i == cur.at IN
    /\ cur.op = "flush" /\ i # cur.end
    /\ \/ /\ MustFlush(i)
          /\ DevHolds(blk[i], data[i])
          /\ dirty' = dirty \ {i}
          /\ cur' = [cur EXCEPT !.at = @ + 1]
          /\ UNCHANGED <<valid, blk, data, age, ready, res>>
       \/ EvictionFails(i)
       \/ /\ ~MustFlush(i)
          /\ cur' = [cur EXCEPT !.at = @ + 1]
          /\ UNCHANGED <<pool, ready, dev, res>>

\* Mutant: dev_fsync is not called, or its failure is ignored.
FlushSyncSkipped == /\ cur.op = "flush" /\ cur.at = cur.end
                    /\ cur' = Idle
                    /\ res' = Result("sync", 0, {})
                    /\ UNCHANGED <<pool, ready, dev>>

\* dev_fsync after the last slot.
FlushSync == /\ cur.op = "flush" /\ cur.at = cur.end
             /\ cur' = Idle
             /\ \/ /\ stable' = [b \in Blocks |-> [p \in Parts |-> {disk[b][p]}]]
                   /\ res' = Result("sync", 0, {})
                \/ /\ UNCHANGED stable
                   /\ res' = Result("error", 0, {})
             /\ UNCHANGED <<pool, ready, disk>>

-----------------------------------------------------------------------------
(* mofs_bcache_invalidate, mofs_bcache_init, mofs_bcache_fini              *)

\* Not ready: 0, and nothing is cached.
Invalidate(b) == /\ cur = Idle
                 /\ LET gone == {i \in valid : ready /\ Finds(i, b)} IN
                    /\ valid' = valid \ gone
                    /\ dirty' = dirty \ gone
                 /\ res' = Result("drop", b, {})
                 /\ UNCHANGED <<blk, data, age, ready, dev, cur>>

BcacheInit == /\ ~ready /\ cur = Idle
              /\ Emptied
              /\ ready' = TRUE
              /\ res' = NoResult
              /\ UNCHANGED <<dev, cur>>

BcacheFini == /\ ready /\ cur = Idle
              /\ Emptied
              /\ ready' = FALSE
              /\ res' = Result("fini", 0, {})
              /\ UNCHANGED <<dev, cur>>

-----------------------------------------------------------------------------
(* Failures of the environment: every volatile variable is lost.           *)

ProcessDies == /\ Emptied
               /\ ready' = FALSE
               /\ cur' = Idle
               /\ res' = Result("fini", 0, {})
               /\ UNCHANGED dev

PowerFails == /\ \E d \in [Blocks -> Contents] :
                    /\ \A b \in Blocks, p \in Parts : d[b][p] \in stable[b][p]
                    /\ disk' = d
                    /\ stable' = [b \in Blocks |-> [p \in Parts |-> {d[b][p]}]]
              /\ Emptied
              /\ ready' = FALSE
              /\ cur' = Idle
              /\ res' = NoResult

-----------------------------------------------------------------------------
SlotStep(i) == \/ ReadHit(i) \/ ReadMiss(i)
               \/ \E c \in Contents : WriteHit(i, c) \/ WriteMiss(i, c)
               \/ \E b \in Blocks, p \in Parts, v \in Vals :
                     ModifyHit(i, b, p, v) \/ ModifyMiss(i, b, p, v)

Next == \/ \E b \in Blocks, n \in 1 .. MaxReq : BeginRead(b, n) \/ BeginWrite(b, n)
        \/ \E i \in Slots : SlotStep(i)
        \/ ReadRaw
        \/ \E c \in Contents : WriteRaw(c)
        \/ BeginFlush \/ FlushSlot \/ FlushSync
        \/ ModifyUnready \/ FlushUnready
        \/ \E b \in Blocks : Invalidate(b)
        \/ BcacheInit \/ BcacheFini
        \/ ProcessDies \/ PowerFails

Spec == Init /\ [][Next]_vars

-----------------------------------------------------------------------------
(* Properties.                                                             *)

\* The contents a read of b returns, and what survives a loss.
Mem(b) == IF Cached(b) THEN data[CHOOSE i \in Slots : Finds(i, b)] ELSE disk[b]
May(b) == [p \in Parts |-> stable[b][p] \cup {Mem(b)[p]}]

Store == INSTANCE BlockStore WITH mem <- [b \in Blocks |-> Mem(b)],
                                  may <- [b \in Blocks |-> May(b)]

\* Type invariant of the cache, the device and the operation in progress.
TypeOK ==
    /\ valid \subseteq Slots /\ dirty \subseteq Slots
    /\ blk \in [Slots -> Blocks]
    /\ data \in [Slots -> Contents]
    /\ age \in [Slots -> Nat]
    /\ ready \in BOOLEAN
    /\ disk \in [Blocks -> Contents]
    /\ stable \in [Blocks -> [Parts -> SUBSET Vals]]
    /\ \/ cur = Idle
       \/ /\ cur \in [op : {"read", "write"}, at : Blocks, end : 0 .. NumBlocks]
          /\ cur.at < cur.end
       \/ /\ cur \in [op : {"flush"}, at : 1 .. NumSlots + 1, end : {NumSlots + 1}]
          /\ ready
    /\ res \in [op : {"none", "read", "write", "patch", "sync", "unsynced", "drop", "fini",
                      "error", "werror"},
                blk : Blocks, data : SUBSET Contents]

\* No block is cached in two slots: bcache_find always meets the only copy,
\* so no write, flush or invalidation can reach a stale twin
\* (bcache_find, bcache_get_victim).
NoDuplicateSlots == \A i, j \in valid : blk[i] = blk[j] => i = j

\* A valid slot that is not dirty agrees with the device, so evicting it
\* without a write (bcache_get_victim) or skipping it in a flush loses
\* nothing, whichever reads, writes and flushes failed before.
CleanMatchesDisk == \A i \in valid \ dirty : data[i] = disk[blk[i]]

\* The slots a flush has passed hold nothing unwritten, the device part of a
\* block is always among its survivors, and an unready cache is empty: what
\* the three properties around it need to be inductive.
FlushProgress ==
    /\ ~ready => valid = {}
    /\ \A b \in Blocks, p \in Parts : disk[b][p] \in stable[b][p]
    /\ cur.op = "flush" => /\ res.op = "none"
                           /\ \A i \in Slots : i < cur.at => ~MustFlush(i)

\* When mofs_bcache_flush of a ready cache returns 0, what every reader sees is
\* the only thing that can be found after a power failure: no dirty slot was
\* skipped and the device cache was emptied after the last write.  The flush of
\* an unready cache also returns 0 and syncs nothing: no contents are held back
\* in memory then, but raw writes can still be lost with the device's own cache.
SyncIsDurable ==
    /\ res.op = "sync" => \A b \in Blocks, p \in Parts : stable[b][p] = {Mem(b)[p]}
    /\ res.op = "unsynced" => \A b \in Blocks : Mem(b) = disk[b]

IInv == TypeOK /\ NoDuplicateSlots /\ CleanMatchesDisk /\ FlushProgress /\ SyncIsDurable

\* The cache with its failures implements the block store: reads return the
\* last written contents, a patch leaves the rest of its block, failed calls
\* change no contents, and losses are limited to what was written since the last
\* flush of a ready cache that returned 0.
ImplementsBlockStore == Store!Spec
=============================================================================
