----------------------------- MODULE SplitCache -----------------------------
(***************************************************************************)
(* The split write-back cache (mofs_buffer_split.c): two LRU pools behind  *)
(* the interface of mofs_buffer.c.  Blocks below data_region_start are     *)
(* looked up, loaded and evicted in meta_pool, the others in data_pool.    *)
(*                                                                         *)
(* State, device and failures are those of BufferCache.  Slots up to       *)
(* NumMeta are meta_pool, the rest data_pool; the age of a slot is only    *)
(* compared with ages of its own pool.                                     *)
(***************************************************************************)
EXTENDS BufferCache

CONSTANTS NumMeta,    \* MOFS_META_CACHE_NUM
          DataStart   \* data_region_start of the mounted volume

ASSUME SplitAssumption == NumMeta \in 1 .. NumSlots - 1 /\ DataStart \in Nat

MetaSlots == 1 .. NumMeta

-----------------------------------------------------------------------------
(* Pool helpers.                                                           *)

\* Mutant: the first block of the data region is taken for metadata.
PoolOfEdge(b) == IF b <= DataStart THEN MetaSlots ELSE Slots \ MetaSlots

\* is_metadata_block selects the pool of block b.
PoolOf(b) == IF b < DataStart THEN MetaSlots ELSE Slots \ MetaSlots

\* pool_find
PoolFinds(i, b) == i \in PoolOf(b) /\ Finds(i, b)

PoolHolds(b) == \E i \in PoolOf(b) \cap valid : blk[i] = b

\* Mutant: the victim is the oldest slot of either pool.
PoolSelectsAny(i, b) == Selects(i)

\* pool_get_victim: the first empty slot of the pool, else its oldest.
PoolSelects(i, b) == LET pool_ == PoolOf(b) IN
    /\ i \in pool_
    /\ IF pool_ \subseteq valid THEN \A j \in pool_ : age[j] <= age[i]
       ELSE i \notin valid /\ \A j \in pool_ \ valid : i <= j

\* Mutant: a failed load leaves the slot marked valid for its old block.
PoolLoadFailsValid(i) == /\ cur' = Idle
                         /\ res' = Result("error", 0, {})
                         /\ dirty' = dirty \ {i}
                         /\ blk' = [blk EXCEPT ![i] = IF cur = Idle THEN @ ELSE cur.at]
                         /\ UNCHANGED <<valid, data, age, ready>>

\* pool_load_block: the victim is flushed and emptied, the raw read fails.
PoolLoadFails(i) == LoadFails(i)

-----------------------------------------------------------------------------
(* mofs_bcache_read_blocks, mofs_bcache_write_blocks,                      *)
(* mofs_bcache_modify_block                                                *)

PoolReadHit(i) == PoolFinds(i, cur.at) /\ ReadHit(i)

PoolReadMiss(i) == /\ ready /\ cur.op = "read"
                   /\ ~PoolHolds(cur.at) /\ PoolSelects(i, cur.at)
                   /\ \/ EvictionFails(i)
                      \/ Evicted(i) /\ PoolLoadFails(i)
                      \/ /\ Evicted(i)
                         /\ Fill(i, cur.at, disk[cur.at])
                         /\ dirty' = dirty \ {i}
                         /\ Advance
                         /\ res' = Result("read", cur.at, {disk[cur.at]})
                         /\ UNCHANGED ready

PoolWriteHit(i, c) == PoolFinds(i, cur.at) /\ WriteHit(i, c)

PoolWriteMiss(i, c) == /\ ready /\ cur.op = "write"
                       /\ ~PoolHolds(cur.at) /\ PoolSelects(i, cur.at)
                       /\ \/ EvictionFails(i)
                          \/ /\ Evicted(i)
                             /\ Fill(i, cur.at, c)
                             /\ dirty' = dirty \cup {i}
                             /\ Advance
                             /\ res' = Result("write", cur.at, {})
                             /\ UNCHANGED ready

PoolModifyHit(i, b, p, v) == PoolFinds(i, b) /\ ModifyHit(i, b, p, v)

PoolModifyMiss(i, b, p, v) == /\ ready /\ cur = Idle
                              /\ ~PoolHolds(b) /\ PoolSelects(i, b)
                              /\ \/ EvictionFails(i)
                                 \/ Evicted(i) /\ PoolLoadFails(i)
                                 \/ /\ Evicted(i)
                                    /\ Fill(i, b, Patch(disk[b], p, v))
                                    /\ dirty' = dirty \cup {i}
                                    /\ res' = Result("patch", b, {})
                                    /\ UNCHANGED <<ready, cur>>

\* Not ready: MOFS_EINVAL.
PoolModifyUnready == ModifyUnready

-----------------------------------------------------------------------------
(* mofs_bcache_flush, mofs_bcache_invalidate, mofs_bcache_init and _fini   *)

\* The flush begins with meta_pool; not ready, it returns 0 without a sync.
PoolFlushBegins == BeginFlush \/ FlushUnready

\* pool_flush_all on meta_pool, then on data_pool, the first failure ending
\* the call; then dev_fsync.
PoolFlush == FlushSlot \/ FlushSync

\* Only data_pool is searched: a metadata block is left as it is.
\* Not ready: 0, and nothing is cached.
PoolInvalidate(b) == /\ cur = Idle
                     /\ LET gone == {i \in Slots \ MetaSlots : ready /\ Finds(i, b)} IN
                        /\ valid' = valid \ gone
                        /\ dirty' = dirty \ gone
                     /\ res' = IF b < DataStart THEN NoResult ELSE Result("drop", b, {})
                     /\ UNCHANGED <<blk, data, age, ready, dev, cur>>

\* pool_alloc of both pools; when one fails, nothing is kept and nothing
\* has changed.
PoolInit == BcacheInit

\* pool_free of both pools, without a flush.
PoolFini == BcacheFini

-----------------------------------------------------------------------------
PoolStep(i) == \/ PoolReadHit(i) \/ PoolReadMiss(i)
               \/ \E c \in Contents : PoolWriteHit(i, c) \/ PoolWriteMiss(i, c)
               \/ \E b \in Blocks, p \in Parts, v \in Vals :
                     PoolModifyHit(i, b, p, v) \/ PoolModifyMiss(i, b, p, v)

SplitNext == \/ \E b \in Blocks, n \in 1 .. MaxReq : BeginRead(b, n) \/ BeginWrite(b, n)
             \/ \E i \in Slots : PoolStep(i)
             \/ ReadRaw
             \/ \E c \in Contents : WriteRaw(c)
             \/ PoolModifyUnready \/ PoolFlushBegins \/ PoolFlush
             \/ \E b \in Blocks : PoolInvalidate(b)
             \/ PoolInit \/ PoolFini
             \/ ProcessDies \/ PowerFails

SplitSpec == Init /\ [][SplitNext]_vars

-----------------------------------------------------------------------------
(* Properties.                                                             *)

\* Every cached block lies in the pool is_metadata_block sends its lookups
\* to, once: otherwise a lookup in the other pool would load a stale twin
\* from the device.
BlocksInOwnPool == \A i \in valid : /\ i \in MetaSlots <=> blk[i] < DataStart
                                    /\ \A j \in valid : blk[i] = blk[j] => i = j

\* Traffic on file data never takes a metadata block out of the cache,
\* however full data_pool is: the reason for having two pools.
DataSparesMeta == [][ \A i \in MetaSlots \cap valid :
      /\ ready /\ ready'
      /\ \/ cur.op \in {"read", "write"} /\ cur.at >= DataStart
         \/ cur = Idle /\ res'.op = "patch" /\ res'.blk >= DataStart
      => i \in valid' /\ blk'[i] = blk[i] /\ data'[i] = data[i] ]_vars

\* The two pools with their failures implement the same block store as the
\* unified cache does.
SplitImplementsBlockStore == Store!Spec
=============================================================================
