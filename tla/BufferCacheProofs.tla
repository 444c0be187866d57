-------------------------- MODULE BufferCacheProofs -------------------------
(***************************************************************************)
(* Proofs about BufferCache for every number of slots, blocks, parts and   *)
(* values and for any replacement policy: the type invariant; an inductive *)
(* invariant from which no duplicate slots, clean slots agree with the     *)
(* device, and a successful flush is durable; and the refinement of        *)
(* BlockStore.  The same is then shown of SplitCache, for every size of    *)
(* its two pools and every place of the data region.                       *)
(***************************************************************************)
EXTENDS SplitCache, TLAPS

USE SizesAssumption

-----------------------------------------------------------------------------
(* The cache with any replacement policy.  What is proved here does not    *)
(* depend on which slot bcache_get_victim selects, so it is proved of the  *)
(* operations with an arbitrary victim; the unified cache takes the oldest *)
(* slot, and the split cache the oldest one of a pool (the last section).  *)

AnyReadMiss(i) == /\ ready /\ cur.op = "read"
                  /\ ~Cached(cur.at)
                  /\ \/ EvictionFails(i)
                     \/ Evicted(i) /\ LoadFails(i)
                     \/ /\ Evicted(i)
                        /\ Fill(i, cur.at, disk[cur.at])
                        /\ dirty' = dirty \ {i}
                        /\ Advance
                        /\ res' = Result("read", cur.at, {disk[cur.at]})
                        /\ UNCHANGED ready

AnyWriteMiss(i, c) == /\ ready /\ cur.op = "write"
                      /\ ~Cached(cur.at)
                      /\ \/ EvictionFails(i)
                         \/ /\ Evicted(i)
                            /\ Fill(i, cur.at, c)
                            /\ dirty' = dirty \cup {i}
                            /\ Advance
                            /\ res' = Result("write", cur.at, {})
                            /\ UNCHANGED ready

AnyModifyMiss(i, b, p, v) == /\ ready /\ cur = Idle
                             /\ ~Cached(b)
                             /\ \/ EvictionFails(i)
                                \/ Evicted(i) /\ LoadFails(i)
                                \/ /\ Evicted(i)
                                   /\ Fill(i, b, Patch(disk[b], p, v))
                                   /\ dirty' = dirty \cup {i}
                                   /\ res' = Result("patch", b, {})
                                   /\ UNCHANGED <<ready, cur>>

\* A call that finds nothing to do.
Ignored == cur = Idle /\ res' = NoResult /\ UNCHANGED <<pool, ready, dev, cur>>

AnySlotStep(i) == \/ ReadHit(i) \/ AnyReadMiss(i)
                  \/ \E c \in Contents : WriteHit(i, c) \/ AnyWriteMiss(i, c)
                  \/ \E b \in Blocks, p \in Parts, v \in Vals :
                        ModifyHit(i, b, p, v) \/ AnyModifyMiss(i, b, p, v)

AnyNext == \/ \E b \in Blocks, n \in 1 .. MaxReq : BeginRead(b, n) \/ BeginWrite(b, n)
           \/ \E i \in Slots : AnySlotStep(i)
           \/ ReadRaw
           \/ \E c \in Contents : WriteRaw(c)
           \/ BeginFlush \/ FlushSlot \/ FlushSync
           \/ ModifyUnready \/ FlushUnready
           \/ \E b \in Blocks : Invalidate(b)
           \/ Ignored
           \/ BcacheInit \/ BcacheFini
           \/ ProcessDies \/ PowerFails

\* LRU selection is one replacement policy.
LEMMA LruIsAny == Next => AnyNext
<1>1. \A i \in Slots : SlotStep(i) => AnySlotStep(i)
  BY DEF SlotStep, AnySlotStep, ReadMiss, AnyReadMiss, WriteMiss, AnyWriteMiss,
         ModifyMiss, AnyModifyMiss
<1> QED
  BY <1>1 DEF Next, AnyNext

-----------------------------------------------------------------------------

\* bcache_find, bcache_touch and bcache_get_victim only ever meet slots in
\* range: every action of the cache keeps the type invariant.
LEMMA TypeStep == TypeOK /\ [AnyNext]_vars => TypeOK'
<1> SUFFICES ASSUME TypeOK, [AnyNext]_vars PROVE TypeOK'
  OBVIOUS
<1> USE DEF TypeOK, Slots, Blocks, Contents, Idle, Call, NoResult, Result
<1>a. 0 \in Blocks
  OBVIOUS
<1>b. /\ FreshBlk \in [Slots -> Blocks]
      /\ FreshData \in [Slots -> Contents]
      /\ FreshAge \in [Slots -> Nat]
  BY DEF FreshBlk, FreshData, FreshAge
<1>c. ASSUME NEW i \in Slots, Touch(i) PROVE age' \in [Slots -> Nat]
  BY <1>c DEF Touch
<1>d. ASSUME NEW b \in Blocks, NEW d \in Contents, DevHolds(b, d)
      PROVE  /\ disk' \in [Blocks -> Contents]
             /\ stable' \in [Blocks -> [Parts -> SUBSET Vals]]
  BY <1>d DEF DevHolds
<1>e. ASSUME NEW i \in Slots, Evicted(i)
      PROVE  /\ disk' \in [Blocks -> Contents]
             /\ stable' \in [Blocks -> [Parts -> SUBSET Vals]]
  BY <1>d, <1>e, Zenon DEF Evicted, dev
<1>f. ASSUME NEW i \in Slots, EvictionFails(i) PROVE TypeOK'
  <2>1. PICK d \in Torn(blk[i], data[i]) : DevHolds(blk[i], d)
    BY <1>f DEF EvictionFails
  <2>2. d \in Contents
    BY DEF Torn
  <2>3. /\ disk' \in [Blocks -> Contents]
        /\ stable' \in [Blocks -> [Parts -> SUBSET Vals]]
    BY <2>1, <2>2, <1>d, Zenon
  <2> QED
    BY <1>f, <2>3, <1>a, Zenon DEF EvictionFails, pool
<1>g. ASSUME NEW i \in Slots, NEW b \in Blocks, NEW c \in Contents, Fill(i, b, c)
      PROVE  /\ valid' \subseteq Slots
             /\ blk' \in [Slots -> Blocks]
             /\ data' \in [Slots -> Contents]
             /\ age' \in [Slots -> Nat]
  BY <1>c, <1>g, Zenon DEF Fill
<1>h. ASSUME NEW i \in Slots, Evicted(i), LoadFails(i) PROVE TypeOK'
  BY <1>a, <1>e, <1>h, Zenon DEF LoadFails
<1>i. ASSUME cur.op \in {"read", "write"}
      PROVE  /\ cur.at \in Blocks
             /\ Advance => \/ cur' = Idle
                           \/ /\ cur' \in [op : {"read", "write"}, at : Blocks, end : 0 .. NumBlocks]
                              /\ cur'.at < cur'.end
  BY <1>i DEF Advance
<1>1. ASSUME NEW b \in Blocks, NEW n \in 1 .. MaxReq, BeginRead(b, n) PROVE TypeOK'
  <2>1. b + n \in 0 .. NumBlocks /\ b < b + n
    BY <1>1 DEF BeginRead
  <2>2. /\ cur' \in [op : {"read", "write"}, at : Blocks, end : 0 .. NumBlocks]
        /\ cur'.at < cur'.end
    BY <1>1, <2>1 DEF BeginRead
  <2>3. res' = NoResult /\ UNCHANGED <<pool, ready, dev>>
    BY <1>1 DEF BeginRead
  <2> QED
    BY <2>2, <2>3, <1>a, Zenon DEF pool, dev
<1>2. ASSUME NEW b \in Blocks, NEW n \in 1 .. MaxReq, BeginWrite(b, n) PROVE TypeOK'
  <2>1. b + n \in 0 .. NumBlocks /\ b < b + n
    BY <1>2 DEF BeginWrite
  <2>2. /\ cur' \in [op : {"read", "write"}, at : Blocks, end : 0 .. NumBlocks]
        /\ cur'.at < cur'.end
    BY <1>2, <2>1 DEF BeginWrite
  <2>3. res' = NoResult /\ UNCHANGED <<pool, ready, dev>>
    BY <1>2 DEF BeginWrite
  <2> QED
    BY <2>2, <2>3, <1>a, Zenon DEF pool, dev
<1>3. ASSUME NEW i \in Slots, ReadHit(i) PROVE TypeOK'
  BY <1>3, <1>c, <1>i, Zenon DEF ReadHit, dev, Finds
<1>4. ASSUME NEW i \in Slots, AnyReadMiss(i) PROVE TypeOK'
  <2>1. CASE EvictionFails(i)
    BY <2>1, <1>f, Zenon
  <2>2. CASE Evicted(i) /\ LoadFails(i)
    BY <2>2, <1>h, Zenon
  <2>3. CASE /\ Evicted(i)
             /\ Fill(i, cur.at, disk[cur.at])
             /\ dirty' = dirty \ {i}
             /\ Advance
             /\ res' = Result("read", cur.at, {disk[cur.at]})
             /\ UNCHANGED ready
    <3>1. cur.op = "read" /\ ready
      BY <1>4 DEF AnyReadMiss
    <3>2. cur.at \in Blocks /\ disk[cur.at] \in Contents
      BY <3>1, <1>i
    <3> QED
      BY <2>3, <3>1, <3>2, <1>e, <1>g, <1>i, Zenon
  <2> QED
    BY <1>4, <2>1, <2>2, <2>3, Zenon DEF AnyReadMiss
<1>5. CASE ReadRaw
  <2>1. cur.op = "read" /\ cur.at \in Blocks /\ {disk[cur.at]} \in SUBSET Contents
    BY <1>5, <1>i DEF ReadRaw
  <2>2. CASE Advance /\ res' = Result("read", cur.at, {disk[cur.at]})
    BY <1>5, <2>1, <2>2, <1>i, Zenon DEF ReadRaw, pool, dev
  <2>3. CASE cur' = Idle /\ res' = Result("error", 0, {})
    BY <1>5, <2>3, <1>a, Zenon DEF ReadRaw, pool, dev
  <2> QED
    BY <1>5, <2>2, <2>3, Zenon DEF ReadRaw
<1>6. ASSUME NEW i \in Slots, NEW c \in Contents, WriteHit(i, c) PROVE TypeOK'
  BY <1>6, <1>g, <1>i, Zenon DEF WriteHit, dev
<1>7. ASSUME NEW i \in Slots, NEW c \in Contents, AnyWriteMiss(i, c) PROVE TypeOK'
  <2>1. CASE EvictionFails(i)
    BY <2>1, <1>f, Zenon
  <2>2. CASE /\ Evicted(i)
             /\ Fill(i, cur.at, c)
             /\ dirty' = dirty \cup {i}
             /\ Advance
             /\ res' = Result("write", cur.at, {})
             /\ UNCHANGED ready
    BY <1>7, <2>2, <1>e, <1>g, <1>i, Zenon DEF AnyWriteMiss
  <2> QED
    BY <1>7, <2>1, <2>2, Zenon DEF AnyWriteMiss
<1>8. ASSUME NEW c \in Contents, WriteRaw(c) PROVE TypeOK'
  <2>1. cur.op = "write" /\ cur.at \in Blocks
    BY <1>8, <1>i DEF WriteRaw
  <2>2. /\ disk' \in [Blocks -> Contents]
        /\ stable' \in [Blocks -> [Parts -> SUBSET Vals]]
    BY <1>8, <2>1, <1>d DEF WriteRaw, Torn
  <2>3. UNCHANGED <<pool, ready>>
    BY <1>8 DEF WriteRaw
  <2>4. CASE Advance /\ res' = Result("write", cur.at, {})
    BY <2>1, <2>2, <2>3, <2>4, <1>i, Zenon DEF pool
  <2>5. CASE cur' = Idle /\ res' = Result("werror", cur.at, {})
    BY <2>1, <2>2, <2>3, <2>5, Zenon DEF pool
  <2> QED
    BY <1>8, <2>4, <2>5, Zenon DEF WriteRaw
<1>9. ASSUME NEW i \in Slots, NEW b \in Blocks, NEW p \in Parts, NEW v \in Vals,
             ModifyHit(i, b, p, v)
      PROVE  TypeOK'
  <2>1. Patch(data[i], p, v) \in Contents
    BY DEF Patch
  <2> QED
    BY <1>9, <2>1, <1>g, Zenon DEF ModifyHit, dev
<1>10. ASSUME NEW i \in Slots, NEW b \in Blocks, NEW p \in Parts, NEW v \in Vals,
              AnyModifyMiss(i, b, p, v)
       PROVE  TypeOK'
  <2>1. Patch(disk[b], p, v) \in Contents
    BY DEF Patch
  <2>2. CASE EvictionFails(i)
    BY <2>2, <1>f, Zenon
  <2>3. CASE Evicted(i) /\ LoadFails(i)
    BY <2>3, <1>h, Zenon
  <2>4. CASE /\ Evicted(i)
             /\ Fill(i, b, Patch(disk[b], p, v))
             /\ dirty' = dirty \cup {i}
             /\ res' = Result("patch", b, {})
             /\ UNCHANGED <<ready, cur>>
    BY <2>1, <2>4, <1>e, <1>g, Zenon
  <2> QED
    BY <1>10, <2>2, <2>3, <2>4, Zenon DEF AnyModifyMiss
<1>11. CASE BeginFlush
  BY <1>11, <1>a DEF BeginFlush, pool, dev
<1>12. CASE FlushSlot
  <2>1. cur.op = "flush" /\ cur.at # cur.end
    BY <1>12 DEF FlushSlot
  <2>a. cur \in [op : {"flush"}, at : 1 .. NumSlots + 1, end : {NumSlots + 1}] /\ ready
    BY <2>1
  <2>b. cur.at \in Slots /\ cur.at + 1 \in 1 .. NumSlots + 1
    BY <2>a, <2>1
  <2>2. /\ cur.at \in Slots /\ ready
        /\ [cur EXCEPT !.at = @ + 1]
             \in [op : {"flush"}, at : 1 .. NumSlots + 1, end : {NumSlots + 1}]
    BY <2>a, <2>b, Zenon
  <2>3. CASE EvictionFails(cur.at)
    BY <2>2, <2>3, <1>f, Zenon
  <2>4. CASE /\ MustFlush(cur.at)
             /\ DevHolds(blk[cur.at], data[cur.at])
             /\ dirty' = dirty \ {cur.at}
             /\ cur' = [cur EXCEPT !.at = @ + 1]
             /\ UNCHANGED <<valid, blk, data, age, ready, res>>
    BY <2>2, <2>4, <1>d, Zenon
  <2>5. CASE /\ cur' = [cur EXCEPT !.at = @ + 1]
             /\ UNCHANGED <<pool, ready, dev, res>>
    BY <2>2, <2>5, Zenon DEF pool, dev
  <2> QED
    BY <1>12, <2>3, <2>4, <2>5, Zenon DEF FlushSlot
<1>13. CASE FlushSync
  <2>1. res' \in [op : {"sync", "error"}, blk : Blocks, data : SUBSET Contents]
    BY <1>13, <1>a DEF FlushSync
  <2>2. stable' \in [Blocks -> [Parts -> SUBSET Vals]]
    BY <1>13 DEF FlushSync
  <2>3. cur' = Idle /\ UNCHANGED <<valid, dirty, blk, data, age, ready, disk>>
    BY <1>13, Zenon DEF FlushSync, pool
  <2> QED
    BY <2>1, <2>2, <2>3
<1>14. ASSUME NEW b \in Blocks, Invalidate(b) PROVE TypeOK'
  BY <1>14, Zenon DEF Invalidate, dev
<1>15. CASE BcacheInit \/ BcacheFini
  <2>1. CASE BcacheInit
    BY <2>1, <1>a, <1>b, Zenon DEF BcacheInit, Emptied, dev
  <2>2. CASE BcacheFini
    BY <2>2, <1>a, <1>b, Zenon DEF BcacheFini, Emptied, dev
  <2> QED
    BY <1>15, <2>1, <2>2, Zenon
<1>16. CASE ProcessDies
  BY <1>16, <1>a, <1>b, Zenon DEF ProcessDies, Emptied, dev
<1>17. CASE PowerFails
  <2>1. PICK d \in [Blocks -> Contents] :
            /\ disk' = d
            /\ stable' = [b \in Blocks |-> [p \in Parts |-> {d[b][p]}]]
    BY <1>17 DEF PowerFails
  <2>2. stable' \in [Blocks -> [Parts -> SUBSET Vals]]
    BY <2>1
  <2> QED
    BY <1>17, <2>1, <2>2, <1>a, <1>b, Zenon DEF PowerFails, Emptied
<1>18. CASE Ignored
  BY <1>18, <1>a, Zenon DEF Ignored, pool, dev
<1>19. CASE UNCHANGED vars
  BY <1>19, Zenon DEF vars
<1>20. CASE ModifyUnready \/ FlushUnready
  <2>1. CASE ModifyUnready
    BY <2>1, <1>a, Zenon DEF ModifyUnready, pool, dev
  <2>2. CASE FlushUnready
    BY <2>2, <1>a, Zenon DEF FlushUnready, pool, dev
  <2> QED
    BY <1>20, <2>1, <2>2, Zenon
<1> QED
  BY <1>1, <1>2, <1>3, <1>4, <1>5, <1>6, <1>7, <1>8, <1>9, <1>10, <1>11, <1>12,
     <1>13, <1>14, <1>15, <1>16, <1>17, <1>18, <1>19, <1>20, Zenon DEF AnyNext, AnySlotStep

\* The cache starts out well typed: no slot is valid before mofs_bcache_init.
LEMMA TypeInit == Init => TypeOK
<1> SUFFICES ASSUME Init PROVE TypeOK
  OBVIOUS
<1>1. stable \in [Blocks -> [Parts -> SUBSET Vals]]
  BY DEF Init, Contents
<1>2. 0 \in Blocks
  BY DEF Blocks
<1>3. FreshBlk \in [Slots -> Blocks] /\ FreshAge \in [Slots -> Nat]
  BY <1>2 DEF FreshBlk, FreshAge, Slots
<1>4. FreshData \in [Slots -> Contents]
  BY DEF FreshData, Contents
<1>5. res \in [op : {"none", "read", "write", "sync", "drop", "fini", "error", "werror"},
              blk : Blocks, data : SUBSET Contents]
  BY <1>2 DEF Init, NoResult
<1> QED
  BY <1>1, <1>3, <1>4, <1>5, Zenon DEF Init, TypeOK

\* Type correctness of mofs_buffer.c's state in every reachable state.
THEOREM TypeCorrect == Spec => []TypeOK
BY TypeInit, TypeStep, LruIsAny, PTL DEF Spec

-----------------------------------------------------------------------------
\* A raw write of block b disturbs no slot of another block: what
\* bcache_flush_entry does to the device keeps clean slots clean.
LEMMA DeviceWrite ==
    ASSUME TypeOK, NoDuplicateSlots, CleanMatchesDisk,
           NEW i \in Slots, MustFlush(i), NEW d \in Contents, DevHolds(blk[i], d)
    PROVE  /\ \A j \in valid \ dirty : data[j] = disk'[blk[j]]
           /\ d = data[i] => data[i] = disk'[blk[i]]
           /\ \A b \in Blocks : b # blk[i] => disk'[b] = disk[b]
BY DEF TypeOK, NoDuplicateSlots, CleanMatchesDisk, MustFlush, DevHolds

\* The device contents stay among the survivors across a raw write.
LEMMA SurvivorsGrow ==
    ASSUME TypeOK, NEW b \in Blocks, NEW d \in Contents, DevHolds(b, d),
           \A x \in Blocks, p \in Parts : disk[x][p] \in stable[x][p]
    PROVE  \A x \in Blocks, p \in Parts : disk'[x][p] \in stable'[x][p]
BY DEF TypeOK, DevHolds, Contents

\* What an eviction that succeeded, or was not needed, leaves behind.
LEMMA EvictedKeeps ==
    ASSUME TypeOK, NoDuplicateSlots, CleanMatchesDisk, FlushProgress,
           NEW i \in Slots, Evicted(i)
    PROVE  /\ \A j \in valid \ dirty : data[j] = disk'[blk[j]]
           /\ \A b \in Blocks : ~Cached(b) => disk'[b] = disk[b]
           /\ \A x \in Blocks, p \in Parts : disk'[x][p] \in stable'[x][p]
<1>1. CASE MustFlush(i)
  <2>1. DevHolds(blk[i], data[i]) /\ blk[i] \in Blocks /\ data[i] \in Contents /\ i \in valid
    BY <1>1 DEF Evicted, TypeOK, MustFlush
  <2>2. \A b \in Blocks : ~Cached(b) => b # blk[i]
    BY <2>1 DEF Cached
  <2> QED
    BY <1>1, <2>1, <2>2, DeviceWrite, SurvivorsGrow DEF FlushProgress
<1>2. CASE ~MustFlush(i)
  BY <1>2 DEF Evicted, dev, CleanMatchesDisk, FlushProgress
<1> QED
  BY <1>1, <1>2

\* A failed flush of one slot, whatever it tore on the device, breaks nothing.
LEMMA EvictionFailsKeeps ==
    ASSUME TypeOK, NoDuplicateSlots, CleanMatchesDisk, FlushProgress,
           NEW i \in Slots, EvictionFails(i)
    PROVE  NoDuplicateSlots' /\ CleanMatchesDisk' /\ FlushProgress' /\ SyncIsDurable'
<1>1. PICK d \in Torn(blk[i], data[i]) : DevHolds(blk[i], d)
  BY DEF EvictionFails
<1>2. d \in Contents /\ MustFlush(i) /\ blk[i] \in Blocks
  BY DEF Torn, EvictionFails, TypeOK
<1>3. CleanMatchesDisk'
  BY <1>1, <1>2, DeviceWrite DEF EvictionFails, pool, CleanMatchesDisk
<1>4. FlushProgress'
  BY <1>1, <1>2, SurvivorsGrow DEF EvictionFails, pool, FlushProgress, Idle
<1> QED
  BY <1>3, <1>4 DEF EvictionFails, pool, NoDuplicateSlots, SyncIsDurable, Result

\* A block is given a slot only when it had none, or keeps the one it has.
LEMMA FillKeepsUnique ==
    ASSUME TypeOK, NoDuplicateSlots, NEW i \in Slots, NEW b \in Blocks,
           NEW c \in Contents, Fill(i, b, c), Finds(i, b) \/ ~Cached(b)
    PROVE  NoDuplicateSlots'
BY DEF TypeOK, NoDuplicateSlots, Fill, Finds, Cached

\* The slot of the evicted block is refilled, by a load or by a write.
LEMMA RefillKeeps ==
    ASSUME TypeOK, NoDuplicateSlots, CleanMatchesDisk, FlushProgress, ready,
           cur.op # "flush",
           NEW i \in Slots, NEW b \in Blocks, NEW c \in Contents,
           Evicted(i), Fill(i, b, c), ~Cached(b), UNCHANGED ready,
           \/ dirty' = dirty \ {i} /\ c = disk[b]
           \/ dirty' = dirty \cup {i},
           cur' = cur \/ Advance
    PROVE  NoDuplicateSlots' /\ CleanMatchesDisk' /\ FlushProgress'
<1>1. NoDuplicateSlots'
  BY FillKeepsUnique
<1>2. CleanMatchesDisk'
  BY EvictedKeeps DEF TypeOK, CleanMatchesDisk, Fill
<1>3. cur'.op # "flush"
  BY DEF Advance, TypeOK, Idle
<1> QED
  BY <1>1, <1>2, <1>3, EvictedKeeps DEF FlushProgress

\* The slot of the evicted block stays empty because its load failed.
LEMMA LoadFailsKeeps ==
    ASSUME TypeOK, NoDuplicateSlots, CleanMatchesDisk, FlushProgress, ready,
           NEW i \in Slots, Evicted(i), LoadFails(i)
    PROVE  NoDuplicateSlots' /\ CleanMatchesDisk' /\ FlushProgress' /\ SyncIsDurable'
BY EvictedKeeps DEF LoadFails, NoDuplicateSlots, CleanMatchesDisk, FlushProgress,
                    SyncIsDurable, Idle, Result

\* Without unwritten slots every reader sees the device.
LEMMA AllCleanSeesDisk ==
    ASSUME TypeOK, NoDuplicateSlots, CleanMatchesDisk,
           \A i \in Slots : ~MustFlush(i), NEW b \in Blocks
    PROVE  Mem(b) = disk[b]
<1>1. CASE Cached(b)
  <2>1. PICK i \in Slots : Finds(i, b)
    BY <1>1 DEF Cached, Finds, NoDuplicateSlots, TypeOK, Slots
  <2>2. Finds(CHOOSE j \in Slots : Finds(j, b), b)
    BY <2>1
  <2> DEFINE k == CHOOSE j \in Slots : Finds(j, b)
  <2>3. k \in valid \ dirty /\ blk[k] = b
    BY <2>2 DEF Finds, MustFlush, TypeOK
  <2> QED
    BY <1>1, <2>3 DEF Mem, CleanMatchesDisk
<1>2. CASE ~Cached(b)
  BY <1>2 DEF Mem
<1> QED
  BY <1>1, <1>2

\* Every step keeps the inductive invariant, one case per operation of
\* mofs_buffer.c and per failure of its environment.
LEMMA InvStep == IInv /\ [AnyNext]_vars => IInv'
<1> SUFFICES ASSUME IInv, [AnyNext]_vars PROVE IInv'
  OBVIOUS
<1>t. TypeOK /\ TypeOK'
  BY TypeStep DEF IInv
<1>i. NoDuplicateSlots /\ CleanMatchesDisk /\ FlushProgress /\ SyncIsDurable
  BY DEF IInv
<1> SUFFICES NoDuplicateSlots' /\ CleanMatchesDisk' /\ FlushProgress' /\ SyncIsDurable'
  BY <1>t DEF IInv
<1>a. ASSUME NEW b \in Blocks, NEW n \in 1 .. MaxReq, BeginRead(b, n) \/ BeginWrite(b, n)
      PROVE  NoDuplicateSlots' /\ CleanMatchesDisk' /\ FlushProgress' /\ SyncIsDurable'
  BY <1>a, <1>i DEF BeginRead, BeginWrite, pool, dev, Call, NoResult, NoDuplicateSlots,
     CleanMatchesDisk, FlushProgress, MustFlush, SyncIsDurable
<1>b. ASSUME NEW i \in Slots, ReadHit(i)
      PROVE  NoDuplicateSlots' /\ CleanMatchesDisk' /\ FlushProgress' /\ SyncIsDurable'
  <2>1. cur'.op # "flush"
    BY <1>b DEF ReadHit, Advance, Idle
  <2> QED
    BY <1>b, <1>i, <2>1 DEF ReadHit, dev, Result, NoDuplicateSlots, CleanMatchesDisk,
       FlushProgress, SyncIsDurable
<1>c. ASSUME NEW i \in Slots, AnyReadMiss(i)
      PROVE  NoDuplicateSlots' /\ CleanMatchesDisk' /\ FlushProgress' /\ SyncIsDurable'
  <2>1. ready /\ cur.op = "read" /\ ~Cached(cur.at) /\ cur.at \in Blocks
    BY <1>c, <1>t DEF AnyReadMiss, TypeOK, Idle
  <2>2. CASE EvictionFails(i)
    BY <1>t, <1>i, <2>2, EvictionFailsKeeps
  <2>3. CASE Evicted(i) /\ LoadFails(i)
    BY <1>t, <1>i, <2>1, <2>3, LoadFailsKeeps
  <2>4. CASE /\ Evicted(i)
             /\ Fill(i, cur.at, disk[cur.at])
             /\ dirty' = dirty \ {i}
             /\ Advance
             /\ res' = Result("read", cur.at, {disk[cur.at]})
             /\ UNCHANGED ready
    <3>1. disk[cur.at] \in Contents
      BY <1>t, <2>1 DEF TypeOK
    <3>2. NoDuplicateSlots' /\ CleanMatchesDisk' /\ FlushProgress'
      BY <1>t, <1>i, <2>1, <2>4, <3>1, RefillKeeps
    <3> QED
      BY <2>4, <3>2 DEF SyncIsDurable, Result
  <2> QED
    BY <1>c, <2>2, <2>3, <2>4, Zenon DEF AnyReadMiss
<1>d. CASE ReadRaw
  <2>1. cur'.op # "flush" /\ res'.op \notin {"sync", "unsynced"}
    BY <1>d, <1>t DEF ReadRaw, Advance, Idle, Result, TypeOK
  <2> QED
    BY <1>d, <1>i, <2>1 DEF ReadRaw, pool, dev, NoDuplicateSlots, CleanMatchesDisk,
       FlushProgress, SyncIsDurable
<1>e. ASSUME NEW i \in Slots, NEW c \in Contents, WriteHit(i, c)
      PROVE  NoDuplicateSlots' /\ CleanMatchesDisk' /\ FlushProgress' /\ SyncIsDurable'
  <2>1. ready /\ Finds(i, cur.at) /\ cur.at \in Blocks /\ Fill(i, cur.at, c)
    BY <1>e, <1>t DEF WriteHit, TypeOK, Idle
  <2>2. NoDuplicateSlots'
    BY <1>t, <1>i, <2>1, FillKeepsUnique
  <2>3. cur'.op # "flush" /\ res'.op \notin {"sync", "unsynced"}
    BY <1>e DEF WriteHit, Advance, Idle, Result
  <2>4. CleanMatchesDisk'
    BY <1>e, <1>t, <1>i, <2>1 DEF WriteHit, Fill, dev, CleanMatchesDisk, TypeOK, Finds
  <2> QED
    BY <1>e, <1>i, <2>2, <2>3, <2>4 DEF WriteHit, dev, FlushProgress, SyncIsDurable
<1>f. ASSUME NEW i \in Slots, NEW c \in Contents, AnyWriteMiss(i, c)
      PROVE  NoDuplicateSlots' /\ CleanMatchesDisk' /\ FlushProgress' /\ SyncIsDurable'
  <2>1. ready /\ cur.op = "write" /\ ~Cached(cur.at) /\ cur.at \in Blocks
    BY <1>f, <1>t DEF AnyWriteMiss, TypeOK, Idle
  <2>2. CASE EvictionFails(i)
    BY <1>t, <1>i, <2>2, EvictionFailsKeeps
  <2>3. CASE /\ Evicted(i)
             /\ Fill(i, cur.at, c)
             /\ dirty' = dirty \cup {i}
             /\ Advance
             /\ res' = Result("write", cur.at, {})
             /\ UNCHANGED ready
    <3>1. NoDuplicateSlots' /\ CleanMatchesDisk' /\ FlushProgress'
      BY <1>t, <1>i, <2>1, <2>3, RefillKeeps
    <3> QED
      BY <2>3, <3>1 DEF SyncIsDurable, Result
  <2> QED
    BY <1>f, <2>2, <2>3, Zenon DEF AnyWriteMiss
<1>g. ASSUME NEW c \in Contents, WriteRaw(c)
      PROVE  NoDuplicateSlots' /\ CleanMatchesDisk' /\ FlushProgress' /\ SyncIsDurable'
  <2>1. cur.op = "write" /\ cur.at \in Blocks /\ ~ready /\ valid = {}
    BY <1>g, <1>t, <1>i DEF WriteRaw, TypeOK, FlushProgress, Idle
  <2>2. PICK d \in Contents : DevHolds(cur.at, d)
    BY <1>g DEF WriteRaw, Torn
  <2>3. \A x \in Blocks, p \in Parts : disk'[x][p] \in stable'[x][p]
    BY <1>t, <1>i, <2>1, <2>2, SurvivorsGrow DEF FlushProgress
  <2>4. cur'.op # "flush" /\ res'.op \notin {"sync", "unsynced"}
    BY <1>g, <1>t DEF WriteRaw, Advance, Idle, Result, TypeOK
  <2> QED
    BY <1>g, <2>1, <2>3, <2>4 DEF WriteRaw, pool, NoDuplicateSlots, CleanMatchesDisk,
       FlushProgress, SyncIsDurable
<1>h. ASSUME NEW i \in Slots, NEW b \in Blocks, NEW p \in Parts, NEW v \in Vals,
             ModifyHit(i, b, p, v)
      PROVE  NoDuplicateSlots' /\ CleanMatchesDisk' /\ FlushProgress' /\ SyncIsDurable'
  <2>1. Patch(data[i], p, v) \in Contents
    BY <1>t DEF Patch, TypeOK, Contents
  <2>2. ready /\ Finds(i, b) /\ Fill(i, b, Patch(data[i], p, v))
    BY <1>h DEF ModifyHit
  <2>3. NoDuplicateSlots'
    BY <1>t, <1>i, <2>1, <2>2, FillKeepsUnique
  <2>4. CleanMatchesDisk'
    BY <1>h, <1>t, <1>i, <2>2 DEF ModifyHit, Fill, dev, CleanMatchesDisk, TypeOK, Finds
  <2> QED
    BY <1>h, <1>i, <2>3, <2>4, Zenon DEF ModifyHit, dev, FlushProgress, SyncIsDurable, Idle, Result
<1>k. ASSUME NEW i \in Slots, NEW b \in Blocks, NEW p \in Parts, NEW v \in Vals,
             AnyModifyMiss(i, b, p, v)
      PROVE  NoDuplicateSlots' /\ CleanMatchesDisk' /\ FlushProgress' /\ SyncIsDurable'
  <2>1. Patch(disk[b], p, v) \in Contents
    BY <1>t DEF Patch, TypeOK, Contents
  <2>2. ready /\ cur.op # "flush" /\ ~Cached(b)
    BY <1>k DEF AnyModifyMiss, Idle
  <2>3. CASE EvictionFails(i)
    BY <1>t, <1>i, <2>3, EvictionFailsKeeps
  <2>4. CASE Evicted(i) /\ LoadFails(i)
    BY <1>t, <1>i, <2>2, <2>4, LoadFailsKeeps
  <2>5. CASE /\ Evicted(i)
             /\ Fill(i, b, Patch(disk[b], p, v))
             /\ dirty' = dirty \cup {i}
             /\ res' = Result("patch", b, {})
             /\ UNCHANGED <<ready, cur>>
    <3>1. NoDuplicateSlots' /\ CleanMatchesDisk' /\ FlushProgress'
      BY <1>t, <1>i, <2>1, <2>2, <2>5, RefillKeeps
    <3> QED
      BY <2>5, <3>1 DEF SyncIsDurable, Result
  <2> QED
    BY <1>k, <2>3, <2>4, <2>5, Zenon DEF AnyModifyMiss
<1>l. CASE BeginFlush
  BY <1>l, <1>i DEF BeginFlush, pool, dev, Call, NoResult, NoDuplicateSlots, CleanMatchesDisk,
     FlushProgress, SyncIsDurable, Slots
<1>m. CASE FlushSlot
  <2>1. /\ cur.op = "flush" /\ cur.at # cur.end /\ res.op = "none"
        /\ cur.at \in Slots /\ ready
    BY <1>m, <1>t, <1>i DEF FlushSlot, TypeOK, FlushProgress, Slots, Idle
  <2>2. CASE EvictionFails(cur.at)
    BY <1>t, <1>i, <2>1, <2>2, EvictionFailsKeeps
  <2>3. CASE /\ MustFlush(cur.at)
             /\ DevHolds(blk[cur.at], data[cur.at])
             /\ dirty' = dirty \ {cur.at}
             /\ cur' = [cur EXCEPT !.at = @ + 1]
             /\ UNCHANGED <<valid, blk, data, age, ready, res>>
    <3>1. data[cur.at] \in Contents /\ blk[cur.at] \in Blocks
      BY <1>t, <2>1 DEF TypeOK
    <3>2. CleanMatchesDisk'
      BY <1>t, <1>i, <2>1, <2>3, <3>1, DeviceWrite DEF CleanMatchesDisk
    <3>3. \A x \in Blocks, p \in Parts : disk'[x][p] \in stable'[x][p]
      BY <1>t, <1>i, <2>3, <3>1, SurvivorsGrow DEF FlushProgress
    <3>4. \A i \in Slots : i < cur'.at => ~MustFlush(i)'
      BY <1>t, <1>i, <2>1, <2>3 DEF FlushProgress, MustFlush, TypeOK, Slots, Idle
    <3> QED
      BY <1>i, <2>1, <2>3, <3>2, <3>3, <3>4
         DEF NoDuplicateSlots, FlushProgress, SyncIsDurable
  <2>4. CASE /\ ~MustFlush(cur.at)
             /\ cur' = [cur EXCEPT !.at = @ + 1]
             /\ UNCHANGED <<pool, ready, dev, res>>
    <3>1. \A i \in Slots : i < cur'.at => ~MustFlush(i)'
      BY <1>t, <1>i, <2>1, <2>4 DEF FlushProgress, MustFlush, TypeOK, Slots, pool, Idle
    <3> QED
      BY <1>i, <2>1, <2>4, <3>1
         DEF pool, dev, NoDuplicateSlots, CleanMatchesDisk, FlushProgress, SyncIsDurable
  <2> QED
    BY <1>m, <2>2, <2>3, <2>4 DEF FlushSlot
<1>n. CASE FlushSync
  <2>1. \A i \in Slots : ~MustFlush(i)
    BY <1>n, <1>t, <1>i DEF FlushSync, TypeOK, FlushProgress, Slots, Idle
  <2>2. NoDuplicateSlots' /\ CleanMatchesDisk' /\ \A i \in Slots : ~MustFlush(i)'
    BY <1>n, <1>i, <2>1 DEF FlushSync, pool, NoDuplicateSlots, CleanMatchesDisk, MustFlush
  <2>3. \A b \in Blocks : Mem(b)' = disk'[b]
    <3> SUFFICES ASSUME NEW b \in Blocks PROVE Mem(b)' = disk'[b]
      OBVIOUS
    <3>1. Mem(b)' = Mem(b) /\ disk' = disk
      BY <1>n DEF FlushSync, pool, Mem, Cached, Finds
    <3> QED
      BY <1>t, <1>i, <2>1, <3>1, AllCleanSeesDisk
  <2>4. CASE stable' = [b \in Blocks |-> [p \in Parts |-> {disk[b][p]}]]
    BY <1>n, <1>i, <2>2, <2>3, <2>4 DEF FlushSync, pool, FlushProgress, SyncIsDurable, Idle
  <2>5. CASE UNCHANGED stable /\ res' = Result("error", 0, {})
    BY <1>n, <1>i, <2>2, <2>5 DEF FlushSync, pool, FlushProgress, SyncIsDurable, Idle, Result
  <2> QED
    BY <1>n, <2>4, <2>5 DEF FlushSync
<1>o. ASSUME NEW b \in Blocks, Invalidate(b)
      PROVE  NoDuplicateSlots' /\ CleanMatchesDisk' /\ FlushProgress' /\ SyncIsDurable'
  BY <1>o, <1>i DEF Invalidate, dev, NoDuplicateSlots, CleanMatchesDisk, FlushProgress,
     SyncIsDurable, Idle, Result
<1>p. CASE BcacheInit \/ BcacheFini \/ ProcessDies
  BY <1>p, <1>i DEF BcacheInit, BcacheFini, ProcessDies, Emptied, dev, NoDuplicateSlots,
     CleanMatchesDisk, FlushProgress, SyncIsDurable, Idle, Result, NoResult
<1>q. CASE PowerFails
  <2>1. PICK d \in [Blocks -> Contents] :
            /\ disk' = d
            /\ stable' = [b \in Blocks |-> [p \in Parts |-> {d[b][p]}]]
    BY <1>q DEF PowerFails
  <2> QED
    BY <1>q, <2>1, Zenon DEF PowerFails, Emptied, NoDuplicateSlots, CleanMatchesDisk,
       FlushProgress, SyncIsDurable, Idle, NoResult
<1>s. CASE Ignored
  BY <1>s, <1>i, Zenon DEF Ignored, pool, dev, NoResult, NoDuplicateSlots, CleanMatchesDisk,
     FlushProgress, MustFlush, SyncIsDurable
<1>u. CASE ModifyUnready \/ FlushUnready
  <2>1. UNCHANGED <<valid, dirty, blk, data, disk, stable, cur, ready>>
    BY <1>u DEF ModifyUnready, FlushUnready, pool, dev
  <2>2. valid = {} /\ cur.op = "idle" /\ res'.op # "sync"
    BY <1>u, <1>i DEF ModifyUnready, FlushUnready, FlushProgress, Idle, Result
  <2>3. \A b \in Blocks : Mem(b)' = disk'[b]
    BY <2>1, <2>2 DEF Mem, Cached
  <2> QED
    BY <2>1, <2>2, <2>3, <1>i DEF NoDuplicateSlots, CleanMatchesDisk, FlushProgress, MustFlush,
       SyncIsDurable
<1>r. CASE UNCHANGED vars
  <2>1. \A b \in Blocks : Mem(b)' = Mem(b)
    BY <1>r DEF vars, Mem, Cached, Finds
  <2> QED
    BY <1>r, <1>i, <2>1 DEF vars, NoDuplicateSlots, CleanMatchesDisk, FlushProgress, MustFlush,
       SyncIsDurable
<1> QED
  BY <1>a, <1>b, <1>c, <1>d, <1>e, <1>f, <1>g, <1>h, <1>k, <1>l, <1>m, <1>n, <1>o, <1>p,
     <1>q, <1>r, <1>s, <1>u DEF AnyNext, AnySlotStep

\* The inductive invariant holds before mofs_bcache_init is called.
LEMMA InvInit == Init => IInv
<1> SUFFICES ASSUME Init PROVE IInv
  OBVIOUS
<1>1. TypeOK
  BY TypeInit
<1>2. \A b \in Blocks, p \in Parts : disk[b][p] \in stable[b][p]
  BY DEF Init
<1> QED
  BY <1>1, <1>2, Zenon DEF Init, IInv, NoDuplicateSlots, CleanMatchesDisk, FlushProgress,
     SyncIsDurable, Idle, NoResult

\* The inductive invariant of mofs_buffer.c holds in every reachable state.
LEMMA InvHolds == Spec => []IInv
BY InvInit, InvStep, LruIsAny, PTL DEF Spec

\* No block is ever cached in two slots.
THEOREM NoDuplicates == Spec => []NoDuplicateSlots
<1>1. IInv => NoDuplicateSlots
  BY DEF IInv
<1> QED
  BY <1>1, InvHolds, PTL

\* A slot that is not dirty always agrees with the device, so the eviction
\* that skips its write-back loses nothing.
THEOREM CleanSlotsMatch == Spec => []CleanMatchesDisk
<1>1. IInv => CleanMatchesDisk
  BY DEF IInv
<1> QED
  BY <1>1, InvHolds, PTL

\* A flush of a ready cache that returned 0 left nothing that a power failure
\* could undo; one of an unready cache returned 0 with nothing held in memory.
THEOREM FlushIsDurable == Spec => []SyncIsDurable
<1>1. IInv => SyncIsDurable
  BY DEF IInv
<1> QED
  BY <1>1, InvHolds, PTL

\* The slots mofs_bcache_flush has passed hold nothing unwritten, and an
\* unready cache holds nothing at all.
THEOREM FlushAdvances == Spec => []FlushProgress
<1>1. IInv => FlushProgress
  BY DEF IInv
<1> QED
  BY <1>1, InvHolds, PTL

-----------------------------------------------------------------------------
(* Refinement: the cache implements BlockStore.  A step of the cache is    *)
(* unseen by the callers, or it replaces the contents of one block, or it  *)
(* loses cached contents.                                                  *)

Unseen == \A b \in Blocks : Mem(b)' = Mem(b) /\ May(b)' = May(b)

\* What the callers see of a block comes from its slot, and from the device
\* when it has none.
Seen == \A b \in Blocks : /\ \A i \in valid : blk[i] = b => Mem(b) = data[i]
                          /\ ~Cached(b) => Mem(b) = disk[b]
                          /\ Mem(b) \in Contents

Replaces(b, c) ==
    /\ Mem(b)' = c
    /\ \A p \in Parts : May(b)'[p] \in {May(b)[p] \cup {c[p]},
                                        (May(b)[p] \ {Mem(b)[p]}) \cup {c[p]}}
    /\ \A x \in Blocks \ {b} : Mem(x)' = Mem(x) /\ May(x)' = May(x)

\* bcache_find meets the only slot of a block.
LEMMA SeenThroughSlot == IInv => Seen
<1> SUFFICES ASSUME IInv, NEW b \in Blocks
             PROVE  /\ \A i \in valid : blk[i] = b => Mem(b) = data[i]
                    /\ ~Cached(b) => Mem(b) = disk[b]
                    /\ Mem(b) \in Contents
  BY DEF Seen
<1> USE DEF IInv
<1>1. ASSUME NEW i \in valid, blk[i] = b PROVE Mem(b) = data[i]
  <2>1. i \in Slots /\ Finds(i, b) /\ Cached(b)
    BY <1>1 DEF Finds, Cached, NoDuplicateSlots, TypeOK, Slots
  <2> DEFINE k == CHOOSE j \in Slots : Finds(j, b)
  <2>2. Finds(k, b)
    BY <2>1
  <2>3. k = i
    BY <1>1, <2>2 DEF Finds, NoDuplicateSlots
  <2> QED
    BY <2>1, <2>3, Zenon DEF Mem
<1>2. ~Cached(b) => Mem(b) = disk[b]
  BY DEF Mem
<1>3. CASE Cached(b)
  BY <1>1, <1>2, <1>3 DEF Cached, TypeOK
<1>4. CASE ~Cached(b)
  BY <1>1, <1>2, <1>4 DEF TypeOK
<1> QED
  BY <1>1, <1>2, <1>3, <1>4

\* The same in the state after a step.
LEMMA SeenThroughSlotNext == IInv' => Seen'
BY SeenThroughSlot, PTL

\* A raw write of a cached block, complete or torn, adds no survivor that
\* was not one already (bcache_flush_entry).
LEMMA WriteBackUnseen ==
    ASSUME IInv, NEW i \in valid, NEW d \in Torn(blk[i], data[i]), DevHolds(blk[i], d)
    PROVE  \A b \in Blocks, p \in Parts :
              stable'[b][p] \cup {Mem(b)[p]} = stable[b][p] \cup {Mem(b)[p]}
<1> SUFFICES ASSUME NEW b \in Blocks, NEW p \in Parts
             PROVE  stable'[b][p] \cup {Mem(b)[p]} = stable[b][p] \cup {Mem(b)[p]}
  OBVIOUS
<1>t. TypeOK /\ FlushProgress /\ i \in Slots
  BY DEF IInv, TypeOK
<1>1. CASE b = blk[i]
  <2>1. Mem(b) = data[i]
    BY <1>1, SeenThroughSlot DEF Seen
  <2>2. stable'[b][p] = stable[b][p] \cup {d[p]}
    BY <1>1, <1>t DEF DevHolds, TypeOK
  <2>3. d[p] \in {disk[b][p], data[i][p]} /\ disk[b][p] \in stable[b][p]
    BY <1>1, <1>t DEF Torn, FlushProgress
  <2> QED
    BY <2>1, <2>2, <2>3
<1>2. CASE b # blk[i]
  BY <1>2, <1>t DEF DevHolds, TypeOK
<1> QED
  BY <1>1, <1>2

\* bcache_get_victim writes the victim back, so that the device holds what
\* its slot held.
LEMMA EvictedUnseen ==
    ASSUME IInv, NEW i \in Slots, Evicted(i)
    PROVE  /\ \A b \in Blocks, p \in Parts :
                 stable'[b][p] \cup {Mem(b)[p]} = stable[b][p] \cup {Mem(b)[p]}
           /\ i \in valid => disk'[blk[i]] = data[i]
           /\ \A b \in Blocks : ~(i \in valid /\ blk[i] = b) => /\ disk'[b] = disk[b]
                                                              /\ stable'[b] = stable[b]
<1>t. TypeOK /\ CleanMatchesDisk
  BY DEF IInv
<1>1. CASE MustFlush(i)
  <2>1. data[i] \in Torn(blk[i], data[i]) /\ i \in valid /\ blk[i] \in Blocks
    BY <1>1, <1>t DEF Torn, TypeOK, Contents, MustFlush
  <2>2. DevHolds(blk[i], data[i])
    BY <1>1, Zenon DEF Evicted
  <2> QED
    BY <2>1, <2>2, <1>t, WriteBackUnseen, Zenon DEF DevHolds, TypeOK
<1>2. CASE ~MustFlush(i)
  BY <1>2, <1>t DEF Evicted, dev, MustFlush, CleanMatchesDisk
<1> QED
  BY <1>1, <1>2

\* A write-back that fails, whatever it tore, is not seen by the callers.
LEMMA EvictionFailsUnseen ==
    ASSUME IInv, NEW i \in Slots, EvictionFails(i)
    PROVE  Unseen
<1>1. PICK d \in Torn(blk[i], data[i]) : DevHolds(blk[i], d)
  BY Zenon DEF EvictionFails
<1>2. i \in valid /\ UNCHANGED <<valid, blk, data>>
  BY DEF EvictionFails, MustFlush, pool
<1> SUFFICES ASSUME NEW b \in Blocks PROVE Mem(b)' = Mem(b) /\ May(b)' = May(b)
  BY DEF Unseen
<1>3. Mem(b)' = Mem(b)
  <2>1. CASE Cached(b)
    BY <1>2, <2>1 DEF Mem, Cached, Finds
  <2>2. CASE ~Cached(b)
    <3>1. b # blk[i]
      BY <1>2, <2>2 DEF Cached
    <3>2. disk'[b] = disk[b]
      BY <1>1, <3>1 DEF DevHolds, IInv, TypeOK
    <3> QED
      BY <1>2, <2>2, <3>2 DEF Mem, Cached
  <2> QED
    BY <2>1, <2>2
<1>4. \A p \in Parts : stable'[b][p] \cup {Mem(b)[p]} = stable[b][p] \cup {Mem(b)[p]}
  BY <1>1, <1>2, WriteBackUnseen
<1> QED
  BY <1>3, <1>4 DEF May

\* Mem seen through the slots after the victim gave its slot up for block b
\* (or for none): every other block is seen as before.
LEMMA OthersUnseen ==
    ASSUME IInv, IInv', NEW i \in Slots, Evicted(i), NEW b \in Blocks, b # blk'[i] \/ i \notin valid',
           valid' \in {valid \cup {i}, valid \ {i}},
           \A j \in Slots \ {i} : blk'[j] = blk[j] /\ data'[j] = data[j]
    PROVE  Mem(b)' = Mem(b) /\ May(b)' = May(b)
<1>t. TypeOK /\ TypeOK' /\ Seen /\ Seen'
  BY SeenThroughSlot, SeenThroughSlotNext, Zenon DEF IInv
<1>1. Mem(b)' = Mem(b)
  <2>1. CASE \E j \in valid \ {i} : blk[j] = b
    <3>1. PICK j \in valid \ {i} : blk[j] = b
      BY <2>1
    <3>2. j \in valid' /\ j \in Slots /\ blk'[j] = b /\ data'[j] = data[j]
      BY <3>1, <1>t DEF TypeOK
    <3> QED
      BY <3>1, <3>2, <1>t DEF Seen
  <2>2. CASE ~\E j \in valid \ {i} : blk[j] = b
    <3>1. ~Cached(b)'
      BY <2>2, <1>t, Zenon DEF Cached, TypeOK
    <3>2. Mem(b)' = disk'[b]
      BY <3>1, <1>t DEF Seen
    <3>3. CASE i \in valid /\ blk[i] = b
      BY <3>2, <3>3, <1>t, EvictedUnseen DEF Seen
    <3>4. CASE ~(i \in valid /\ blk[i] = b)
      <4>1. ~Cached(b)
        BY <2>2, <3>4 DEF Cached
      <4> QED
        BY <3>2, <3>4, <4>1, <1>t, EvictedUnseen, Zenon DEF Seen
    <3> QED
      BY <3>3, <3>4
  <2> QED
    BY <2>1, <2>2
<1> QED
  BY <1>1, EvictedUnseen DEF May

\* A load that fails leaves the victim's block on the device only.
LEMMA LoadFailsUnseen ==
    ASSUME IInv, IInv', NEW i \in Slots, Evicted(i), LoadFails(i)
    PROVE  Unseen
BY OthersUnseen DEF LoadFails, Unseen

\* The victim's slot is given to block b, for a load or for a write.
LEMMA RefillSeen ==
    ASSUME IInv, IInv', NEW i \in Slots, NEW b \in Blocks, NEW c \in Contents,
           Evicted(i), Fill(i, b, c), ~Cached(b)
    PROVE  /\ Replaces(b, c)
           /\ c = disk[b] => Unseen
<1>t. TypeOK /\ TypeOK' /\ Seen /\ Seen' /\ FlushProgress
  BY SeenThroughSlot, SeenThroughSlotNext DEF IInv
<1>1. \A x \in Blocks \ {b} : Mem(x)' = Mem(x) /\ May(x)' = May(x)
  BY OthersUnseen, <1>t DEF Fill, TypeOK
<1>2. Mem(b)' = c
  BY <1>t DEF Fill, TypeOK, Seen
<1>3. Mem(b) = disk[b] /\ stable'[b] = stable[b]
  BY <1>t, EvictedUnseen, Zenon DEF Cached, Seen
<1>4. \A p \in Parts : /\ May(b)'[p] = stable[b][p] \cup {c[p]}
                       /\ May(b)[p] = stable[b][p]
  BY <1>2, <1>3, <1>t, Zenon DEF May, FlushProgress
<1>5. Replaces(b, c)
  BY <1>1, <1>2, <1>4, Zenon DEF Replaces
<1>6. ASSUME c = disk[b] PROVE May(b)' = May(b)
  BY <1>2, <1>3, <1>6 DEF May
<1> QED
  BY <1>1, <1>2, <1>3, <1>5, <1>6, Zenon DEF Unseen

\* A hit replaces the contents of the slot and nothing else.
LEMMA HitReplaces ==
    ASSUME IInv, IInv', NEW i \in Slots, NEW b \in Blocks, NEW c \in Contents,
           Finds(i, b), Fill(i, b, c), UNCHANGED dev
    PROVE  Replaces(b, c)
<1>t. TypeOK /\ TypeOK' /\ Seen /\ Seen'
  BY SeenThroughSlot, SeenThroughSlotNext DEF IInv
<1>1. Mem(b)' = c /\ i \in valid /\ blk[i] = b
  BY <1>t DEF Fill, Finds, Seen, TypeOK
<1>2. ASSUME NEW x \in Blocks \ {b} PROVE Mem(x)' = Mem(x)
  <2>1. CASE Cached(x)
    <3>1. PICK j \in valid : blk[j] = x
      BY <2>1 DEF Cached
    <3>2. j \in valid' /\ blk'[j] = x /\ data'[j] = data[j]
      BY <3>1, <1>1, <1>t DEF Fill, TypeOK
    <3>3. Mem(x) = data[j]
      BY <3>1, <1>t, Zenon DEF Seen
    <3>4. Mem(x)' = data'[j]
      BY <3>2, <1>t, Zenon DEF Seen
    <3> QED
      BY <3>2, <3>3, <3>4, Zenon
  <2>2. CASE ~Cached(x)
    <3>1. ~Cached(x)'
      BY <2>2, <1>1, <1>t DEF Cached, Fill, TypeOK
    <3> QED
      BY <2>2, <3>1, <1>t, Zenon DEF Seen, dev
  <2> QED
    BY <2>1, <2>2, Zenon
<1>3. \A x \in Blocks \ {b} : May(x)' = May(x)
  BY <1>2, Zenon DEF May, dev
<1>4. ASSUME NEW p \in Parts
      PROVE  May(b)'[p] \in {May(b)[p] \cup {c[p]}, (May(b)[p] \ {Mem(b)[p]}) \cup {c[p]}}
  <2>1. May(b)'[p] = stable[b][p] \cup {c[p]} /\ May(b)[p] = stable[b][p] \cup {Mem(b)[p]}
    BY <1>1 DEF May, dev
  <2>2. CASE Mem(b)[p] \in stable[b][p]
    BY <2>1, <2>2
  <2>3. CASE Mem(b)[p] \notin stable[b][p]
    BY <2>1, <2>3
  <2> QED
    BY <2>2, <2>3, Zenon
<1> QED
  BY <1>1, <1>2, <1>3, <1>4, Zenon DEF Replaces

\* What an unseen step reports is all that BlockStore sees of it.
LEMMA StoreUnseen ==
    ASSUME Unseen
    PROVE  /\ res' = res => UNCHANGED Store!vars
           /\ res' = Result("error", 0, {}) => Store!Fails
           /\ res' = Result("unsynced", 0, {}) => Store!Unsynced
           /\ res' = NoResult => Store!Begin
           /\ \A b \in Blocks : res' = Result("read", b, {Mem(b)}) => Store!Read(b)
BY DEF Unseen, Store!vars, Store!Fails, Store!Unsynced, Store!Begin, Store!Read, Result,
       NoResult, Store!Result, Store!NoResult

\* A replaced block is a write of BlockStore.
LEMMA StoreReplaces ==
    ASSUME NEW b \in Blocks, NEW c \in Contents, Replaces(b, c)
    PROVE  Store!Holds(b, c)
BY DEF Replaces, Store!Holds, Store!OthersKept

\* Contents that are given up unwritten fall back to the device.
LEMMA StoreLoses ==
    ASSUME IInv, NEW b \in Blocks, Mem(b)' = disk[b], stable' = stable
    PROVE  Store!Lost(b)
<1>t. \A p \in Parts : disk[b][p] \in stable[b][p]
  BY DEF IInv, FlushProgress
<1>1. ASSUME NEW p \in Parts
      PROVE  /\ Mem(b)'[p] \in May(b)[p]
             /\ May(b)'[p] \in {May(b)[p], May(b)[p] \ {Mem(b)[p]}}
             /\ Mem(b)'[p] \in May(b)'[p]
  <2>1. May(b)'[p] = stable[b][p] /\ May(b)[p] = stable[b][p] \cup {Mem(b)[p]}
    BY <1>t DEF May
  <2>2. CASE Mem(b)[p] \in stable[b][p]
    BY <1>t, <2>1, <2>2
  <2>3. CASE Mem(b)[p] \notin stable[b][p]
    BY <1>t, <2>1, <2>3
  <2> QED
    BY <2>2, <2>3
<1> QED
  BY <1>1 DEF Store!Lost

\* A slot is left as it is: the step only moves the operation along, or
\* writes slots back.
LEMMA SameSlotsUnseen ==
    ASSUME UNCHANGED <<valid, blk, data, disk, stable>>
    PROVE  Unseen
BY DEF Unseen, Mem, May, Cached, Finds

\* A read that fills a slot, or finds one, returns what the callers see.
LEMMA ReadStep ==
    ASSUME IInv, IInv', NEW i \in Slots, ReadHit(i) \/ AnyReadMiss(i)
    PROVE  Store!Next
<1>b. PICK b \in Blocks : cur.op = "read" /\ cur.at = b
  BY DEF ReadHit, AnyReadMiss, IInv, TypeOK, Idle
<1>s. Seen /\ TypeOK
  BY SeenThroughSlot DEF IInv
<1>1. CASE ReadHit(i)
  <2>1. Unseen
    BY <1>1, SameSlotsUnseen DEF ReadHit, dev
  <2>2. res' = Result("read", b, {Mem(b)})
    BY <1>1, <1>s, <1>b, Zenon DEF ReadHit, Finds, Seen
  <2> QED
    BY <2>1, <2>2, <1>b, StoreUnseen DEF Store!Next
<1>2. CASE EvictionFails(i)
  <2>1. Unseen /\ res' = Result("error", 0, {})
    BY <1>2, EvictionFailsUnseen DEF EvictionFails
  <2> QED
    BY <2>1, StoreUnseen, Zenon DEF Store!Next
<1>3. CASE Evicted(i) /\ LoadFails(i)
  <2>1. Unseen /\ res' = Result("error", 0, {})
    BY <1>3, LoadFailsUnseen DEF LoadFails
  <2> QED
    BY <2>1, StoreUnseen DEF Store!Next
<1>4. CASE /\ ~Cached(b)
           /\ Evicted(i)
           /\ Fill(i, b, disk[b])
           /\ res' = Result("read", b, {disk[b]})
  <2>1. disk[b] \in Contents /\ Mem(b) = disk[b]
    BY <1>4, <1>b, <1>s DEF TypeOK, Seen
  <2>2. Unseen
    BY <1>4, <1>b, <2>1, RefillSeen, Zenon
  <2> QED
    BY <1>4, <2>1, <2>2, <1>b, StoreUnseen DEF Store!Next
<1> QED
  BY <1>b, <1>1, <1>2, <1>3, <1>4, Zenon DEF AnyReadMiss

\* A write through the cache replaces the block it was given.
LEMMA WriteStep ==
    ASSUME IInv, IInv', NEW i \in Slots, NEW c \in Contents, WriteHit(i, c) \/ AnyWriteMiss(i, c)
    PROVE  Store!Next
<1>b. PICK b \in Blocks : cur.op = "write" /\ cur.at = b
  BY DEF WriteHit, AnyWriteMiss, IInv, TypeOK, Idle
<1>1. CASE EvictionFails(i)
  <2>1. Unseen /\ res' = Result("error", 0, {})
    BY <1>1, EvictionFailsUnseen, Zenon DEF EvictionFails
  <2> QED
    BY <2>1, StoreUnseen DEF Store!Next
<1>2. CASE /\ Fill(i, b, c)
           /\ res' = Result("write", b, {})
           /\ \/ Finds(i, b) /\ UNCHANGED dev
              \/ ~Cached(b) /\ Evicted(i)
  <2>1. Replaces(b, c)
    BY <1>2, <1>b, HitReplaces, RefillSeen
  <2>2. Store!Write(b, c)
    BY <1>2, <1>b, <2>1, StoreReplaces, Zenon DEF Store!Write, Store!Result, Result
  <2> QED
    BY <1>b, <2>2 DEF Store!Next, Contents, Store!Contents
<1> QED
  BY <1>b, <1>1, <1>2 DEF WriteHit, AnyWriteMiss

\* mofs_bcache_modify_block changes one part of what the callers see.
LEMMA ModifyStep ==
    ASSUME IInv, IInv', NEW i \in Slots, NEW b \in Blocks, NEW p \in Parts, NEW v \in Vals,
           ModifyHit(i, b, p, v) \/ AnyModifyMiss(i, b, p, v)
    PROVE  Store!Next
<1>s. Seen /\ TypeOK
  BY SeenThroughSlot DEF IInv
<1>1. CASE EvictionFails(i)
  <2>1. Unseen /\ res' = Result("error", 0, {})
    BY <1>1, EvictionFailsUnseen, Zenon DEF EvictionFails
  <2> QED
    BY <2>1, StoreUnseen DEF Store!Next
<1>2. CASE Evicted(i) /\ LoadFails(i)
  <2>1. Unseen /\ res' = Result("error", 0, {})
    BY <1>2, LoadFailsUnseen DEF LoadFails
  <2> QED
    BY <2>1, StoreUnseen DEF Store!Next
<1>3. CASE /\ Fill(i, b, Patch(Mem(b), p, v))
           /\ res' = Result("patch", b, {})
           /\ \/ Finds(i, b) /\ UNCHANGED dev
              \/ ~Cached(b) /\ Evicted(i)
  <2>1. Patch(Mem(b), p, v) \in Contents
    BY <1>s DEF Patch, Seen, Contents
  <2>2. Replaces(b, Patch(Mem(b), p, v))
    BY <1>3, <2>1, HitReplaces, RefillSeen
  <2>3. Store!Patch(b, p, v)
    BY <1>3, <2>1, <2>2, StoreReplaces, Zenon DEF Store!Patch, Store!Result, Result, Patch
  <2> QED
    BY <2>3 DEF Store!Next
<1>4. Finds(i, b) => Mem(b) = data[i]
  BY <1>s, Zenon DEF Finds, Seen
<1>5. ~Cached(b) => Mem(b) = disk[b]
  BY <1>s DEF Seen
<1> QED
  BY <1>1, <1>2, <1>3, <1>4, <1>5, Zenon DEF ModifyHit, AnyModifyMiss

\* A raw write of an uncached block, the only one that can fail half way.
LEMMA RawStep ==
    ASSUME IInv, IInv', ReadRaw \/ \E c \in Contents : WriteRaw(c)
    PROVE  Store!Next
<1>t. TypeOK /\ FlushProgress
  BY DEF IInv
<1>b. PICK b \in Blocks : cur.at = b /\ valid = {}
  BY <1>t DEF ReadRaw, WriteRaw, FlushProgress, TypeOK, Idle
<1>m. \A x \in Blocks : Mem(x) = disk[x]
  BY <1>b, Zenon DEF Mem, Cached
<1>1. CASE ReadRaw
  <2>1. Unseen
    BY <1>1, SameSlotsUnseen DEF ReadRaw, pool, dev
  <2> QED
    BY <1>1, <1>b, <1>m, <2>1, StoreUnseen DEF ReadRaw, Store!Next
<1>2. ASSUME NEW c \in Contents, WriteRaw(c) PROVE Store!Next
  <2>1. \A x \in Blocks : Mem(x)' = disk'[x]
    BY <1>2, <1>b, Zenon DEF WriteRaw, pool, Mem, Cached
  <2>2. ASSUME NEW d \in Contents, DevHolds(b, d)
        PROVE  /\ Mem(b)' = d
               /\ \A p \in Parts : May(b)'[p] = May(b)[p] \cup {d[p]}
               /\ \A x \in Blocks \ {b} : Mem(x)' = Mem(x) /\ May(x)' = May(x)
    <3>1. disk'[b] = d /\ \A p \in Parts : stable'[b][p] = stable[b][p] \cup {d[p]}
      BY <2>2, <1>b, <1>t DEF DevHolds, TypeOK
    <3>2. \A x \in Blocks \ {b} : disk'[x] = disk[x] /\ stable'[x] = stable[x]
      BY <2>2, <1>b, <1>t, Zenon DEF DevHolds, TypeOK
    <3>3. \A p \in Parts : disk[b][p] \in stable[b][p]
      BY <1>b, <1>t DEF FlushProgress
    <3>4. /\ Mem(b)' = d
          /\ \A x \in Blocks \ {b} : Mem(x)' = Mem(x)
      BY <1>b, <1>m, <2>1, <3>1, <3>2
    <3>5. \A p \in Parts : May(b)'[p] = May(b)[p] \cup {d[p]}
      BY <1>b, <1>m, <3>1, <3>3, <3>4 DEF May
    <3>6. \A x \in Blocks \ {b} : May(x)' = May(x)
      BY <3>2, <3>4 DEF May
    <3> QED
      BY <3>4, <3>5, <3>6
  <2>3. CASE DevHolds(b, c) /\ res' = Result("write", b, {})
    <3>1. Replaces(b, c)
      BY <2>2, <2>3, Zenon DEF Replaces
    <3>2. Store!Write(b, c)
      BY <1>b, <2>3, <3>1, StoreReplaces DEF Store!Write, Store!Result, Result
    <3> QED
      BY <1>b, <3>2 DEF Store!Next, Contents, Store!Contents
  <2>4. CASE (\E d \in Torn(b, c) : DevHolds(b, d)) /\ res' = Result("werror", b, {})
    <3>1. PICK d \in Torn(b, c) : DevHolds(b, d)
      BY <2>4, Zenon
    <3>2. d \in Contents /\ \A p \in Parts : d[p] \in {Mem(b)[p], c[p]}
      BY <1>b, <1>m, Zenon DEF Torn
    <3>3. /\ \A p \in Parts : /\ Mem(b)'[p] \in {Mem(b)[p], c[p]}
                              /\ May(b)'[p] = May(b)[p] \cup {Mem(b)'[p]}
          /\ \A x \in Blocks \ {b} : Mem(x)' = Mem(x) /\ May(x)' = May(x)
      BY <2>2, <3>1, <3>2
    <3>4. Store!WriteFails(b, c)
      BY <1>b, <2>4, <3>3, Zenon DEF Store!WriteFails, Store!OthersKept, Store!Result, Result
    <3> QED
      BY <1>b, <3>4 DEF Store!Next, Contents, Store!Contents
  <2> QED
    BY <1>b, <1>2, <2>3, <2>4 DEF WriteRaw
<1> QED
  BY <1>1, <1>2

\* A flush is seen when it ends: as a sync, or as an error.
LEMMA FlushStep ==
    ASSUME IInv, IInv', FlushSlot \/ FlushSync
    PROVE  Store!Next \/ UNCHANGED Store!vars
<1>t. TypeOK /\ FlushProgress /\ NoDuplicateSlots /\ CleanMatchesDisk /\ Seen
  BY SeenThroughSlot DEF IInv
<1>1. CASE FlushSlot
  <2>1. cur.at \in Slots
    BY <1>1, <1>t DEF FlushSlot, TypeOK, Slots, Idle
  <2>2. CASE EvictionFails(cur.at)
    <3>1. Unseen /\ res' = Result("error", 0, {})
      BY <2>1, <2>2, EvictionFailsUnseen DEF EvictionFails
    <3> QED
      BY <3>1, StoreUnseen DEF Store!Next
  <2>3. CASE /\ MustFlush(cur.at)
             /\ DevHolds(blk[cur.at], data[cur.at])
             /\ UNCHANGED <<valid, blk, data, res>>
    <3>1. Evicted(cur.at) /\ cur.at \in valid /\ blk[cur.at] \in Blocks
      BY <2>1, <2>3, <1>t DEF Evicted, MustFlush, TypeOK
    <3>2. ASSUME NEW b \in Blocks PROVE Mem(b)' = Mem(b)
      <4>1. CASE Cached(b)
        BY <2>3, <4>1 DEF Mem, Cached, Finds
      <4>2. CASE ~Cached(b)
        <5>1. b # blk[cur.at]
          BY <3>1, <4>2, Zenon DEF Cached
        <5>2. disk'[b] = disk[b]
          BY <2>1, <3>1, <5>1, EvictedUnseen
        <5> QED
          BY <2>3, <4>2, <5>2, Zenon DEF Mem, Cached
      <4> QED
        BY <4>1, <4>2
    <3>3. Unseen
      BY <2>1, <3>1, <3>2, EvictedUnseen DEF Unseen, May
    <3> QED
      BY <2>3, <3>3, StoreUnseen
  <2>4. CASE UNCHANGED <<pool, ready, dev, res>>
    BY <2>4, SameSlotsUnseen, StoreUnseen DEF pool, dev
  <2> QED
    BY <1>1, <2>2, <2>3, <2>4 DEF FlushSlot
<1>2. CASE FlushSync
  <2>1. UNCHANGED <<valid, blk, data, disk>>
    BY <1>2 DEF FlushSync, pool
  <2>2. \A b \in Blocks : Mem(b)' = Mem(b)
    BY <2>1 DEF Mem, Cached, Finds
  <2>3. CASE stable' = stable /\ res' = Result("error", 0, {})
    <3>1. Unseen
      BY <2>1, <2>3, SameSlotsUnseen
    <3> QED
      BY <2>3, <3>1, StoreUnseen DEF Store!Next
  <2>4. CASE res' = Result("sync", 0, {})
    <3>a. res'.op = "sync"
      BY <2>4, Zenon DEF Result
    <3>1. \A b \in Blocks, p \in Parts : stable'[b][p] = {Mem(b)[p]}
      BY <2>2, <3>a DEF IInv, SyncIsDurable
    <3>2. \A b \in Blocks : May(b)' = [p \in Parts |-> {Mem(b)[p]}]
      BY <2>2, <3>1 DEF May
    <3>3. Store!Sync
      <4>1. res' = Store!Result("sync", 0, {})
        BY <2>4 DEF Store!Result, Result
      <4>2. \A b \in Blocks : May(b)' = [p \in Parts |-> {[x \in Blocks |-> Mem(x)][b][p]}]
        BY <3>2
      <4>3. [b \in Blocks |-> May(b)]' =
              [b \in Blocks |-> [p \in Parts |-> {[x \in Blocks |-> Mem(x)][b][p]}]]
        BY <4>2, Zenon
      <4>4. [b \in Blocks |-> Mem(b)]' = [b \in Blocks |-> Mem(b)]
        BY <2>2
      <4> QED
        BY <4>1, <4>3, <4>4, Zenon DEF Store!Sync
    <3> QED
      BY <3>3 DEF Store!Next
  <2> QED
    BY <1>2, <2>3, <2>4 DEF FlushSync
<1> QED
  BY <1>1, <1>2

\* mofs_bcache_invalidate and mofs_bcache_fini give cached contents up.
LEMMA LossStep ==
    ASSUME IInv, IInv',
           (\E b \in Blocks : Invalidate(b)) \/ BcacheFini \/ ProcessDies \/ PowerFails
    PROVE  Store!Next
<1>t. TypeOK /\ TypeOK' /\ Seen /\ Seen' /\ FlushProgress /\ NoDuplicateSlots
  BY SeenThroughSlot, SeenThroughSlotNext DEF IInv
<1>1. ASSUME NEW b \in Blocks, Invalidate(b) PROVE Store!Next
  <2>1. /\ valid' = valid \ {i \in valid : Finds(i, b)}
        /\ UNCHANGED <<blk, data, disk, stable>>
    BY <1>1, <1>t DEF Invalidate, dev, FlushProgress
  <2>2. ASSUME NEW i \in valid PROVE i \in valid' <=> blk[i] # b
    BY <2>1, <2>2, <1>t DEF Finds, NoDuplicateSlots, TypeOK, Slots
  <2>3. ASSUME NEW x \in Blocks \ {b} PROVE Mem(x)' = Mem(x) /\ May(x)' = May(x)
    <3>1. CASE Cached(x)
      <4>1. PICK i \in valid : blk[i] = x
        BY <3>1 DEF Cached
      <4>2. i \in valid' /\ Mem(x)' = data[i] /\ Mem(x) = data[i]
        BY <2>1, <2>2, <2>3, <4>1, <1>t, Zenon DEF Seen
      <4> QED
        BY <2>1, <4>2 DEF May
    <3>2. CASE ~Cached(x)
      <4>1. ~Cached(x)'
        BY <2>1, <3>2, Zenon DEF Cached
      <4>2. Mem(x)' = Mem(x)
        BY <2>1, <3>2, <4>1, <1>t DEF Seen
      <4> QED
        BY <2>1, <4>2 DEF May
    <3> QED
      BY <3>1, <3>2
  <2>4. ~Cached(b)'
    BY <2>1, <2>2 DEF Cached
  <2>5. Mem(b)' = disk[b]
    BY <2>1, <2>4, <1>t DEF Seen
  <2>6. Store!Lost(b)
    BY <2>1, <2>5, StoreLoses
  <2>7. Store!Drop(b)
    BY <1>1, <2>3, <2>6, Zenon DEF Invalidate, Store!Drop, Store!OthersKept, Store!Result, Result
  <2> QED
    BY <2>7 DEF Store!Next
<1>2. CASE BcacheFini \/ ProcessDies
  <2>1. valid' = {} /\ UNCHANGED <<disk, stable>> /\ res' = Result("fini", 0, {})
    BY <1>2 DEF BcacheFini, ProcessDies, Emptied, dev
  <2>2. \A b \in Blocks : Mem(b)' = disk[b]
    BY <2>1, <1>t, Zenon DEF Seen, Cached
  <2>3. \A b \in Blocks : Store!Lost(b)
    BY <2>1, <2>2, StoreLoses
  <2>4. Store!DropAll
    BY <2>1, <2>3, Zenon DEF Store!DropAll, Store!Result, Result
  <2> QED
    BY <2>4 DEF Store!Next
<1>3. CASE PowerFails
  <2>1. /\ \A b \in Blocks, p \in Parts : disk'[b][p] \in stable[b][p]
        /\ stable' = [b \in Blocks |-> [p \in Parts |-> {disk'[b][p]}]]
        /\ valid' = {}
        /\ res' = NoResult
    BY <1>3, Zenon DEF PowerFails, Emptied
  <2>2. \A b \in Blocks : Mem(b)' = disk'[b]
    BY <2>1, <1>t, Zenon DEF Seen, Cached
  <2>3. \A b \in Blocks : May(b)' = [p \in Parts |-> {Mem(b)'[p]}]
    BY <2>1, <2>2 DEF May
  <2>4. \A b \in Blocks, p \in Parts : Mem(b)'[p] \in May(b)[p]
    BY <2>1, <2>2, Zenon DEF May
  <2>5. Store!PowerLoss
    BY <2>1, <2>3, <2>4 DEF Store!PowerLoss, Store!NoResult, NoResult
  <2> QED
    BY <2>5 DEF Store!Next
<1> QED
  BY <1>1, <1>2, <1>3

\* Every step of the cache is a step of the block store, or is not seen.
LEMMA StoreStep == IInv /\ IInv' /\ [AnyNext]_vars => [Store!Next]_(Store!vars)
<1> SUFFICES ASSUME IInv, IInv', [AnyNext]_vars PROVE Store!Next \/ UNCHANGED Store!vars
  OBVIOUS
<1>1. ASSUME NEW i \in Slots, AnySlotStep(i) PROVE Store!Next
  BY <1>1, ReadStep, WriteStep, ModifyStep DEF AnySlotStep
<1>2. CASE ReadRaw \/ \E c \in Contents : WriteRaw(c)
  BY <1>2, RawStep
<1>3. CASE FlushSlot \/ FlushSync
  BY <1>3, FlushStep
<1>4. CASE (\E b \in Blocks : Invalidate(b)) \/ BcacheFini \/ ProcessDies \/ PowerFails
  BY <1>4, LossStep
<1>5. CASE Ignored \/ BeginFlush \/ \E b \in Blocks, n \in 1 .. MaxReq : BeginRead(b, n) \/ BeginWrite(b, n)
  <2>1. Unseen /\ res' = NoResult
    BY <1>5, SameSlotsUnseen DEF Ignored, BeginFlush, BeginRead, BeginWrite, pool, dev
  <2> QED
    BY <2>1, StoreUnseen DEF Store!Next
<1>6. CASE BcacheInit
  <2>1. valid = {} /\ valid' = {} /\ UNCHANGED <<disk, stable>> /\ res' = NoResult
    BY <1>6 DEF BcacheInit, Emptied, dev, IInv, FlushProgress
  <2>2. Unseen
    BY <2>1, Zenon DEF Unseen, Mem, May, Cached
  <2> QED
    BY <2>1, <2>2, StoreUnseen DEF Store!Next
<1>8. CASE ModifyUnready \/ FlushUnready
  <2>1. Unseen /\ res' \in {Result("error", 0, {}), Result("unsynced", 0, {})}
    BY <1>8, SameSlotsUnseen DEF ModifyUnready, FlushUnready, pool, dev
  <2> QED
    BY <2>1, StoreUnseen DEF Store!Next
<1>7. CASE UNCHANGED vars
  BY <1>7, SameSlotsUnseen, StoreUnseen, Zenon DEF vars
<1> QED
  BY <1>1, <1>2, <1>3, <1>4, <1>5, <1>6, <1>7, <1>8 DEF AnyNext

\* The cache starts as a store that holds the device's contents.
LEMMA StoreInit == Init => Store!Init
<1> SUFFICES ASSUME Init PROVE Store!Init
  OBVIOUS
<1>1. \A b \in Blocks : Mem(b) = disk[b] /\ disk[b] \in Contents
  BY DEF Init, Mem, Cached
<1>2. \A b \in Blocks : May(b) = [p \in Parts |-> {Mem(b)[p]}]
  BY <1>1 DEF Init, May
<1> QED
  BY <1>1, <1>2 DEF Init, Store!Init, NoResult, Store!NoResult, Contents, Store!Contents

\* mofs_buffer.c implements the block store whatever its size, the size of
\* the device and the failures of both: reads return what was last written,
\* failed calls change nothing, and a loss is limited to what was written
\* since the last successful flush.
THEOREM CacheRefinesStore == Spec => ImplementsBlockStore
BY StoreInit, StoreStep, InvHolds, LruIsAny, PTL DEF Spec, ImplementsBlockStore, Store!Spec

-----------------------------------------------------------------------------
(* The split cache.  As long as every block lies in the pool its lookups   *)
(* go to, a miss in one pool is a miss in the whole cache, and a step of   *)
(* the split cache is a step of a cache with some replacement policy: what *)
(* is shown above of any policy then holds of it.                          *)

USE SplitAssumption

SplitInv == IInv /\ BlocksInOwnPool

\* is_metadata_block sends a block to slots of the cache.
LEMMA PoolsAreSlots == \A b \in Blocks : PoolOf(b) \subseteq Slots
BY DEF PoolOf, MetaSlots, Slots

\* A block that is_metadata_block's pool does not hold is not cached at all.
LEMMA MissIsMiss ==
    ASSUME SplitInv, NEW b \in Blocks
    PROVE  Cached(b) <=> PoolHolds(b)
BY DEF SplitInv, IInv, TypeOK, BlocksInOwnPool, Cached, PoolHolds, PoolOf

\* mofs_bcache_invalidate searches data_pool only, where the block is if it
\* is cached and lies in the data region.
LEMMA InvalidateIsAny ==
    ASSUME SplitInv, NEW b \in Blocks, PoolInvalidate(b)
    PROVE  Invalidate(b) \/ Ignored
<1>t. TypeOK /\ b \in Nat
  BY DEF SplitInv, IInv, Blocks
<1>1. CASE b < DataStart
  <2>1. {i \in Slots \ MetaSlots : ready /\ Finds(i, b)} = {}
    BY <1>1 DEF SplitInv, BlocksInOwnPool, Finds
  <2> QED
    BY <1>1, <2>1 DEF PoolInvalidate, Ignored, pool
<1>2. CASE ~(b < DataStart)
  <2>1. {i \in Slots \ MetaSlots : ready /\ Finds(i, b)} = {i \in valid : ready /\ Finds(i, b)}
    BY <1>2, <1>t DEF SplitInv, BlocksInOwnPool, Finds, TypeOK
  <2> QED
    BY <1>2, <2>1 DEF PoolInvalidate, Invalidate
<1> QED
  BY <1>1, <1>2

\* The pools only decide which slot is given up.
LEMMA SplitIsAny == SplitInv /\ [SplitNext]_vars => [AnyNext]_vars
<1> SUFFICES ASSUME SplitInv, SplitNext PROVE AnyNext
  OBVIOUS
<1>t. TypeOK
  BY DEF SplitInv, IInv
<1>1. ASSUME NEW i \in Slots, PoolStep(i) PROVE AnySlotStep(i)
  <2>1. CASE PoolReadMiss(i)
    <3>1. PICK b \in Blocks : cur.at = b
      BY <2>1, <1>t DEF PoolReadMiss, TypeOK, Idle
    <3> QED
      BY <2>1, <3>1, MissIsMiss, Zenon DEF PoolReadMiss, AnyReadMiss, PoolLoadFails, AnySlotStep
  <2>2. ASSUME NEW c \in Contents, PoolWriteMiss(i, c) PROVE AnyWriteMiss(i, c)
    <3>1. PICK b \in Blocks : cur.at = b
      BY <2>2, <1>t DEF PoolWriteMiss, TypeOK, Idle
    <3> QED
      BY <2>2, <3>1, MissIsMiss, Zenon DEF PoolWriteMiss, AnyWriteMiss
  <2>3. ASSUME NEW b \in Blocks, NEW p \in Parts, NEW v \in Vals, PoolModifyMiss(i, b, p, v)
        PROVE  AnyModifyMiss(i, b, p, v)
    BY <2>3, MissIsMiss, Zenon DEF PoolModifyMiss, AnyModifyMiss, PoolLoadFails
  <2> QED
    BY <1>1, <2>1, <2>2, <2>3
       DEF PoolStep, AnySlotStep, PoolReadHit, PoolWriteHit, PoolModifyHit
<1>2. \A b \in Blocks : PoolInvalidate(b) => AnyNext
  BY InvalidateIsAny DEF AnyNext
<1> QED
  BY <1>1, <1>2 DEF SplitNext, AnyNext, PoolModifyUnready, PoolFlushBegins, PoolFlush, PoolInit, PoolFini

\* A slot is filled with a block of its own pool.
LEMMA FillInPool ==
    ASSUME SplitInv, NEW i \in Slots, NEW b \in Blocks, NEW c, Fill(i, b, c), i \in PoolOf(b)
    PROVE  \A j \in valid' : j \in MetaSlots <=> blk'[j] < DataStart
BY DEF SplitInv, IInv, TypeOK, BlocksInOwnPool, Fill, PoolOf

\* No operation of mofs_buffer_split.c puts a block into the other pool.
LEMMA SplitInvStep == SplitInv /\ [SplitNext]_vars => SplitInv'
<1> SUFFICES ASSUME SplitInv, [SplitNext]_vars PROVE SplitInv'
  OBVIOUS
<1>t. TypeOK /\ IInv'
  BY SplitIsAny, InvStep DEF SplitInv, IInv
<1> DEFINE Own == \A i \in valid' : i \in MetaSlots <=> blk'[i] < DataStart
<1>k. ASSUME valid' \subseteq valid, blk' = blk PROVE Own
  BY <1>k, Zenon DEF SplitInv, BlocksInOwnPool
<1>e. ASSUME NEW i \in Slots, EvictionFails(i) \/ LoadFails(i) PROVE Own
  BY <1>e, <1>k DEF EvictionFails, LoadFails, pool
<1>f. ASSUME NEW i \in Slots, NEW b \in Blocks, NEW c, Fill(i, b, c), i \in PoolOf(b)
      PROVE  Own
  BY <1>f, FillInPool
<1>1. ASSUME NEW i \in Slots, PoolStep(i) PROVE Own
  <2>1. CASE PoolReadHit(i)
    BY <2>1, <1>k DEF PoolReadHit, ReadHit
  <2>2. CASE PoolReadMiss(i)
    <3>1. PICK b \in Blocks : cur.at = b
      BY <2>2, <1>t DEF PoolReadMiss, TypeOK, Idle
    <3> QED
      BY <2>2, <3>1, <1>e, <1>f, Zenon DEF PoolReadMiss, PoolLoadFails, PoolSelects
  <2>3. ASSUME NEW c \in Contents, PoolWriteHit(i, c) \/ PoolWriteMiss(i, c) PROVE Own
    <3>1. PICK b \in Blocks : cur.at = b
      BY <2>3, <1>t DEF PoolWriteHit, WriteHit, PoolWriteMiss, TypeOK, Idle
    <3> QED
      BY <2>3, <3>1, <1>e, <1>f, Zenon
         DEF PoolWriteHit, WriteHit, PoolFinds, PoolWriteMiss, PoolSelects
  <2>4. ASSUME NEW b \in Blocks, NEW p \in Parts, NEW v \in Vals,
               PoolModifyHit(i, b, p, v) \/ PoolModifyMiss(i, b, p, v)
        PROVE  Own
    BY <2>4, <1>e, <1>f, Zenon
       DEF PoolModifyHit, ModifyHit, PoolFinds, PoolModifyMiss, PoolLoadFails, PoolSelects
  <2> QED
    BY <1>1, <2>1, <2>2, <2>3, <2>4 DEF PoolStep
<1>2. ASSUME PoolInit \/ PoolFini \/ ProcessDies \/ PowerFails PROVE Own
  BY <1>2, Zenon DEF PoolInit, PoolFini, BcacheInit, BcacheFini, ProcessDies, PowerFails, Emptied
<1>3. ASSUME NEW b \in Blocks, PoolInvalidate(b) PROVE Own
  BY <1>3, <1>k DEF PoolInvalidate
<1>4. ASSUME PoolFlush PROVE Own
  <2>1. valid' = valid /\ blk' = blk
    BY <1>4, Zenon DEF PoolFlush, FlushSlot, FlushSync, EvictionFails, pool
  <2> QED
    BY <2>1, <1>k
<1>5. ASSUME \/ \E b \in Blocks, n \in 1 .. MaxReq : BeginRead(b, n) \/ BeginWrite(b, n)
             \/ ReadRaw \/ (\E c \in Contents : WriteRaw(c))
             \/ PoolModifyUnready \/ PoolFlushBegins \/ UNCHANGED vars
      PROVE  Own
  BY <1>5, <1>k DEF BeginRead, BeginWrite, ReadRaw, WriteRaw, PoolModifyUnready, ModifyUnready,
     PoolFlushBegins, BeginFlush, FlushUnready, pool, vars
<1>6. Own
  BY <1>1, <1>2, <1>3, <1>4, <1>5 DEF SplitNext
<1> QED
  BY <1>t, <1>6 DEF SplitInv, BlocksInOwnPool, IInv, NoDuplicateSlots

\* The invariants of the unified cache, and the pools, hold of the split one.
LEMMA SplitInvHolds == SplitSpec => []SplitInv
<1>1. Init => SplitInv
  BY InvInit, Zenon DEF Init, SplitInv, BlocksInOwnPool
<1> QED
  BY <1>1, SplitInvStep, PTL DEF SplitSpec

\* Every cached block is in the pool mofs_buffer_split.c looks it up in, and
\* is there once.
THEOREM PoolsSeparate == SplitSpec => []BlocksInOwnPool
<1>1. SplitInv => BlocksInOwnPool
  BY DEF SplitInv
<1> QED
  BY <1>1, SplitInvHolds, PTL

\* A result carries the name of the call that gave it.
LEMMA ResultOps == /\ Idle.op = "idle" /\ NoResult.op = "none"
                   /\ \A o, b, cs : Result(o, b, cs).op = o
BY DEF Idle, NoResult, Result

\* File data never pushes a metadata block out of meta_pool.
THEOREM MetaIsSpared == SplitSpec => DataSparesMeta
<1> DEFINE Spared == \A i \in MetaSlots \cap valid :
              /\ ready /\ ready'
              /\ \/ cur.op \in {"read", "write"} /\ cur.at >= DataStart
                 \/ cur = Idle /\ res'.op = "patch" /\ res'.blk >= DataStart
              => i \in valid' /\ blk'[i] = blk[i] /\ data'[i] = data[i]
<1>1. SplitInv /\ [SplitNext]_vars => [Spared]_vars
  <2> SUFFICES ASSUME SplitInv, SplitNext, NEW m \in MetaSlots \cap valid, ready, ready',
                      \/ cur.op \in {"read", "write"} /\ cur.at >= DataStart
                      \/ cur = Idle /\ res'.op = "patch" /\ res'.blk >= DataStart
               PROVE  m \in valid' /\ blk'[m] = blk[m] /\ data'[m] = data[m]
    BY Zenon
  <2>t. TypeOK /\ m \in Slots
    BY DEF SplitInv, IInv, TypeOK
  <2>e. ASSUME NEW i \in Slots, EvictionFails(i) PROVE m \in valid' /\ UNCHANGED <<blk, data>>
    BY <2>e, Zenon DEF EvictionFails, pool
  <2>l. ASSUME NEW i \in Slots \ MetaSlots, LoadFails(i) PROVE m \in valid' /\ UNCHANGED <<blk, data>>
    BY <2>l DEF LoadFails
  <2>f. ASSUME NEW i \in Slots \ MetaSlots, NEW b, NEW c, Fill(i, b, c)
        PROVE  m \in valid' /\ blk'[m] = blk[m] /\ data'[m] = data[m]
    BY <2>f, <2>t DEF Fill, TypeOK
  <2>p. ASSUME NEW b \in Blocks, b >= DataStart PROVE PoolOf(b) = Slots \ MetaSlots
    BY <2>p DEF PoolOf, Blocks
  <2>1. ASSUME NEW i \in Slots, PoolStep(i)
        PROVE  m \in valid' /\ blk'[m] = blk[m] /\ data'[m] = data[m]
    <3>1. CASE PoolReadHit(i)
      BY <3>1, Zenon DEF PoolReadHit, ReadHit
    <3>2. CASE PoolReadMiss(i)
      <4>1. PICK b \in Blocks : cur.at = b /\ b >= DataStart
        BY <3>2, <2>t DEF PoolReadMiss, TypeOK, Idle
      <4>2. i \in Slots \ MetaSlots
        BY <3>2, <4>1, <2>p DEF PoolReadMiss, PoolSelects
      <4> QED
        BY <3>2, <4>2, <2>e, <2>l, <2>f, Zenon DEF PoolReadMiss, PoolLoadFails
    <3>3. ASSUME NEW c \in Contents, PoolWriteHit(i, c) \/ PoolWriteMiss(i, c)
          PROVE  m \in valid' /\ blk'[m] = blk[m] /\ data'[m] = data[m]
      <4>1. PICK b \in Blocks : cur.at = b /\ b >= DataStart
        BY <3>3, <2>t DEF PoolWriteHit, WriteHit, PoolWriteMiss, TypeOK, Idle
      <4>2. i \in Slots \ MetaSlots
        BY <3>3, <4>1, <2>p DEF PoolWriteHit, PoolFinds, PoolWriteMiss, PoolSelects
      <4> QED
        BY <3>3, <4>2, <2>e, <2>f, Zenon DEF PoolWriteHit, WriteHit, PoolWriteMiss
    <3>4. ASSUME NEW b \in Blocks, NEW p \in Parts, NEW v \in Vals,
                 PoolModifyHit(i, b, p, v) \/ PoolModifyMiss(i, b, p, v)
          PROVE  m \in valid' /\ blk'[m] = blk[m] /\ data'[m] = data[m]
      <4>1. CASE EvictionFails(i)
        BY <4>1, <2>e, Zenon
      <4>2. CASE LoadFails(i)
        <5>1. res'.op = "error" /\ cur.op = "idle"
          BY <4>2, <3>4, ResultOps, Zenon DEF LoadFails, PoolModifyHit, ModifyHit, PoolModifyMiss
        <5> QED
          BY <5>1
      <4>3. CASE /\ cur = Idle /\ i \in PoolOf(b) /\ res' = Result("patch", b, {})
                 /\ \E c : Fill(i, b, c)
        <5>1. b >= DataStart
          BY <4>3, Zenon DEF Result, Idle
        <5> QED
          BY <4>3, <5>1, <2>p, <2>f, Zenon
      <4> QED
        BY <3>4, <4>1, <4>2, <4>3, Zenon DEF PoolModifyHit, ModifyHit, PoolFinds, PoolModifyMiss,
           PoolLoadFails, PoolSelects
    <3> QED
      BY <2>1, <3>1, <3>2, <3>3, <3>4, Zenon DEF PoolStep
  <2>2. ~(PoolInit \/ PoolFini \/ ProcessDies \/ PowerFails \/ ReadRaw \/ PoolModifyUnready
          \/ \E c \in Contents : WriteRaw(c))
    BY Zenon DEF PoolModifyUnready, ModifyUnready, PoolInit, PoolFini, BcacheInit, BcacheFini, ProcessDies, PowerFails, ReadRaw, WriteRaw
  <2>3. ~\E b \in Blocks : PoolInvalidate(b)
    <3>1. ASSUME NEW b \in Blocks, PoolInvalidate(b)
          PROVE  res'.op \in {"none", "drop"} /\ cur.op = "idle"
      BY <3>1, ResultOps, Zenon DEF PoolInvalidate
    <3> QED
      BY <3>1
  <2>4. ~(PoolFlush \/ PoolFlushBegins)
    <3>1. ~PoolFlush
      BY DEF PoolFlush, FlushSlot, FlushSync, NoResult, Idle
    <3>2. ~PoolFlushBegins
      BY DEF PoolFlushBegins, BeginFlush, FlushUnready, NoResult, Idle
    <3> QED
      BY <3>1, <3>2, Zenon
  <2>5. ~\E b \in Blocks, n \in 1 .. MaxReq : BeginRead(b, n) \/ BeginWrite(b, n)
    BY DEF BeginRead, BeginWrite, NoResult, Idle
  <2> QED
    BY <2>1, <2>2, <2>3, <2>4, <2>5 DEF SplitNext
<1> QED
  BY <1>1, SplitInvHolds, PTL DEF SplitSpec, DataSparesMeta

\* mofs_buffer_split.c keeps the promises of the block store.
THEOREM SplitRefinesStore == SplitSpec => SplitImplementsBlockStore
<1>1. SplitInv => IInv
  BY DEF SplitInv
<1> QED
  BY <1>1, StoreInit, StoreStep, SplitIsAny, SplitInvHolds, PTL
     DEF SplitSpec, SplitImplementsBlockStore, Store!Spec
=============================================================================
