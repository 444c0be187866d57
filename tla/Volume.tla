------------------------------- MODULE Volume -------------------------------
(***************************************************************************)
(* The life of a volume on a Zephyr disk: mofs_format (mofs_format.c),     *)
(* mount and unmount (mofs_core.c, called by mofs_vfs.c), and the device   *)
(* handles they are built on (service/os_devio.c of the Zephyr port).      *)
(*                                                                         *)
(* The disk is an array of bytes.  A structure the code writes (superblock,*)
(* a byte of a bitmap, the header of a list node, an inode) is one byte    *)
(* here, marked with what it is; its place follows from the layout the     *)
(* code computes.  Every byte carries the number of the format that wrote  *)
(* it.  A format may end after any of its writes; mount and unmount write  *)
(* to the disk only through the cache and are one action each.  The seek   *)
(* position of a device handle is left out: each transfer follows a seek   *)
(* of the same call.  The handle pools that mount clears (mofs_core.c      *)
(* 113-123) are the initial states of PosixCalls and OpenFiles.            *)
(***************************************************************************)
EXTENDS Integers, Sequences, FiniteSets

CONSTANTS SectorSize, SectorCount,  \* of the disk
          MinBlk, MaxBlk,           \* MOFS_BLK_SIZE_MIN, MOFS_BLK_SIZE_MAX
          BlkSizes, FsSizes,        \* arguments of mofs_format
          MaxHole,                  \* MOFS_UINT32_MAX
          NumSlots,                 \* MOFS_DEV_SLOT_MAX
          Values,                   \* what a client writes to its block
          NumFormats,               \* bound: formats that write to the disk
          NumPoints,                \* bound: mount points at a time
          NumRefs,                  \* bound: CTRL_INIT references
          NumPaths                  \* bound: dev_path strings that overlapping mounts leave

ASSUME DiskAssumption == /\ {SectorSize, SectorCount, NumSlots} \subseteq Nat \ {0}
                         /\ MinBlk \in Nat \ {0} /\ MaxBlk \in Nat
                         /\ BlkSizes \subseteq Nat /\ FsSizes \subseteq Nat
                         /\ {NumFormats, NumPoints, NumRefs, NumPaths} \subseteq Nat

DevBytes == SectorSize * SectorCount
Addrs    == 0 .. DevBytes - 1
Slots    == 0 .. NumSlots - 1
InodeSize == 1         \* sizeof(mofs_inode_t): structures are one byte
RootInode == 2         \* MOFS_ROOT_INODE_NUM
Failed    == -1

VARIABLES disk,      \* its bytes
          synced,    \* CTRL_SYNC has run since the last write
          slots,     \* dev_slots that are used
          refs,      \* external: CTRL_INIT references of the disk
          fmt,       \* the mofs_format call, see NoFormat
          ctx,       \* the core context
          paths,     \* strings allocated for dev_path and not freed
          ready,     \* bcache_ready
          dirty,     \* dirty[b]: the block b that the cache has yet to write
          lock,      \* zephyr_core_sync_initialized
          points,    \* external: mount points the VFS has registered
          made,      \* history: arguments of the format that last returned 0
          want,      \* history: what the client last wrote, Failed if nothing
          clean,     \* history: the last unmount returned 0
          overlap    \* history: a mount began while ctx.init was TRUE

dev  == <<slots, refs>>
core == <<ctx, paths, ready, dirty, lock, points>>
hist == <<made, want, clean, overlap>>
vars == <<disk, synced, dev, fmt, core, hist>>

Byte(t, v, a, g) == [tag |-> t, val |-> v, aux |-> a, gen |-> g]
Zero == Byte("zero", 0, 0, 0)
Old  == Byte("old", 0, 0, 0)
Zeros(n) == [i \in 1 .. n |-> Zero]

Sizes    == [size : Nat, blk : Nat]
NoSize   == [size |-> 0, blk |-> 0]
NoFormat == [at |-> 0, gen |-> 0, fd |-> Failed, sb |-> NoSize]
NoCtx(sb) == [init |-> FALSE, path |-> FALSE, fd |-> 0, sb |-> sb]
Empty    == <<>>

Init == /\ disk = [a \in Addrs |-> Old] /\ synced = TRUE
        /\ slots = {} /\ refs = 0
        /\ fmt = NoFormat
        /\ ctx = NoCtx(NoSize) /\ paths = 0
        /\ ready = FALSE /\ dirty = Empty /\ lock = FALSE
        /\ points = 0
        /\ made = NoSize /\ want = Failed /\ clean = FALSE /\ overlap = FALSE

-----------------------------------------------------------------------------
(* Device handles.                                                         *)

\* dev_open: the lowest free slot; a failure after CTRL_INIT frees the slot
\* and keeps the reference.
OpenOutcomes ==
  {[slots |-> slots, refs |-> refs, fd |-> Failed]}
  \cup (IF slots = Slots THEN {} ELSE
        LET s == CHOOSE s \in Slots \ slots : \A r \in Slots \ slots : s <= r
        IN  {[slots |-> slots, refs |-> refs + 1, fd |-> Failed],
             [slots |-> slots \cup {s}, refs |-> refs + 1, fd |-> s]})

\* Mutant: the slot is not looked at before CTRL_DEINIT.
CloseOutcomesUnchecked(sl, rf, fd) == {[slots |-> sl \ {fd}, refs |-> rf - 1, ok |-> TRUE]}

\* dev_close: the slot is freed even when CTRL_DEINIT fails.
CloseOutcomes(sl, rf, fd) ==
  IF fd \in sl
  THEN {[slots |-> sl \ {fd}, refs |-> rf - 1, ok |-> TRUE],
        [slots |-> sl \ {fd}, refs |-> rf, ok |-> FALSE]}
  ELSE {[slots |-> sl, refs |-> rf, ok |-> FALSE]}

\* The first n bytes of data can be transferred before the end of the disk.
Fits(off, data) == IF off + Len(data) <= DevBytes THEN Len(data) ELSE DevBytes - off

\* Mutant: a partial sector is written without having been read.
DevWriteBlind(d, off, data, s) ==
  [a \in Addrs |-> IF a \in off .. off + Fits(off, data) - 1 /\ a \div SectorSize < s THEN data[a - off + 1]
                   ELSE IF a \div SectorSize \in off \div SectorSize .. (off + Fits(off, data) - 1) \div SectorSize
                   THEN Zero ELSE d[a]]

\* dev_transfer of data to off, up to the sector s where disk_access_write
\* fails: a sector written in part keeps its other bytes.
DevWrite(d, off, data, s) ==
  [a \in Addrs |-> IF a \in off .. off + Fits(off, data) - 1 /\ a \div SectorSize < s
                   THEN data[a - off + 1] ELSE d[a]]

\* What a write that fails may leave: nothing, some of its sectors, or what
\* fits before the end of the disk (dev_write then returns a short count).
TornWrites(d, off, data) ==
  {d} \cup (IF off >= DevBytes THEN {} ELSE
            {DevWrite(d, off, data, s) : s \in off \div SectorSize .. (off + Fits(off, data) - 1) \div SectorSize})
      \cup (IF off < DevBytes /\ Fits(off, data) < Len(data) THEN {DevWrite(d, off, data, SectorCount)} ELSE {})

-----------------------------------------------------------------------------
(* Format.                                                                 *)

CeilDiv(a, b) == (a + b - 1) \div b

\* mofs_validate_logical_blk_size
ValidBlk(b) == b \in MinBlk .. MaxBlk /\ \E n \in 0 .. b : b = 2 ^ n

\* The layout of sb.size bytes in blocks of sb.blk bytes: what the superblock
\* holds.  A bitmap block has a bit for 8 * blk objects.
Layout(sb) ==
  LET hole   == sb.size \div sb.blk
      inodes == CeilDiv(sb.size, 4 * sb.blk)
      dbm    == 1 + CeilDiv(inodes, 8 * sb.blk)
      table  == dbm + CeilDiv(hole, 8 * sb.blk)
  IN  [hole |-> hole, inode_num |-> inodes, inode_bitmap |-> 1, data_bitmap |-> dbm,
       inode_table |-> table, data_region |-> table + CeilDiv(inodes * InodeSize, sb.blk)]

RootAt(sb) == Layout(sb).inode_table * sb.blk + RootInode * InodeSize

Put(off, data) == [off |-> off, data |-> data]

Clears(sb) == [i \in 1 .. Layout(sb).data_region |-> Put((i - 1) * sb.blk, Zeros(sb.blk))]

\* The superblock: hole_blk_num to blk_size follow from size and blk.
Super(sb, g) == Put(0, <<Byte("super", sb.size, sb.blk, g)>>)

\* Bit 2 of the inode bitmap (0x04), bits 0 and 1 of the data bitmap (0x03),
\* the root directory's data block and list node, the root inode.
RootWrites(sb, g) ==
  LET l    == Layout(sb)
      At(b, data) == Put(b * sb.blk, data)
      node == <<Byte("node", l.data_region, 0, g)>> \o Zeros(sb.blk - 1)
  IN  <<At(l.inode_bitmap, <<Byte("bits", 4, 0, g)>>),
        At(l.data_bitmap, <<Byte("bits", 3, 0, g)>>),
        At(l.data_region, Zeros(sb.blk)),
        At(l.data_region + 1, Zeros(sb.blk)),
        At(l.data_region + 1, node),
        Put(RootAt(sb), <<Byte("root", l.data_region + 1, 0, g)>>)>>

\* Mutant: the superblock goes out when block 0 has been cleared.
FormatWritesSuperFirst(sb, g) ==
  <<Head(Clears(sb)), Super(sb, g)>> \o Tail(Clears(sb)) \o RootWrites(sb, g)

\* What mofs_format writes, in its order.
FormatWrites(sb, g) == Clears(sb) \o <<Super(sb, g)>> \o RootWrites(sb, g)

\* The size mofs_format works with.
FormatSize(fs, blk) == IF fs > 0 THEN fs * blk ELSE DevBytes

\* mofs_format up to its first write: the block size or the layout may be refused.
FormatBegin(fs, blk) ==
  /\ fmt.at = 0 /\ points = 0
  /\ \E o \in OpenOutcomes :
       /\ o.refs <= NumRefs
       /\ \/ /\ o.fd = Failed
             /\ slots' = o.slots /\ refs' = o.refs
             /\ UNCHANGED <<fmt, made, want, clean>>
          \/ /\ o.fd # Failed
             /\ LET sb == [size |-> FormatSize(fs, blk), blk |-> blk] IN
                IF ValidBlk(blk) /\ Layout(sb).hole > Layout(sb).data_region
                THEN /\ fmt.gen < NumFormats
                     /\ fmt' = [at |-> 1, gen |-> fmt.gen + 1, fd |-> o.fd, sb |-> sb]
                     /\ slots' = o.slots /\ refs' = o.refs
                     /\ made' = NoSize /\ want' = Failed /\ clean' = FALSE
                ELSE /\ \E c \in CloseOutcomes(o.slots, o.refs, o.fd) : slots' = c.slots /\ refs' = c.refs
                     /\ UNCHANGED <<fmt, made, want, clean>>
  /\ UNCHANGED <<disk, synced, core, overlap>>

FormatEnds == fmt' = [NoFormat EXCEPT !.gen = fmt.gen]

\* After the metadata has been cleared, a volume with too many blocks is refused.
TooMany == fmt.at = Layout(fmt.sb).data_region + 1 /\ Layout(fmt.sb).hole > MaxHole

\* One seek_device and write_exact.
FormatWrite ==
  /\ fmt.at > 0
  /\ LET w == FormatWrites(fmt.sb, fmt.gen) IN
       /\ fmt.at <= Len(w)
       /\ ~TooMany
       /\ w[fmt.at].off <= DevBytes
       /\ Fits(w[fmt.at].off, w[fmt.at].data) = Len(w[fmt.at].data)
       /\ disk' = DevWrite(disk, w[fmt.at].off, w[fmt.at].data, SectorCount)
  /\ synced' = FALSE
  /\ fmt' = [fmt EXCEPT !.at = @ + 1]
  /\ UNCHANGED <<dev, core, hist>>

\* A seek, a write, mofs_malloc or mofs_now fails, or the volume is refused.
FormatFails ==
  /\ fmt.at > 0
  /\ LET w == FormatWrites(fmt.sb, fmt.gen) IN
       /\ fmt.at <= Len(w)
       /\ disk' \in IF TooMany THEN {disk} ELSE TornWrites(disk, w[fmt.at].off, w[fmt.at].data)
  /\ synced' = (synced /\ disk' = disk)
  /\ \E c \in CloseOutcomes(slots, refs, fmt.fd) : slots' = c.slots /\ refs' = c.refs
  /\ FormatEnds
  /\ UNCHANGED <<core, hist>>

\* The device is closed, without a sync; its error is the result.
FormatReturns ==
  /\ fmt.at > 0
  /\ fmt.at = Len(FormatWrites(fmt.sb, fmt.gen)) + 1
  /\ \E c \in CloseOutcomes(slots, refs, fmt.fd) :
       /\ slots' = c.slots /\ refs' = c.refs
       /\ made' = IF c.ok THEN fmt.sb ELSE NoSize
  /\ FormatEnds
  /\ UNCHANGED <<disk, synced, core, want, clean, overlap>>

-----------------------------------------------------------------------------
(* Mount.                                                                  *)

\* The superblock that mofs_init_core reads from byte 0.
SuperOn(d) == [size |-> d[0].val, blk |-> d[0].aux]

\* Its checks: magic number, block size, volume size.
Accepted(d) == /\ d[0].tag = "super"
               /\ ValidBlk(d[0].aux)
               /\ DevBytes \div d[0].aux = Layout(SuperOn(d)).hole

\* The root inode must be in the inode table (mofs_read_inode).
Mountable(d) == Accepted(d) /\ RootInode < Layout(SuperOn(d)).inode_num

\* mofs_read_inode reads the block b through the cache.
Block(b, blk) == IF b \in DOMAIN dirty THEN dirty[b] ELSE [i \in 1 .. blk |-> disk[b * blk + i - 1]]

\* The cache when the block b has been written to it.
Holding(b, data) == [x \in DOMAIN dirty \cup {b} |-> IF x = b THEN data ELSE dirty[x]]

\* The inode with the owner the mount gives to the root directory.
Owned(byte, g) == [byte EXCEPT !.tag = IF @ = "zero" THEN "bare" ELSE @, !.aux = 1, !.gen = g]

\* mofs_write_inode: the block of the inode table with the new inode, in the cache.
RootOwned(sb, g) ==
  LET b == RootAt(sb) \div sb.blk
  IN  Holding(b, [Block(b, sb.blk) EXCEPT ![(RootAt(sb) % sb.blk) + 1] = Owned(@, g)])

\* mofs_init_core succeeds.  A cache that is ready is kept (mofs_bcache_init).
MountSucceeds ==
  /\ fmt.at = 0 /\ points < NumPoints /\ paths < NumPaths
  /\ Mountable(disk)
  /\ \E o \in OpenOutcomes :
       /\ o.fd # Failed /\ o.refs <= NumRefs
       /\ slots' = o.slots /\ refs' = o.refs
       /\ ctx' = [init |-> TRUE, path |-> TRUE, fd |-> o.fd, sb |-> SuperOn(disk)]
  /\ dirty' = RootOwned(SuperOn(disk), disk[0].gen)
  /\ ready' = TRUE /\ lock' = TRUE
  /\ paths' = paths + 1 /\ points' = points + 1
  /\ overlap' = (overlap \/ ctx.init) /\ clean' = FALSE
  /\ UNCHANGED <<disk, synced, fmt, made, want>>

\* mofs_malloc of the path or dev_open fails (out1, out2): the context is
\* reset and nothing else.
MountNoDevice ==
  /\ fmt.at = 0 /\ points < NumPoints
  /\ \E o \in OpenOutcomes : o.fd = Failed /\ o.refs <= NumRefs /\ slots' = o.slots /\ refs' = o.refs
  /\ ctx' = NoCtx(ctx.sb)
  /\ overlap' = (overlap \/ ctx.init) /\ clean' = FALSE
  /\ UNCHANGED <<disk, synced, fmt, paths, ready, dirty, lock, points, made, want>>

\* Mutant: an error behind dev_open leaves by out2.
MountFailsOpen ==
  /\ fmt.at = 0 /\ points < NumPoints
  /\ \E o \in OpenOutcomes : o.fd # Failed /\ o.refs <= NumRefs /\ slots' = o.slots /\ refs' = o.refs
  /\ ctx' = NoCtx(ctx.sb)
  /\ overlap' = (overlap \/ ctx.init) /\ clean' = FALSE
  /\ UNCHANGED <<disk, synced, fmt, paths, ready, dirty, lock, points, made, want>>

\* A later step fails (out3): the cache is dropped without a flush, the
\* device is closed.  ctx.sb is assigned once the checks have passed.
MountFails ==
  /\ fmt.at = 0 /\ points < NumPoints
  /\ \E o \in OpenOutcomes : /\ o.fd # Failed /\ o.refs <= NumRefs
                             /\ \E c \in CloseOutcomes(o.slots, o.refs, o.fd) : slots' = c.slots /\ refs' = c.refs
  /\ ready' = FALSE /\ dirty' = Empty
  /\ \/ ctx' = NoCtx(ctx.sb) /\ lock' = lock
     \/ Accepted(disk) /\ ctx' = NoCtx(SuperOn(disk)) /\ lock' \in {lock, TRUE}
  /\ overlap' = (overlap \/ ctx.init) /\ clean' = FALSE
  /\ UNCHANGED <<disk, synced, fmt, paths, points, made, want>>

-----------------------------------------------------------------------------
(* A mounted volume.  The cache is BufferCache; here it is the blocks it   *)
(* has yet to write.  Clients call while ctx.init is TRUE.                 *)

\* A client's file has its data in the block behind the root directory's two.
ClientBlock == Layout(ctx.sb).data_region + 2

HasRoot == Block(RootAt(ctx.sb) \div ctx.sb.blk, ctx.sb.blk)[(RootAt(ctx.sb) % ctx.sb.blk) + 1].tag = "root"

ClientWrites(v) ==
  /\ ctx.init /\ HasRoot /\ ClientBlock < Layout(ctx.sb).hole
  /\ dirty' = Holding(ClientBlock, [i \in 1 .. ctx.sb.blk |-> Byte("data", v, 0, disk[0].gen)])
  /\ want' = v
  /\ UNCHANGED <<disk, synced, dev, fmt, ctx, paths, ready, lock, points, made, clean, overlap>>

Without(bs) == [b \in DOMAIN dirty \ bs |-> dirty[b]]

\* The disk when the blocks bs have been written back.
WrittenBack(bs) == [a \in Addrs |-> LET b == a \div ctx.sb.blk IN
                                    IF b \in bs THEN dirty[b][(a % ctx.sb.blk) + 1] ELSE disk[a]]

\* mofs_bcache_flush through ctx.dev_fd: blocks are written back until one
\* fails, then comes dev_fsync.
FlushOutcomes ==
  LET Failing(bs) == {WrittenBack(bs)} \cup
                     UNION {TornWrites(WrittenBack(bs), b * ctx.sb.blk, dirty[b]) : b \in DOMAIN dirty \ bs}
  IN  IF ctx.fd \notin slots THEN {[disk |-> disk, left |-> dirty, ok |-> FALSE]} ELSE
      {[disk |-> WrittenBack(DOMAIN dirty), left |-> Empty, ok |-> TRUE]} \cup
      UNION {{[disk |-> d, left |-> Without(bs), ok |-> FALSE] : d \in Failing(bs)} : bs \in SUBSET DOMAIN dirty}

\* mofs_fsync, and the eviction of dirty blocks (a flush that stops early).
Flush ==
  /\ ctx.init
  /\ \E f \in FlushOutcomes : /\ disk' = f.disk /\ dirty' = f.left
                              /\ synced' = (f.ok \/ (synced /\ f.disk = disk))
  /\ UNCHANGED <<dev, fmt, ctx, paths, ready, lock, points, hist>>

\* Mutant: the cache is released before it is flushed.
UnmountDropsFirst ==
  /\ fmt.at = 0 /\ points > 0
  /\ ready' = FALSE /\ dirty' = Empty
  /\ \E c \in CloseOutcomes(slots, refs, ctx.fd) :
       /\ slots' = c.slots /\ refs' = c.refs
       /\ clean' = c.ok
       /\ want' = IF c.ok THEN want ELSE Failed
       /\ points' = IF c.ok THEN points - 1 ELSE points
  /\ paths' = IF ctx.path THEN paths - 1 ELSE paths
  /\ ctx' = NoCtx(ctx.sb)
  /\ UNCHANGED <<disk, synced, fmt, lock, made, overlap>>

\* Mutant: ctx.init is left as it was.
UnmountKeepsInit ==
  /\ fmt.at = 0 /\ points > 0
  /\ ready' = FALSE /\ dirty' = Empty
  /\ \E c \in CloseOutcomes(slots, refs, ctx.fd) : slots' = c.slots /\ refs' = c.refs
  /\ ctx' = [NoCtx(ctx.sb) EXCEPT !.init = ctx.init]
  /\ UNCHANGED <<disk, synced, fmt, paths, points, lock, made, want, clean, overlap>>

\* mofs_fini_core: the cache is released and the device closed whatever the
\* flush returned.  The VFS keeps a mount point whose unmount failed.
Unmount ==
  /\ fmt.at = 0 /\ points > 0
  /\ \E f \in IF ready THEN FlushOutcomes ELSE {[disk |-> disk, left |-> Empty, ok |-> TRUE]} :
     \E c \in CloseOutcomes(slots, refs, ctx.fd) :
       /\ disk' = f.disk
       /\ synced' = ((ready /\ f.ok) \/ (synced /\ f.disk = disk))
       /\ slots' = c.slots /\ refs' = c.refs
       /\ clean' = (f.ok /\ c.ok)
       /\ want' = IF f.ok /\ c.ok THEN want ELSE Failed
       /\ points' = IF f.ok /\ c.ok THEN points - 1 ELSE points
  /\ ready' = FALSE /\ dirty' = Empty
  /\ paths' = IF ctx.path THEN paths - 1 ELSE paths
  /\ ctx' = NoCtx(ctx.sb)
  /\ UNCHANGED <<fmt, lock, made, overlap>>

\* The system restarts; the disk keeps the writes it took.
Restart ==
  /\ slots' = {} /\ refs' = 0
  /\ fmt' = [NoFormat EXCEPT !.gen = fmt.gen]
  /\ ctx' = NoCtx(NoSize) /\ paths' = 0 /\ points' = 0
  /\ ready' = FALSE /\ dirty' = Empty /\ lock' = FALSE
  /\ want' = Failed /\ clean' = FALSE /\ overlap' = FALSE
  /\ UNCHANGED <<disk, synced, made>>

Next == \/ \E fs \in FsSizes, blk \in BlkSizes : FormatBegin(fs, blk)
        \/ FormatWrite \/ FormatFails \/ FormatReturns
        \/ MountSucceeds \/ MountNoDevice \/ MountFails
        \/ \E v \in Values : ClientWrites(v)
        \/ Flush \/ Unmount \/ Restart

Spec == Init /\ [][Next]_vars

-----------------------------------------------------------------------------
(* Properties.                                                             *)

\* The disk, the device handles and the core context have their types: every
\* handle is a slot of dev_slots and the reference count is never negative.
TypeOK == /\ DOMAIN disk = Addrs /\ synced \in BOOLEAN
          /\ slots \subseteq Slots /\ refs \in 0 .. NumRefs
          /\ fmt \in [at : Nat, gen : 0 .. NumFormats, fd : Slots \cup {Failed}, sb : Sizes]
          /\ ctx \in [init : BOOLEAN, path : BOOLEAN, fd : Slots, sb : Sizes]
          /\ {ready, lock, clean, overlap} \subseteq BOOLEAN
          /\ paths \in 0 .. NumPaths /\ points \in 0 .. NumPoints
          /\ \A b \in DOMAIN dirty : DOMAIN dirty[b] = 1 .. ctx.sb.blk

\* A disk whose superblock can be read never mixes two file systems: whatever
\* write a format stopped at, the metadata of the layout in the superblock is
\* zero or was written by the same format (mofs_format clears block 0 first and
\* writes the superblock only when all the metadata is clear).
NoMixture ==
  disk[0].tag = "super" =>
    \A a \in 0 .. Layout(SuperOn(disk)).data_region * disk[0].aux - 1 :
      disk[a] = Zero \/ disk[a].gen = disk[0].gen

\* After a format that returned 0 the root directory can be reached on the disk,
\* through failed mounts, changes of owner, writes of clients and restarts: its
\* inode, its list node and its empty data block are there, inside the volume
\* and marked used.  A volume as large as the disk can be mounted.  Volumes of
\* too few inodes for inode 2 are left out: mofs_format accepts them.
FormattedHasRoot ==
  made # NoSize /\ Layout(made).inode_num > RootInode =>
    LET l    == Layout(made)
        At(b) == disk[b * made.blk]
        root == disk[RootAt(made)]
    IN  /\ SuperOn(disk) = made
        /\ At(l.inode_bitmap).tag = "bits" /\ At(l.inode_bitmap).val = 4
        /\ At(l.data_bitmap).tag = "bits" /\ At(l.data_bitmap).val = 3
        /\ root.tag = "root" /\ root.val \in l.data_region .. l.hole - 1
        /\ At(root.val).tag = "node" /\ At(root.val).val \in l.data_region .. l.hole - 1
        /\ \A i \in 0 .. made.blk - 1 : disk[At(root.val).val * made.blk + i] = Zero
        /\ made.size \div made.blk = DevBytes \div made.blk => Mountable(disk)

\* While ctx.init is TRUE the core has all it works with: a cache, the core lock,
\* an open device that is initialised, and the superblock of the disk, whatever
\* mounts and unmounts failed or overlapped before.
MountedIsBacked ==
  ctx.init => ready /\ lock /\ ctx.path /\ ctx.fd \in slots /\ refs > 0 /\ ctx.sb = SuperOn(disk)

\* The disk is not de-initialised under an open handle: dev_open and dev_close
\* leave at least one CTRL_INIT reference for each used slot, also when a mount
\* point is unmounted whose context is gone (dev_close of handle 0).  The table
\* of slots is not overrun (TypeOK).
DiskStaysInitialised == TypeOK /\ refs >= Cardinality(slots)

\* Failed formats, failed mounts and unmounts give back the device slot and the
\* path they took, as long as no mount began on top of another.
NothingLeaks ==
  ~overlap => /\ slots = (IF ctx.init THEN {ctx.fd} ELSE {}) \cup (IF fmt.at > 0 THEN {fmt.fd} ELSE {})
              /\ paths = IF ctx.init THEN 1 ELSE 0

\* An unmount that returned 0 has made durable what clients wrote, in this mount
\* and in earlier ones (mofs_fini_core flushes before it drops the cache and
\* reports a failed flush), as long as no mount began on top of another.
UnmountDurable ==
  clean /\ ~overlap =>
    /\ synced
    /\ want # Failed => LET sb == SuperOn(disk) IN
                        \A i \in 0 .. sb.blk - 1 : disk[(Layout(sb).data_region + 2) * sb.blk + i].val = want
=============================================================================
