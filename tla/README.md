# TLA+ models of MOFS

MOFS is a small file system in C: a write-back block cache, block and inode
bitmaps, files whose blocks are listed in chains of on-disk list nodes,
directories of fixed-size entries, and a POSIX-like layer used by a FUSE daemon
and a Zephyr VFS. This directory holds TLA+ modules translated from that code,
TLC runs on small instances, and TLAPS proofs. `PROJECT.json` maps every
definition to the lines it models and lists components and hazards.

## The system and its parts

| part | source (under `src/`) | module |
|---|---|---|
| unified buffer cache | `core/modules/mofs_buffer.c` | `BufferCache` |
| split buffer cache | `core/modules/mofs_buffer_split.c` | `SplitCache` |
| block allocation, list chains | `core/modules/mofs_block.c` | `BlockAlloc` |
| file read, write, truncate | `core/modules/mofs_file.c` | `FileIO` |
| directory entries, readdir, cookies of the FUSE listing | `mofs_dir.c`, `fuse_ops.c` | `Directory` |
| create, mkdir, unlink, rmdir, rename | `mofs_dir.c`, `mofs_file.c` | `Namespace` |
| path resolution, permissions, file handles, callers | `mofs_path.c`, `mofs_perm.c`, `mofs_file.c`, `os_user.c` | `OpenFiles` |
| POSIX layer, core lock, handle pools, FUSE listing | `posix/posix.c`, `os_sync.c`, `fuse_ops.c` | `PosixCalls` |
| format, mount, unmount, Zephyr device handles | `mofs_format.c`, `mofs_core.c`, Zephyr `os_devio.c`, `mofs_vfs.c` | `Volume` |
| inode table and inode bitmap | `mofs_inode.c` | in `Namespace`, `OpenFiles`, `Volume` |
| mkfs, errno tables, command lines | `os/` | not modelled |

A POSIX call takes the recursive core lock, so the core functions run one at a
time. `PosixCalls` and `OpenFiles` model what happens outside the lock; the
other modules take a core call as one action, or as the uninterrupted steps of
one. The layers are tied by abstract specifications: what a layer is shown to
implement is what the layer above assumes.

| abstract specification | implemented by | used by |
|---|---|---|
| `BlockStore`: last write wins, patches are local, losses limited to what no flush of a ready cache has synced | `BufferCache`, `SplitCache` | `BlockAlloc` (`mem`), `Volume` (`dirty`) |
| `FileBlocks`: blocks of files, released ranges may be destroyed, until a lost block is handed out | `BlockAlloc` | `FileIO` (`Allocated`, `Frees`, `Takes`) |
| `ByteFile`: a file is a sequence of bytes | `FileIO` | |
| `DirMap`: names to inode numbers | `Directory` | `Namespace`, `OpenFiles` (`ents`) |

The use is by hand-written operators, not by an `INSTANCE`: that a caller's
assumption is the specification below it is argued in comments, not checked.

## How state and actions correspond to the code

- `BufferCache`: `valid`, `dirty`, `blk`, `data` are the fields of
  `bcache_pool`; `age` replaces `lru_tick`. One iteration of an operation's
  loop is a step. `disk` is what raw reads return and `stable` what each part of
  a block may hold after power loss. On an unready cache a flush returns 0
  without a sync (`FlushUnready`, result `unsynced`), a patch fails and an
  invalidation does nothing. A short read, which the code reports with
  `fraction`, counts as an error. `bcache_ready` is tested under the mutex; the
  code tests it just before.
- `SplitCache` extends it: the first `NumMeta` slots are `meta_pool`, the others
  `data_pool`. Lookup, victim and load are restricted to the pool of the block.
- `BlockAlloc`: `used` is the data bitmap, `ino` the inode's `i_data_head` and
  `i_nr_blocks`, `mem` the data region; `op` is the call in progress and the
  phase it has reached. Each bitmap or node update is a step that can fail.
  Two history variables: `lost`, the mapped blocks that a failing release left
  marked free, and `reused`, set when a call takes one of them.
- `FileIO`: `size`, and `data` as the concatenation of the mapped blocks; `lost`
  are the file's blocks that a failed release left marked free, and `intact`
  says that none of them has been handed out. `spoiled` records the bytes that a
  failing truncate destroyed or a short write left unzeroed.
- `Directory`: `slots` with tombstones; `scan` is a listing in progress, by a
  handle or by FUSE callbacks, and the history of what it returned.
- `Namespace`: `fs` holds file types, entries, link counts and `..`; `broken`
  counts calls that failed half done, and `undone` is set when a rollback has
  left the tree wrong: `add_dir_entry` failed with its entry written, or a step
  of the rollback failed, which the code ignores (`mofs_dir.c:646`, `1290`,
  `1302`, `1306`-`1308`).
- `OpenFiles`: `ino` and `ents` are the tree, `pool` the file handles, `thr[t]`
  the request of a thread: its user, the caller context bound for it, and what
  is left of it between two locked calls.
- `PosixCalls`: `thr[t]` holds the call of a thread with the values it read
  before taking the lock.
- `Volume`: `disk` is an array of bytes in which each on-disk structure takes
  one marked byte at the place the code's layout gives it; `fmt` is the format
  in progress and its next write; `ctx`, `paths`, `ready`, `lock` are what a
  mount sets up; `slots` and `refs` the device handles and CTRL_INIT references.

## Runs

| run | result | bounds |
|---|---|---|
| `BufferCacheEvict` | six properties hold | 2 slots, 3 blocks, requests of 2 blocks: evictions inside a call |
| `BufferCachePatch` | refinement holds | 1 slot, 2 blocks of 2 parts: torn and patched blocks |
| `SplitCache` | three properties hold | 1 slot per pool, 1 metadata and 2 data blocks: `data_pool` evicts, a request crosses the boundary |
| `BlockAlloc` | six properties hold | 5 blocks, 2 files, 2 pointers per node: chains of two nodes, full disk; two failures in any phase |
| `FileIO` | three properties hold | 2 blocks of 2 bytes, writes of up to 4 starting in the block of the old end |
| `Directory` | five properties hold | one block of 5 entries, 4 names; one listing at a time |
| `Namespace` | four properties hold | 4 inodes, 2 names, two half-done calls |
| `PosixCalls` | four properties hold | 2 threads, one handle and one directory slot: reuse races |
| `OpenFiles` | two properties hold | 2 threads, 2 users, 3 inodes, 1 handle, paths of two components over one name: inode numbers and the handle slot are reused |
| `Volume` | six properties hold | 10 sectors of 8 bytes, 2 device slots, two formats; see below |
| `FileIOGap`, `DirectoryGrow` | violated | see "Where the code differs" |

What the runs show, in the order of the table: the cache and its split form are
a faithful block store under failing I/O, process death and power loss; traffic
on file data never takes metadata out of the split cache; chains stay readable,
unshared and marked used, whatever fails, until a call takes a block that a
failed release left marked free; files are byte sequences up to the same point; a directory
is a map, a handle's listing is exact, and a FUSE listing errs only when an
entry its cookie counts was removed or added; the tree stays a tree until
a rollback goes wrong, and a failed call, that one included, touches only what it
was about; listings are atomic and handles and lock
are given back; every access is one the inode, as it is now, gives to the user
who asked; and formats, mounts and unmounts cut short at any step leave no
mixture of two file systems, no leaked handle and no unreported loss.

Most state machines carry a `TypeOK` that one of the invariants named above
includes as its first conjunct.

Block sizes of the `Volume` run are chosen for their cases: 2 gives more blocks
than `MaxHole` (the 32-bit refusal, made after the metadata was cleared); 4 and
8 can be mounted, with blocks of half a sector and of a whole one; 16 puts the
root's list node outside the disk; 12 is not a power of two. Size 10 gives a
volume smaller than its device. `NumPoints`, `NumRefs` and `NumPaths` bound
mounts on top of each other; 3 of each fills the slot table.

Bounds that keep out behaviour the code has:

- `NotReused`, the constraint of the `BlockAlloc` run. A release that fails in its
  clear loop, or in its rollback, leaves mapped blocks marked free. Repeated
  releases and allocations that take other blocks are followed. The call that
  takes such a block sets `reused`; from there two files may share a block, no
  property says anything, and TLC goes no further. (Without the constraint the
  run has 6.3 million states and the same result.)
- The disk of the `BlockAlloc` run is full before a file reaches
  `MaxFileBlocks`, so the limit on a file's blocks is reached only in `FileIO`.
- `FileIO` has `MaxGap = 0`. With 1, `NoStaleBytes` fails (`FileIOGap`).
- `Directory` stays in one block. `DirectoryGrow` lifts this, and fails. The
  EFBIG test at the largest size (`mofs_dir.c:395`) is therefore not reached.
- `NotUndone`, the constraint of the `Namespace` run. A rollback that goes wrong
  leaves an entry that names a free inode, two names of one directory, a wrong
  `..` or a link count that is too low. The step that does so is checked
  (`FailedCallKeepsRest`); the calls after it are in the specification, and TLC
  does not follow them. `MaxBroken` bounds the failed calls of a behaviour.
- `NothingLeaks` and `UnmountDurable` of `Volume` are stated as long as no mount
  began on top of another, because such a mount leaks and loses (below).

## Where the code differs from its comments

Two runs show it:

1. `FileIOGap`: `mofs_file.c:795` "zero-fill the gap between old EOF and write
   offset if needed". Whole blocks of the gap are not zeroed.
2. `DirectoryGrow`: `mofs_dir.c:331` "Extends directory data blocks and `i_size`
   when append needs more space." The inode written back was read before the
   allocation, so the old list head returns.

Others, and behaviour a reader may not expect, are part of the models; the passing properties are worded so that
they say what the code does:

3. `mofs_dir.c:1184` "Rejects a directory move into its own descendant." The
   target has been removed by then (`FailedCallKeepsRest`).
4. `mofs_file.c:235` "Rolls back allocated inode when creation fails before link
   completion." The entry may already be on disk and then names a free inode
   (`CreateStrays`; `undone` in `NamesMatchInodes`). The rollbacks of mkdir and
   rename ignore their own failures (`CreateBreaks`, `RenameStrays`).
5. `mofs_open_core` keeps a file it created when a later check of the open
   fails (`OpenCreate`).
6. A handle whose file was unlinked works on the next file given the inode
   number, if that file's mode admits the caller (`AccessesAllowed`).
7. `mofs_format` returns 0 for volumes of too few inodes for inode 2, and for an
   `fs_size` below the device's size; neither can be mounted. It writes the
   superblock before the root directory and does not sync, so an interrupted
   format may leave a mountable volume without a root.
8. `mofs_init_core` does not ask whether a volume is mounted. A second mount
   leaks the first one's device slot and path; when it fails it resets the
   context, in one case with the first mount's unwritten blocks dropped, and the
   later unmount returns 0.
9. A failed flush at unmount is reported, and the cache is dropped all the same.
10. `mofs_read`, `mofs_write` and `mofs_ftruncate` read the handle before they
    take the lock (`posix.c:235`, `453`). Two writes on a shared handle can
    start at the same offset; `PosixCalls` has that interleaving and no property
    forbids it.
11. `mofs_file.c:926` "MOFS_EIO if block read/write does not complete as
    expected." `zero_file_byte_range` does not look at how much was written
    (line 995): after a short write a growing truncate returns 0 and the rest of
    the new range keeps what its blocks held (`Grow`).
12. `mofs_bcache_flush` of an unready cache returns 0 without `dev_fsync`
    (`mofs_buffer.c:531`, `mofs_buffer_split.c:644`). Its comment says so; raw
    writes made before it can still be lost (`SyncIsDurable`, second part).
13. A block that a failed release left marked free can be handed out while its
    file still maps it (`reused`).

## Fairness

`BlockAlloc` has weak fairness on the steps of the call in progress: a call is
straight-line code with bounded loops. `PosixCalls` has weak fairness on the
steps of a thread that holds the lock; nothing is assumed of the order in which
the mutex admits threads, so no thread is shown to get it. The other modules
have no liveness property: their calls are single actions, or, as a format,
may stop for good at any step.

## Proofs

`BufferCacheProofs` proves, for every number of slots, blocks, parts and values
(`SizesAssumption`: the sizes are positive and 0 is a value) and for any
replacement policy: `TypeCorrect`, `NoDuplicates`, `CleanSlotsMatch`,
`FlushIsDurable`, `FlushAdvances`, and that the cache implements `BlockStore`
(`CacheRefinesStore`). They come from the inductive invariant `IInv`.
`CleanMatchesDisk` and `SyncIsDurable` are not inductive alone: a raw write could
change the device under a clean slot unless an unready cache is empty, a victim's
write-back could change it under another slot unless no block is cached twice,
and a flush is durable only if the slots it has passed stay clean.
`FlushProgress` states the missing parts. The runs check every conjunct of
`IInv`. For the split cache (`SplitAssumption`: both pools have a slot) a miss in
one pool is a miss in the whole cache as long as every block is in its own pool,
so each of its steps is a step of a cache with some replacement policy:
`PoolsSeparate`, `MetaIsSpared`, `SplitRefinesStore`.

Only model-checked: everything about the other modules, and liveness, which with
`ENABLED` and induction over data is beyond the prover.

## Not modelled

- mkfs, the daemons' command lines, `mofs_errno` and the errno tables:
  conversions and argument parsing without state of the file system.
- Timestamps, and the bit arithmetic inside a bitmap block.
- The seek position of the device: every transfer follows a seek of the same
  call, under one lock.
- Calls that run while the volume is being unmounted: `docs/concurrency.md`
  asks for mount and unmount from a single thread, and `Volume` lets clients
  write only while `ctx.init` is TRUE. (`ctx.init` is set and never read.)
- A second disk. Mounting one on top of a mounted other would keep the cache of
  the first; `Volume` has one disk.
- The second, unlocked call of `mofs_vfs_readdir`, which may report a stale type
  and size for an entry removed in between.
- Permission checks inside rename: `Namespace` has them as a refusal at the
  place where they are made.
