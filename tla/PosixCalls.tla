----------------------------- MODULE PosixCalls -----------------------------
(***************************************************************************)
(* Threads in the POSIX layer (posix.c), the recursive core lock they take *)
(* (os_sync.c), the pools of file and directory handles, and the FUSE      *)
(* listing that holds the lock around opendir, readdir and closedir        *)
(* (fuse_ops.c).                                                           *)
(*                                                                         *)
(* A call is: the checks and reads made before the lock is taken, the core *)
(* function under the lock, the release.  Threads share handles: one may   *)
(* close a handle while another is about to use it.  What is in the files  *)
(* is the business of FileIO; here a read or a write moves the offset by   *)
(* at most one unit.                                                       *)
(***************************************************************************)
EXTENDS Integers

CONSTANTS Threads,
          NumHandles,   \* MOFS_FILEHANDLE_POOL_SIZE
          NumDirs,      \* MOFS_DIRHANDLE_POOL_SIZE
          MaxFile,      \* mofs_max_file_bytes()
          MaxOff,       \* MOFS_UINT32_MAX, the largest file_offset
          MaxEntries    \* bound: entries in the listed directory

ASSUME ThreadsAssumption == "nobody" \notin Threads

ASSUME PoolAssumption == /\ NumHandles \in Nat /\ NumDirs \in Nat
                         /\ MaxFile \in Nat /\ MaxOff \in Nat /\ MaxFile <= MaxOff
                         /\ MaxEntries \in Nat

VARIABLES lock,     \* the thread that owns core_sync_mutex, or Nobody
          depth,    \* its recursion count
          pool,     \* filehandle_pool
          dirpool,  \* the used slots of dirhandle_pool
          entries,  \* number of entries of the directory that is listed
          thr       \* thr[t]: the call thread t is in, and its locals

callsVars == <<lock, depth, pool, dirpool, entries, thr>>

Nobody  == "nobody"
Handles == 1 .. NumHandles
Flags   == {{"r"}, {"w"}, {"r", "w"}}
Unused  == [used |-> FALSE, off |-> 0, flags |-> {}]
Idle    == [call |-> "none", pc |-> "idle", h |-> 0, off |-> 0, flags |-> {}, saw |-> 0]

CallsInit == /\ lock = Nobody /\ depth = 0
             /\ pool = [h \in Handles |-> Unused]
             /\ dirpool = {}
             /\ entries = 0
             /\ thr = [t \in Threads |-> Idle]

-----------------------------------------------------------------------------
(* Before the lock.                                                        *)

Begin(t, locals) ==
    /\ thr[t] = Idle
    /\ thr' = [thr EXCEPT ![t] = [locals EXCEPT !.pc = "wait"]]
    /\ UNCHANGED <<lock, depth, pool, dirpool, entries>>

Call(call)       == [Idle EXCEPT !.call = call]
On(call, h, off) == [Idle EXCEPT !.call = call, !.h = h, !.off = off]

Open(t, flags) == Begin(t, [Call("open") EXCEPT !.flags = flags])

\* A program passes a handle that is open when the call begins.
Close(t, h) == pool[h].used /\ Begin(t, On("close", h, 0))
Fsync(t, h) == pool[h].used /\ Begin(t, On("fsync", h, 0))

\* mofs_read and mofs_write read file_offset here and go on as mofs_pread
\* and mofs_pwrite.
Read(t, h)  == pool[h].used /\ Begin(t, On("read", h, pool[h].off))
Write(t, h) == pool[h].used /\ Begin(t, On("write", h, pool[h].off))

Pread(t, h, o)  == pool[h].used /\ Begin(t, On("pread", h, o))
Pwrite(t, h, o) == pool[h].used /\ Begin(t, On("pwrite", h, o))

\* used is checked here and not again; off is the displacement.
Lseek(t, h, o) == pool[h].used /\ Begin(t, On("lseek", h, o))

\* used and the open flags are checked here and not again.
Ftruncate(t, h) == pool[h].used /\ "w" \in pool[h].flags /\ Begin(t, On("ftruncate", h, 0))

\* mofs_mkdir, mofs_rmdir, mofs_unlink and mofs_rename change the directory;
\* mofs_stat and mofs_truncate do not.
Mkdir(t)  == Begin(t, Call("mkdir"))
Remove(t) == Begin(t, Call("remove"))
Stat(t)   == Begin(t, Call("stat"))

\* mofs_readdir_fuse
List(t) == Begin(t, Call("list"))

-----------------------------------------------------------------------------
(* The core lock.                                                          *)

At(t, pc)   == thr[t].pc = pc
GoTo(t, pc) == thr' = [thr EXCEPT ![t].pc = pc]

\* mofs_core_sync_lock: the mutex is free, or the caller's own.
Locked(t) == lock \in {Nobody, t} /\ lock' = t /\ depth' = depth + 1

\* Mutant: a mutex that is not recursive.
UnlockedAtOnce == depth' = 0 /\ lock' = Nobody

\* mofs_core_sync_unlock: free when every lock has been given back.
Unlocked == depth' = depth - 1 /\ lock' = IF depth = 1 THEN Nobody ELSE lock

Acquire(t) == /\ At(t, "wait")
              /\ Locked(t)
              /\ GoTo(t, IF thr[t].call = "list" THEN "opendir" ELSE "core")
              /\ UNCHANGED <<pool, dirpool, entries>>

Release(t) == /\ At(t, "out")
              /\ Unlocked
              /\ thr' = [thr EXCEPT ![t] = Idle]
              /\ UNCHANGED <<pool, dirpool, entries>>

-----------------------------------------------------------------------------
(* Core functions, under the lock.                                         *)

Core(t, calls) == At(t, "core") /\ thr[t].call \in calls /\ GoTo(t, "out")

\* get_free_filehandle_index: the first slot that is not in use.
FirstFree(h) == ~pool[h].used /\ \A g \in Handles : g < h => pool[g].used

\* mofs_open_core: a slot, or an error (the path, a permission, ENFILE).
OpenCore(t) ==
    /\ Core(t, {"open"})
    /\ \/ \E h \in Handles :
             /\ FirstFree(h)
             /\ pool' = [pool EXCEPT ![h] = [used |-> TRUE, off |-> 0, flags |-> thr[t].flags]]
       \/ UNCHANGED pool
    /\ UNCHANGED <<lock, depth, dirpool, entries>>

\* mofs_close_core; EINVAL, and nothing done, on a handle closed meanwhile.
CloseCore(t) ==
    /\ Core(t, {"close"})
    /\ pool' = IF pool[thr[t].h].used THEN [pool EXCEPT ![thr[t].h] = Unused] ELSE pool
    /\ UNCHANGED <<lock, depth, dirpool, entries>>

\* The handle checks of mofs_read_core and mofs_write_core.
Usable(h, flag) == pool[h].used /\ flag \in pool[h].flags

\* file_offset becomes the start of the access plus what was moved.
Moved(h, o) == \E n \in {0, 1} : o + n <= MaxFile /\ pool' = [pool EXCEPT ![h].off = o + n]

\* mofs_read_core, update_offset set: at or past EOF nothing is read and the
\* offset is the start of the read.
ReadCore(t) == LET h == thr[t].h  o == thr[t].off IN
    /\ Core(t, {"read", "pread"})
    /\ \/ Usable(h, "r") /\ (Moved(h, o) \/ (o > MaxFile /\ pool' = [pool EXCEPT ![h].off = o]))
       \/ UNCHANGED pool
    /\ UNCHANGED <<lock, depth, dirpool, entries>>

\* mofs_write_core, update_offset set; EFBIG at the largest file size.
WriteCore(t) == LET h == thr[t].h  o == thr[t].off IN
    /\ Core(t, {"write", "pwrite"})
    /\ \/ Usable(h, "w") /\ o < MaxFile /\ Moved(h, o)
       \/ UNCHANGED pool
    /\ UNCHANGED <<lock, depth, dirpool, entries>>

\* Mutant: the result is not compared with the largest offset.
LseekCoreUnchecked(t) == LET h == thr[t].h IN
    /\ Core(t, {"lseek"})
    /\ \E base \in {0, pool[h].off} \cup 0 .. MaxFile :
          pool' = [pool EXCEPT ![h].off = base + thr[t].off]
    /\ UNCHANGED <<lock, depth, dirpool, entries>>

\* Mutant: an early return without the unlock.
LseekCoreKeepsLock(t) ==
    /\ At(t, "core") /\ thr[t].call = "lseek"
    /\ thr' = [thr EXCEPT ![t] = Idle]
    /\ UNCHANGED <<lock, depth, pool, dirpool, entries>>

\* mofs_lseek: 0, the offset or the file's size plus the displacement, when
\* that is an offset; used is not looked at again.
LseekCore(t) == LET h == thr[t].h IN
    /\ Core(t, {"lseek"})
    /\ \/ \E base \in {0, pool[h].off} \cup 0 .. MaxFile :
             /\ base + thr[t].off \in 0 .. MaxOff
             /\ pool' = [pool EXCEPT ![h].off = base + thr[t].off]
       \/ UNCHANGED pool
    /\ UNCHANGED <<lock, depth, dirpool, entries>>

\* mofs_truncate_core on the inode the handle names by now; mofs_bcache_flush
\* if the handle is in use; mofs_stat_core.
OtherCore(t) == /\ Core(t, {"ftruncate", "fsync", "stat"})
                /\ UNCHANGED <<lock, depth, pool, dirpool, entries>>

MkdirCore(t) == /\ Core(t, {"mkdir"})
                /\ entries' \in {entries, entries + 1} \cap 0 .. MaxEntries
                /\ UNCHANGED <<lock, depth, pool, dirpool>>

RemoveCore(t) == /\ Core(t, {"remove"})
                 /\ entries' \in {entries, entries - 1} \cap 0 .. MaxEntries
                 /\ UNCHANGED <<lock, depth, pool, dirpool>>

-----------------------------------------------------------------------------
(* mofs_readdir_fuse.  Each POSIX call it makes takes the lock again and   *)
(* gives it back.  off counts the entries returned so far, saw the entries *)
(* there were when the directory was opened.                               *)

Nested(t) == /\ thr[t].pc \in {"opendir", "readdir", "closedir"}
             /\ depth = 1
             /\ Locked(t)
             /\ UNCHANGED <<pool, dirpool, entries, thr>>

\* get_free_dirhandle_index
FirstFreeDir(d) == d \notin dirpool /\ 1 .. d - 1 \subseteq dirpool

\* mofs_opendir: a slot, or NULL (the path, a permission, ENFILE).
Opendir(t) ==
    /\ At(t, "opendir") /\ depth = 2
    /\ \/ \E d \in 1 .. NumDirs :
             /\ FirstFreeDir(d)
             /\ dirpool' = dirpool \cup {d}
             /\ thr' = [thr EXCEPT ![t].pc = "readdir", ![t].h = d, ![t].saw = entries]
       \/ UNCHANGED dirpool /\ GoTo(t, "out")
    /\ Unlocked
    /\ UNCHANGED <<pool, entries>>

\* Mutant: the listing leaves without closing the directory.
ReaddirLeaves(t) ==
    /\ At(t, "readdir") /\ depth = 2
    /\ \/ thr[t].off < entries /\ thr' = [thr EXCEPT ![t].off = @ + 1]
       \/ GoTo(t, "closedir")
       \/ GoTo(t, "out")
    /\ Unlocked
    /\ UNCHANGED <<pool, dirpool, entries>>

\* mofs_readdir: an entry, which the filler may not take any more, the end
\* or an error.
Readdir(t) ==
    /\ At(t, "readdir") /\ depth = 2
    /\ \/ thr[t].off < entries /\ thr' = [thr EXCEPT ![t].off = @ + 1]
       \/ GoTo(t, "closedir")
    /\ Unlocked
    /\ UNCHANGED <<pool, dirpool, entries>>

\* mofs_closedir, on every way out once the directory is open.
Closedir(t) == /\ At(t, "closedir") /\ depth = 2
               /\ dirpool' = dirpool \ {thr[t].h}
               /\ GoTo(t, "out")
               /\ Unlocked
               /\ UNCHANGED <<pool, entries>>

-----------------------------------------------------------------------------

\* The steps of a thread that has the lock.
Inside(t) == \/ OpenCore(t) \/ CloseCore(t) \/ ReadCore(t) \/ WriteCore(t) \/ LseekCore(t)
             \/ OtherCore(t) \/ MkdirCore(t) \/ RemoveCore(t)
             \/ Nested(t) \/ Opendir(t) \/ Readdir(t) \/ Closedir(t)
             \/ Release(t)

CallsNext == \E t \in Threads :
    \/ \E flags \in Flags : Open(t, flags)
    \/ Mkdir(t) \/ Remove(t) \/ Stat(t) \/ List(t)
    \/ \E h \in Handles : Close(t, h) \/ Fsync(t, h) \/ Read(t, h) \/ Write(t, h) \/ Ftruncate(t, h)
    \/ \E h \in Handles, o \in 0 .. MaxOff : Pread(t, h, o) \/ Pwrite(t, h, o)
    \/ \E h \in Handles, o \in -MaxOff .. MaxOff : Lseek(t, h, o)
    \/ Acquire(t) \/ Inside(t)

\* A thread that has the lock keeps running; nothing is assumed of the order
\* in which the mutex admits waiting threads.
CallsSpec == CallsInit /\ [][CallsNext]_callsVars /\ \A t \in Threads : WF_callsVars(Inside(t))

-----------------------------------------------------------------------------
(* Properties.                                                             *)

\* The calls that name a file handle, and those that use off as an offset.
OnHandle  == {"close", "fsync", "read", "write", "pread", "pwrite", "lseek", "ftruncate"}
AtOffset  == {"read", "write", "pread", "pwrite"}
CallNames == OnHandle \cup {"none", "open", "mkdir", "remove", "stat", "list"}

\* The points of a call, from its start to the release of the lock.
Listings == {"opendir", "readdir", "closedir"}
Points   == {"idle", "wait", "core", "out"} \cup Listings

Frames == [call : CallNames, pc : Points, h : 0 .. NumHandles + NumDirs,
           off : -MaxOff .. MaxOff + MaxEntries, flags : Flags \cup {{}}, saw : 0 .. MaxEntries]

Locals == {l \in Frames :
         /\ l.call \in OnHandle => l.h \in Handles
         /\ l.call \in AtOffset => l.off \in 0 .. MaxOff
         /\ l.call = "lseek" => l.off \in -MaxOff .. MaxOff
         /\ l.call = "list" => l.off \in 0 .. MaxEntries
         /\ l.call = "open" => l.flags \in Flags
         /\ l.pc \in Listings => l.call = "list"
         /\ l.pc = "core" => l.call # "list"
         /\ l.call = "none" <=> l.pc = "idle"}

\* The variables have their types; in particular an offset stays within what
\* file_offset holds, whatever reads, writes and seeks race on the handle.
CallsTypeOK == /\ lock \in Threads \cup {Nobody} /\ depth \in 0 .. 2
               /\ pool \in [Handles -> [used : BOOLEAN, off : 0 .. MaxOff, flags : Flags \cup {{}}]]
               /\ dirpool \subseteq 1 .. NumDirs
               /\ entries \in 0 .. MaxEntries
               /\ thr \in [Threads -> Locals]

\* While a FUSE listing runs no other thread changes the directory: the
\* entries it returns are those of one moment, because mofs_readdir_fuse
\* holds the lock around its whole loop and not only in each call.
ListingIsAtomic == \A t \in Threads :
    thr[t].pc \in {"readdir", "closedir"} => entries = thr[t].saw

\* A directory handle is used exactly as long as a listing is between its
\* opendir and its closedir, and never by two listings: mofs_readdir_fuse
\* gives the handle back on every way out.
DirHandlesOwned == LET Listing == {t \in Threads : thr[t].pc \in {"readdir", "closedir"}} IN
    /\ dirpool = {thr[t].h : t \in Listing}
    /\ \A t, u \in Listing : thr[t].h = thr[u].h => t = u

\* Every way through a POSIX call gives the core lock back, the early returns
\* of mofs_lseek and the nested calls of mofs_readdir_fuse included.
LockReleased == (lock # Nobody) ~> (lock = Nobody)
=============================================================================
