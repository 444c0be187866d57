----------------------------- MODULE Directory ------------------------------
(***************************************************************************)
(* One directory as a file of fixed-size entries (mofs_dir.c): lookup,     *)
(* adding an entry into the first tombstone, removing an entry by making   *)
(* it a tombstone, growing by a block, and readers that list the directory *)
(* while others change it: a handle that returns one entry per readdir     *)
(* call, and FUSE (fuse_ops.c), which lists in several callbacks, each     *)
(* opening the directory anew and starting from the cookie the last left.  *)
(*                                                                         *)
(* A call or callback is one action (the core lock is held around it); a   *)
(* listing is a sequence of them, and anything may happen in between.      *)
(***************************************************************************)
EXTENDS Integers, Sequences, FiniteSets

CONSTANTS PerBlk,     \* entries per block, blk_size / sizeof(mofs_dirent_t)
          MaxBlocks,  \* MOFS_MAX_FILE_DATA_BLOCKS
          Names,      \* the names used, besides "." and ".."
          Inums       \* inode numbers of children

NoName == "none"      \* name[0] is '\0'

ASSUME DirAssumption == /\ PerBlk \in Nat /\ PerBlk >= 2 /\ MaxBlocks \in Nat \ {0, 1}
                        /\ Inums \subseteq Nat \ {0}
                        /\ Names \cap {NoName, ".", ".."} = {}  \* rmdir and rename refuse the dots

VARIABLES slots,   \* the entries of the blocks mapped by the inode
          size,    \* i_size, in entries
          linked,  \* i_data_head heads the chain of those blocks
          scan,    \* the listing in progress, with what it has returned
          ret      \* the result of the last add or remove

vars == <<slots, size, linked, scan, ret>>

Entry(n, i) == [name |-> n, inum |-> i]
Tombstone   == Entry(NoName, 0)
Live(e)     == e.inum # 0 /\ e.name # NoName

\* write_dot_entries; the directory and its parent are inode 2.
NewDir == [k \in 1 .. PerBlk |-> IF k = 1 THEN Entry(".", 2)
                                 ELSE IF k = 2 THEN Entry("..", 2) ELSE Tombstone]

\* A listing by a handle of mofs_opendir_core, off its dirent_offset, or by
\* FUSE, off its cookie; then its history: the names it has to return, the
\* names it has to return no more than once, how often each was returned.
\* Bound: one listing is followed at a time.
NewScan(fuse, names) == [fuse |-> fuse, off |-> 0, eof |-> FALSE, kept |-> names,
                         once |-> names, got |-> [n \in Names |-> 0]]

Init == /\ slots = NewDir
        /\ size = PerBlk
        /\ linked = TRUE
        /\ scan = NewScan(FALSE, {})
        /\ ret = "ok"

-----------------------------------------------------------------------------
(* Lookup.                                                                 *)

Seen == 1 .. IF size < Len(slots) THEN size ELSE Len(slots)
First(S) == CHOOSE k \in S : \A j \in S : k <= j

\* find_dir_entry: the inode number of the first match, 0 if none.
FindEntry(n) == LET m == {k \in Seen : slots[k].name = n} IN
                IF m = {} THEN 0 ELSE slots[First(m)].inum

Present == {n \in Names : FindEntry(n) # 0}

\* Mutant: the scan ends at the first tombstone.
IsEmptyShort == \A k \in Seen : (Live(slots[k]) /\ \A j \in 1 .. k : Live(slots[j]))
                                  => slots[k].name \in {".", ".."}

\* is_directory_empty
IsEmpty == \A k \in Seen : Live(slots[k]) => slots[k].name \in {".", ".."}

-----------------------------------------------------------------------------
(* Changing the directory.                                                 *)

\* Mutant: the search for a duplicate ends at the first tombstone.
MatchesShort(n) == {k \in Seen : /\ slots[k].inum # 0 /\ slots[k].name = n
                                 /\ \A j \in 1 .. k : Live(slots[j])}

\* The slots a duplicate check or a removal finds the name in.
Matches(n) == {k \in Seen : slots[k].inum # 0 /\ slots[k].name = n}
Reusable == {k \in Seen : ~Live(slots[k])}

\* The slot lies before the ones the next FUSE callback looks at: the cookie
\* counts the two dots and then the live entries.
Passed(k) == scan.fuse /\ Cardinality({j \in 1 .. k - 1 : Live(slots[j])}) + 2 < scan.off
Behind(k) == IF Passed(k) THEN {slots[j].name : j \in k + 1 .. Len(slots)} ELSE {}

\* A name that is added or removed during a listing need not be returned, or
\* not only once.  Nothing is asked either of the names behind a slot that
\* comes or goes among those a cookie has counted.
Added(n, k) == scan' = [scan EXCEPT !.kept = @ \ {n}, !.once = @ \ ({n} \cup Behind(k))]
Removed(n, k) == scan' = [scan EXCEPT !.kept = @ \ ({n} \cup Behind(k)), !.once = @ \ {n}]

\* add_dir_entry into the first tombstone.  The entry's block is written
\* first; if stamping or writing the inode then fails, the entry stays.
AddReuse(n, i) == /\ size < MaxBlocks * PerBlk      \* EFBIG otherwise
                  /\ Matches(n) = {} /\ Reusable # {}
                  /\ slots' = [slots EXCEPT ![First(Reusable)] = Entry(n, i)]
                  /\ Added(n, First(Reusable))
                  /\ ret' \in {"ok", "EIO"}
                  /\ UNCHANGED <<size, linked>>

AddExists(n) == /\ size < MaxBlocks * PerBlk
                /\ Matches(n) # {}
                /\ ret' = "EEXIST"
                /\ UNCHANGED <<slots, size, linked, scan>>

\* No tombstone: allocate_data_block maps a new block and retires the old
\* chain of list nodes, the entry is written to the new block, and then the
\* inode read before the allocation, with its i_data_head and i_nr_blocks,
\* is written back with i_size increased.
AddGrow(n, i) == /\ linked
                 /\ Matches(n) = {} /\ Reusable = {}
                 /\ size < MaxBlocks * PerBlk
                 /\ size' = size + 1
                 /\ linked' = FALSE
                 /\ Added(n, size + 1)
                 /\ ret' = "ok"
                 /\ UNCHANGED slots

\* Mutant: the block is cleared from the entry to its end.
RemoveRest(n) == /\ Matches(n) # {}
                 /\ slots' = [k \in 1 .. Len(slots) |->
                                IF k >= First(Matches(n)) THEN Tombstone ELSE slots[k]]
                 /\ Removed(n, First(Matches(n)))
                 /\ ret' \in {"ok", "EIO"}
                 /\ UNCHANGED <<size, linked>>

\* remove_dir_entry: the tombstone is written before the inode is stamped.
Remove(n) == /\ Matches(n) # {}
             /\ slots' = [slots EXCEPT ![First(Matches(n))] = Tombstone]
             /\ Removed(n, First(Matches(n)))
             /\ ret' \in {"ok", "EIO"}
             /\ UNCHANGED <<size, linked>>

RemoveMissing(n) == /\ Matches(n) = {}
                    /\ ret' = "ENOENT"
                    /\ UNCHANGED <<slots, size, linked, scan>>

\* A read or write fails before anything has changed.
Fails == /\ ret' = "EIO"
         /\ UNCHANGED <<slots, size, linked, scan>>

-----------------------------------------------------------------------------
(* Reading the directory.                                                  *)

Opendir == /\ scan' = NewScan(FALSE, Present)
           /\ UNCHANGED <<slots, size, linked, ret>>

\* Mutant: the offset is advanced by one too many.
AheadSkips == {k \in Seen : k > scan.off + 1 /\ Live(slots[k])}

\* mofs_readdir_core: the first live entry from dirent_offset on.
Ahead == {k \in Seen : k > scan.off /\ Live(slots[k])}

\* How often each name was returned, counted up to twice.
Got(names) == [n \in Names |-> IF n \in names /\ scan.got[n] < 2 THEN scan.got[n] + 1
                                                               ELSE scan.got[n]]

Readdir == /\ ~scan.fuse /\ Ahead # {}
           /\ LET k == First(Ahead) IN
              scan' = [scan EXCEPT !.off = k, !.eof = FALSE, !.got = Got({slots[k].name})]
           /\ UNCHANGED <<slots, size, linked, ret>>

\* The end is not an error and does not move the offset.
ReaddirEnd == /\ ~scan.fuse /\ Ahead = {}
              /\ scan' = [scan EXCEPT !.eof = TRUE]
              /\ UNCHANGED <<slots, size, linked, ret>>

\* The cookie mofs_readdir_fuse hands out with the entry in slot k: 1 and 2
\* are those of the dots it adds itself, and the entries that readdir
\* returns are counted from there, the dots on disk included.
Cookie(k) == 2 + Cardinality({j \in 1 .. k : Live(slots[j])})

\* Mutant: the entry the cookie belongs to is offered again.
OfferedAgain == {k \in Seen : /\ Live(slots[k]) /\ slots[k].name \notin {".", ".."}
                              /\ Cookie(k) >= scan.off}

\* The entries a callback offers to the filler; the dots on disk are skipped.
Offered == {k \in Seen : /\ Live(slots[k]) /\ slots[k].name \notin {".", ".."}
                         /\ Cookie(k) > scan.off}

FuseOpendir == /\ scan' = NewScan(TRUE, Present)
               /\ UNCHANGED <<slots, size, linked, ret>>

\* mofs_readdir_fuse: the filler takes the dots, and the entries up to k.
\* The next callback is given the cookie of the last entry taken.
FuseDots == /\ scan.fuse /\ scan.off < 2
            /\ scan' = [scan EXCEPT !.off = @ + 1]
            /\ UNCHANGED <<slots, size, linked, ret>>

FuseReaddir(k) == /\ scan.fuse /\ k \in Offered
                  /\ scan' = [scan EXCEPT !.off = Cookie(k),
                                 !.got = Got({slots[j].name : j \in {j \in Offered : j <= k}})]
                  /\ UNCHANGED <<slots, size, linked, ret>>

FuseEnd == /\ scan.fuse /\ scan.off >= 2 /\ Offered = {}
           /\ scan' = [scan EXCEPT !.eof = TRUE]
           /\ UNCHANGED <<slots, size, linked, ret>>

-----------------------------------------------------------------------------

Next == \/ \E n \in Names, i \in Inums : AddReuse(n, i)
        \/ \E n \in Names : AddExists(n) \/ Remove(n) \/ RemoveMissing(n)
        \/ Fails \/ Opendir \/ Readdir \/ ReaddirEnd
        \/ FuseOpendir \/ FuseDots \/ FuseEnd \/ \E k \in Seen : FuseReaddir(k)

\* Bound: a directory is followed while it fits in its first block.
Spec == Init /\ [][Next]_vars

\* Up to the first growth beyond it.
NextGrow == Next \/ \E n \in Names, i \in Inums : AddGrow(n, i)
SpecGrow == Init /\ [][NextGrow]_vars

-----------------------------------------------------------------------------
(* Properties.                                                             *)

\* The variables have their types; the first two entries are "." and "..".
TypeOK == /\ slots \in Seq([name : Names \cup {NoName, ".", ".."}, inum : Inums \cup {0, 2}])
          /\ slots[1].name = "." /\ slots[2].name = ".."
          /\ size \in PerBlk .. MaxBlocks * PerBlk
          /\ linked \in BOOLEAN
          /\ scan.off \in 0 .. Len(slots) + 2
          /\ ret \in {"ok", "EIO", "EEXIST", "ENOENT"}

\* No name has two entries, however adds, removes and failures interleave:
\* the duplicate check of add_dir_entry sees every slot a lookup sees.  The
\* first two entries stay "." and ".." (TypeOK).
UniqueNames == /\ TypeOK
               /\ \A j, k \in 1 .. Len(slots) :
                     Live(slots[j]) /\ slots[j].name = slots[k].name => j = k

\* A handle returns every name that stays in place from opendir to the end
\* exactly once, whatever is added or removed between two readdir calls.
ScanExact == ~scan.fuse => \A n \in scan.kept : /\ scan.got[n] <= 1
                                                /\ scan.eof => scan.got[n] = 1

\* A FUSE listing misses a name that stays in place only if an entry in an
\* earlier slot, one its cookie counts, was removed between two callbacks,
\* and returns one twice only if an entry was added into such a slot:
\* mofs_readdir_fuse finds its place again by counting live entries.
CookieExact == scan.fuse => /\ \A n \in scan.kept : scan.eof => scan.got[n] >= 1
                            /\ \A n \in scan.once : scan.got[n] <= 1

\* The emptiness test of rmdir agrees with lookup: a directory that
\* is_directory_empty calls empty has no name find_dir_entry would find, and
\* the other way round, wherever tombstones lie.
EmptyIsExact == IsEmpty <=> Present = {}

Abstract == INSTANCE DirMap WITH map <- [n \in Names |-> FindEntry(n)]

\* The slots implement a map from names to inode numbers: an add or remove
\* changes one name, reuse of a tombstone never hides another entry.
ImplementsDirMap == Abstract!Spec

\* "Extends directory data blocks and `i_size` when append needs more space"
\* (add_dir_entry): i_size never exceeds the blocks the inode maps, and the
\* inode heads the chain that maps them.
GrowthIsMapped == linked /\ size <= Len(slots)
=============================================================================
