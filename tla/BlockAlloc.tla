----------------------------- MODULE BlockAlloc -----------------------------
(***************************************************************************)
(* Allocation and release of file data blocks (mofs_block.c): the data     *)
(* bitmap, the on-disk chains of list nodes that map a file's blocks, and  *)
(* the inode fields that head them.                                        *)
(*                                                                         *)
(* allocate_data_block and free_data_block run one at a time (under the    *)
(* core lock) as a sequence of steps, one per block read-modify-write;     *)
(* each step can fail, and the code's own rollback runs.  Blocks are       *)
(* numbered by their data-region index plus one; 0 is the null block.      *)
(***************************************************************************)
EXTENDS Integers, Sequences, Functions

CONSTANTS NumData,        \* data_blk_num
          Inodes,         \* inodes that own data blocks
          Cap,            \* list_ptrs_cap(): pointers per list node
          MaxFileBlocks,  \* MOFS_MAX_FILE_DATA_BLOCKS
          Vals,           \* contents of a file data block
          MaxFaults       \* bound: I/O failures in a behaviour

ASSUME AllocAssumption == /\ NumData \in Nat /\ Cap \in Nat \ {0}
                          /\ MaxFileBlocks \in Nat /\ MaxFaults \in Nat

Data == 1 .. NumData

VARIABLES used,    \* the set bits of the data bitmap
          ino,     \* ino[i]: i_data_head and i_nr_blocks
          mem,     \* contents of the data region as the cache shows it
          op,      \* the call in progress
          faults,  \* failures so far
          lost,    \* history: mapped blocks a failed release left marked free
          reused   \* history: a call has taken one of them all the same

hist == <<lost, reused>>
vars == <<used, ino, mem, op, faults, lost, reused>>

Node(next, ptrs) == [next |-> next, ptrs |-> ptrs, val |-> "node"]
Payload(v)       == [next |-> 0, ptrs |-> <<>>, val |-> v]
Junk             == Payload("junk")

NoOp == [kind |-> "none", ph |-> "idle", i |-> 0, flat |-> <<>>, mine |-> <<>>,
         nodes |-> <<>>, old |-> 0, at |-> 0, upto |-> 0, first |-> 0]

\* After mofs_format, without the two blocks of the root directory, which
\* are not among Data.
Init == /\ used = {}
        /\ ino = [i \in Inodes |-> [head |-> 0, nr |-> 0]]
        /\ mem = [b \in Data |-> Junk]
        /\ op = NoOp
        /\ faults = 0
        /\ lost = {} /\ reused = FALSE

-----------------------------------------------------------------------------
(* Reading the structure.                                                  *)

\* The walk from block h along next_abs when the data region holds m: the list
\* nodes it visits and the pointers export_data_block_list copies from them.
\* Bound: a list has a pointer in each of its nodes, so one step more than
\* MaxFileBlocks shows a list that is too long or circular.
Walk(m, h) ==
    LET w[k \in 0 .. MaxFileBlocks + 1] ==
          [b \in Data \cup {0} |->
             IF k = 0 \/ b = 0 THEN [nodes |-> <<>>, ptrs |-> <<>>]
             ELSE [nodes |-> <<b>> \o w[k-1][m[b].next].nodes,
                   ptrs  |-> m[b].ptrs \o w[k-1][m[b].next].ptrs]]
    IN  w[MaxFileBlocks + 1][h]

Chain(h) == Walk(mem, h).nodes
Ptrs(h)  == Walk(mem, h).ptrs

\* export_data_block_list succeeds.
Exports(i) == \/ ino[i].nr = 0
              \/ /\ ino[i].head # 0
                 /\ \A b \in Range(Chain(ino[i].head)) : Len(mem[b].ptrs) <= Cap
                 /\ Len(Ptrs(ino[i].head)) = ino[i].nr

FlatAbs(i) == IF ino[i].nr = 0 THEN <<>> ELSE Ptrs(ino[i].head)

\* The blocks inode i refers to: list nodes and file data.
Refs(i) == Range(Chain(ino[i].head)) \cup Range(Ptrs(ino[i].head))

\* find_free_data_block_indices: the n lowest clear bits, in order; nothing
\* when there are fewer.
FirstFree(n) == {s \in [1 .. n -> Data \ used] :
                    /\ \A j, k \in 1 .. n : j < k => s[j] < s[k]
                    /\ \A b \in Data \ used : b \in Range(s) \/ \A k \in 1 .. n : s[k] < b}

\* list_nodes_for_block_count
NodesFor(n) == (n + Cap - 1) \div Cap

-----------------------------------------------------------------------------
(* Steps of a call.                                                        *)

Running(ph) == op.ph = ph
GoTo(ph, at) == op' = [op EXCEPT !.ph = ph, !.at = at]
Return == op' = NoOp

Fault == /\ faults < MaxFaults
         /\ faults' = faults + 1
Works == UNCHANGED faults

\* mofs_bcache_invalidate(b): the block shows what the device holds, which
\* depends on earlier evictions; Junk stands for it.
Dropped(b) == [mem EXCEPT ![b] = Junk]

\* A call takes the blocks new, which the bitmap marks free.  Those a failed
\* release lost are still mapped: from then on two lists share a block.
Takes(new) == reused' = (reused \/ Range(new) \cap lost # {})

\* One call rolls back: allocation from its new bits, release from its old.
Undo(n) == IF n = 0 THEN Return ELSE op' = [op EXCEPT !.ph = "undo", !.at = 1, !.upto = n]

-----------------------------------------------------------------------------
(* allocate_data_block(i, n)                                               *)

\* An allocation, a release or a write refused before its first write: the
\* range or the size is wrong, the list cannot be read, the disk is full.
Refused == op = NoOp /\ UNCHANGED vars

\* Mutant: the new blocks are put before the old ones.
AllocBeginFront(i, n) ==
    /\ op = NoOp
    /\ ino[i].nr + n <= MaxFileBlocks
    /\ Exports(i)
    /\ \E new \in FirstFree(n) :
       /\ op' = [NoOp EXCEPT !.kind = "alloc", !.ph = "claim", !.i = i, !.at = 1,
                             !.mine = new, !.flat = new \o FlatAbs(i), !.old = ino[i].head]
       /\ Takes(new)
    /\ UNCHANGED <<used, ino, mem, faults, lost>>

AllocBegin(i, n) ==
    /\ op = NoOp
    /\ ino[i].nr + n <= MaxFileBlocks
    /\ Exports(i)
    /\ \E new \in FirstFree(n) :
       /\ op' = [NoOp EXCEPT !.kind = "alloc", !.ph = "claim", !.i = i, !.at = 1,
                             !.mine = new, !.flat = FlatAbs(i) \o new, !.old = ino[i].head]
       /\ Takes(new)
    /\ UNCHANGED <<used, ino, mem, faults, lost>>

\* Mutant: the last new block is left unmarked.
ClaimButLast == /\ Running("claim")
                /\ Works
                /\ used' = IF op.at = Len(op.mine) THEN used ELSE used \cup {op.mine[op.at]}
                /\ IF op.at = Len(op.mine) THEN GoTo("find", 0) ELSE GoTo("claim", op.at + 1)
                /\ UNCHANGED <<ino, mem, hist>>

\* set_data_bitmap_bit(new_data_idx[i], TRUE)
Claim == /\ Running("claim")
         /\ \/ /\ Works
               /\ used' = used \cup {op.mine[op.at]}
               /\ IF op.at = Len(op.mine) THEN GoTo("find", 0) ELSE GoTo("claim", op.at + 1)
            \/ /\ Fault
               /\ UNCHANGED used
               /\ Undo(op.at - 1)
         /\ UNCHANGED <<ino, mem, hist>>

-----------------------------------------------------------------------------
(* free_data_block(i, s, n): blocks s .. s+n-1, counted from 1             *)

FreeBegin(i, s, n) ==
    /\ op = NoOp
    /\ s <= ino[i].nr
    /\ Exports(i)
    /\ LET flat == FlatAbs(i)
           last == IF s + n - 1 > ino[i].nr THEN ino[i].nr ELSE s + n - 1
           mine == SubSeq(flat, s, last)
       IN  op' = [NoOp EXCEPT !.kind = "free", !.ph = "release", !.i = i, !.at = 1,
                              !.mine = mine, !.first = s,
                              !.flat = SubSeq(flat, 1, s - 1) \o SubSeq(flat, last + 1, Len(flat)),
                              !.old = ino[i].head]
    /\ UNCHANGED <<used, ino, mem, faults, hist>>

\* Clear the bit, then drop the cached copy, before anything can reuse it.
Release == LET b == op.mine[op.at] IN
    /\ Running("release")
    /\ \/ /\ Works
          /\ used' = used \ {b}
          /\ mem' = Dropped(b)
          /\ IF op.at < Len(op.mine) THEN GoTo("release", op.at + 1)
             ELSE GoTo("find", 0)
          /\ lost' = lost \ {b}
       \/ /\ Fault
          /\ Return
          /\ lost' = lost \cup {op.mine[k] : k \in 1 .. op.at - 1}
          /\ UNCHANGED <<used, mem>>
    /\ UNCHANGED <<ino, reused>>

-----------------------------------------------------------------------------
(* rebuild_data_block_list                                                 *)

FindNodes == LET need == NodesFor(Len(op.flat)) IN
    /\ Running("find")
    /\ \/ /\ Works /\ need = 0
          /\ GoTo("commit", 0)
          /\ UNCHANGED reused
       \/ /\ Works /\ need > 0
          /\ \E new \in FirstFree(need) :
             /\ op' = [op EXCEPT !.nodes = new, !.ph = "reserve", !.at = 1]
             /\ Takes(new)
       \/ /\ \/ Works /\ FirstFree(need) = {}
             \/ Fault /\ need > 0
          /\ Undo(Len(op.mine))
          /\ UNCHANGED reused
    /\ UNCHANGED <<used, ino, mem, lost>>

Reserve == /\ Running("reserve")
           /\ \/ /\ Works
                 /\ used' = used \cup {op.nodes[op.at]}
                 /\ IF op.at = Len(op.nodes) THEN GoTo("link", 1) ELSE GoTo("reserve", op.at + 1)
              \/ /\ Fault
                 /\ UNCHANGED used
                 /\ IF op.at = 1 THEN Undo(Len(op.mine))
                    ELSE op' = [op EXCEPT !.ph = "unreserve", !.at = 1,
                                          !.nodes = SubSeq(@, 1, op.at - 1)]
           /\ UNCHANGED <<ino, mem, hist>>

\* Mutant: the last pointer of each slice is left out.
ListNodeShort(k) == Node(IF k < Len(op.nodes) THEN op.nodes[k + 1] ELSE 0,
                         SubSeq(op.flat, (k - 1) * Cap + 1,
                                IF k * Cap < Len(op.flat) THEN k * Cap - 1 ELSE Len(op.flat)))

\* The k-th list node and its slice of the mapping.
ListNode(k) == Node(IF k < Len(op.nodes) THEN op.nodes[k + 1] ELSE 0,
                    SubSeq(op.flat, (k - 1) * Cap + 1,
                           IF k * Cap < Len(op.flat) THEN k * Cap ELSE Len(op.flat)))

\* write_list_node
Link == /\ Running("link")
        /\ \/ /\ Works
              /\ mem' = [mem EXCEPT ![op.nodes[op.at]] = ListNode(op.at)]
              /\ IF op.at = Len(op.nodes) THEN GoTo("commit", 0) ELSE GoTo("link", op.at + 1)
           \/ /\ Fault
              /\ UNCHANGED mem
              /\ GoTo("unreserve", 1)
        /\ UNCHANGED <<used, ino, hist>>

\* update_data_bitmap_bits(list_node_idx, ..., FALSE): best effort.
Unreserve == /\ Running("unreserve")
             /\ \/ Works /\ used' = used \ {op.nodes[op.at]}
                \/ Fault /\ UNCHANGED used
             /\ IF op.at = Len(op.nodes) THEN Undo(Len(op.mine)) ELSE GoTo("unreserve", op.at + 1)
             /\ UNCHANGED <<ino, mem, hist>>

NewHead == IF op.nodes = <<>> THEN 0 ELSE op.nodes[1]

\* Mutant: the superseded chain is not freed.
CommitKeepsOld == /\ Running("commit")
                  /\ \/ /\ Works
                        /\ ino' = [ino EXCEPT ![op.i] = [head |-> NewHead, nr |-> Len(op.flat)]]
                        /\ Return
                     \/ /\ Fault
                        /\ UNCHANGED ino
                        /\ IF NewHead = 0 THEN Undo(Len(op.mine)) ELSE GoTo("unlink", NewHead)
                  /\ UNCHANGED <<used, mem, hist>>

\* mofs_write_inode
Commit == /\ Running("commit")
          /\ \/ /\ Works
                /\ ino' = [ino EXCEPT ![op.i] = [head |-> NewHead, nr |-> Len(op.flat)]]
                /\ IF op.old = 0 THEN Return ELSE GoTo("retire", op.old)
             \/ /\ Fault
                /\ UNCHANGED ino
                /\ IF NewHead = 0 THEN Undo(Len(op.mine)) ELSE GoTo("unlink", NewHead)
          /\ UNCHANGED <<used, mem, hist>>

\* free_list_chain, one node: clear its bit, drop its cached copy, go on.
\* The old chain after a commit, the new one after a failed commit.
ChainDone == IF Running("retire") THEN Return ELSE Undo(Len(op.mine))

FreeChain == LET b == op.at
                 next == mem[b].next IN
    /\ Running("retire") \/ Running("unlink")
    /\ \/ /\ Works
          /\ used' = used \ {b}
          /\ mem' = Dropped(b)
          /\ IF next = 0 THEN ChainDone ELSE GoTo(op.ph, next)
       \/ /\ Fault
          /\ ChainDone
          /\ UNCHANGED <<used, mem>>
    /\ UNCHANGED <<ino, hist>>

\* Mutant: the rollback of a release clears bits too.
RollBackClears == LET b == op.mine[op.at] IN
    /\ Running("undo")
    /\ \/ Works /\ used' = used \ {b}
       \/ Fault /\ UNCHANGED used
    /\ IF op.at = op.upto THEN Return ELSE GoTo("undo", op.at + 1)
    /\ UNCHANGED <<ino, mem, hist>>

\* Mutant: the loop does not advance.
RollBackForever == LET b == op.mine[op.at] IN
    /\ Running("undo")
    /\ \/ Works /\ used' = IF op.kind = "alloc" THEN used \ {b} ELSE used \cup {b}
       \/ Fault /\ UNCHANGED used
    /\ IF op.at = op.upto THEN Return ELSE GoTo("undo", op.at)
    /\ UNCHANGED <<ino, mem, hist>>

\* The data bits are rolled back: cleared again for an allocation, set again
\* for a release; best effort.
RollBack == LET b == op.mine[op.at] IN
    /\ Running("undo")
    /\ \/ /\ Works
          /\ used' = IF op.kind = "alloc" THEN used \ {b} ELSE used \cup {b}
          /\ UNCHANGED lost
       \/ /\ Fault
          /\ lost' = IF op.kind = "alloc" THEN lost ELSE lost \cup {b}
          /\ UNCHANGED used
    /\ IF op.at = op.upto THEN Return ELSE GoTo("undo", op.at + 1)
    /\ UNCHANGED <<ino, mem, reused>>

-----------------------------------------------------------------------------
(* write_file_data_block: the k-th block of the file is overwritten.       *)

WriteBlock(i, k, v) == /\ op = NoOp
                       /\ k <= ino[i].nr /\ Exports(i)
                       /\ mem' = [mem EXCEPT ![FlatAbs(i)[k]] = Payload(v)]
                       /\ UNCHANGED <<used, ino, op, faults, hist>>

Step == Claim \/ Release \/ FindNodes \/ Reserve \/ Link \/ Unreserve \/ Commit
        \/ FreeChain \/ RollBack

Next == \/ \E i \in Inodes, n \in 1 .. MaxFileBlocks : AllocBegin(i, n)
        \/ \E i \in Inodes, s, n \in 1 .. MaxFileBlocks : FreeBegin(i, s, n)
        \/ \E i \in Inodes, k \in 1 .. MaxFileBlocks, v \in Vals : WriteBlock(i, k, v)
        \/ Step
        \/ Refused

Spec == Init /\ [][Next]_vars /\ WF_vars(Step)

-----------------------------------------------------------------------------
(* Properties.                                                             *)

\* The blocks a release in progress has taken away from its file.
Releasing(i) == IF op.kind = "free" /\ op.i = i THEN Range(op.mine) ELSE {}

\* The variables have their types.
TypeOK == /\ used \subseteq Data
          /\ ino \in [Inodes -> [head : Data \cup {0}, nr : 0 .. MaxFileBlocks]]
          /\ \A b \in Data : mem[b].next \in Data \cup {0} /\ Range(mem[b].ptrs) \subseteq Data
          /\ faults \in 0 .. MaxFaults

\* At every step of every call, successful or failing, the list each inode
\* heads can be exported: nodes are written before the inode refers to them
\* and released only after it no longer does.  Heads, links and pointers stay
\* in the data region (TypeOK).  This ends when a call takes a block that a
\* failed release lost.
ListsIntact == TypeOK /\ (reused \/ \A i \in Inodes : Exports(i))

\* No block is mapped by two files, or twice by one, or both a list node and
\* a data block, until a call takes a lost block: one that free_data_block
\* left marked free, when its clear loop or a rollback of its failed, though
\* the file still maps it.  Nothing else that fails, in any phase of any call,
\* leads to sharing; losing a block does not, nor does releasing it again.
NoSharing == reused \/
    /\ \A i, j \in Inodes : i # j => (Refs(i) \ Releasing(i)) \cap (Refs(j) \ Releasing(j)) = {}
    /\ \A i \in Inodes : IsInjective(Chain(ino[i].head) \o Ptrs(ino[i].head))

\* Every mapped block is marked used, except those a release in progress is
\* taking away and those a release lost: it failed in its clear loop, which
\* nothing undoes, or could not set a bit again.  No other failure, in any
\* phase of any call, leaves a clear bit on a mapped block, and the list nodes
\* an inode reaches are never among the lost ones: until a lost block is taken,
\* no allocation can overwrite a chain.
MappedIsUsed == reused \/ \A i \in Inodes :
    /\ Refs(i) \ (Releasing(i) \cup lost) \subseteq used
    /\ Range(Chain(ino[i].head)) \subseteq used

\* Without I/O failures nothing is leaked: between calls the bitmap marks
\* exactly the blocks that files map.
NoLeak == (op = NoOp /\ faults = 0) => used = UNION {Refs(i) : i \in Inodes}

\* The contents each file's blocks show, and the range being freed.
FileView == [i \in Inodes |-> LET flat == FlatAbs(i) IN [k \in 1 .. Len(flat) |-> mem[flat[k]].val]]
DoomedView == IF op.kind = "free" /\ op.ph # "retire"
              THEN {[i |-> op.i, from |-> op.first, to |-> op.first + Len(op.mine) - 1]}
              ELSE {}

Files == INSTANCE FileBlocks WITH file <- FileView, doomed <- DoomedView,
                                  intact <- ~reused, Values <- Vals

\* Seen through the inodes' lists, the calls and their failures implement
\* FileBlocks: an allocation changes no existing block of any file, a release
\* destroys only the range it was asked to free, as long as no lost block is
\* taken.
ImplementsFileBlocks == Files!Spec

\* Every call returns, whatever fails on the way: rollback loops end and no
\* list is circular, as long as no lost block is taken.
CallsReturn == (op # NoOp) ~> (op = NoOp \/ reused)
=============================================================================
