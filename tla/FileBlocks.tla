----------------------------- MODULE FileBlocks -----------------------------
(***************************************************************************)
(* What the block allocator promises to the file and directory layers:     *)
(* a file is a sequence of block contents.  Appending blocks, or failing   *)
(* to, disturbs no block of any file; freeing a range may destroy the      *)
(* contents of that range at once, even when the call then fails, but      *)
(* keeps every other block and the order of the survivors.                 *)
(*                                                                         *)
(* The promise ends when a block is handed out that a failed release has   *)
(* left marked free while a file still maps it (intact).                   *)
(***************************************************************************)
EXTENDS Naturals, Sequences

CONSTANTS Inodes, MaxFileBlocks, Values

VARIABLES file,     \* file[i]: the contents of the blocks of inode i, in order
          doomed,   \* the range [i, from, to] being freed, at most one
          intact    \* no block has been handed out twice

vars == <<file, doomed, intact>>

Init == /\ file = [i \in Inodes |-> <<>>]
        /\ doomed = {}
        /\ intact = TRUE

Write(i, k, v) == /\ UNCHANGED doomed
                  /\ k \in 1 .. Len(file[i])
                  /\ file' = [file EXCEPT ![i][k] = v]

\* The contents of appended blocks are whatever the blocks held.
Append_(i) == /\ UNCHANGED doomed
              /\ Len(file'[i]) \in (Len(file[i]) + 1) .. MaxFileBlocks
              /\ SubSeq(file'[i], 1, Len(file[i])) = file[i]
              /\ \A j \in Inodes \ {i} : file'[j] = file[j]

Doom(i, from, to) == /\ doomed = {}
                     /\ doomed' = {[i |-> i, from |-> from, to |-> to]}
                     /\ from <= to /\ to <= Len(file[i])
                     /\ UNCHANGED file

\* Blocks inside a doomed range change, and nothing else does.
Scramble == /\ UNCHANGED doomed
            /\ \A i \in Inodes : LET old == file[i]
                                  new == file'[i] IN
                  \/ new = old
                  \/ /\ Len(new) = Len(old)
                     /\ \A k \in 1 .. Len(old) :
                           \/ new[k] = old[k]
                           \/ \E d \in doomed : d.i = i /\ k \in d.from .. d.to

Remove(d) == /\ doomed' = {}
             /\ file' = [file EXCEPT ![d.i] =
                           SubSeq(@, 1, d.from - 1) \o SubSeq(@, d.to + 1, Len(@))]

GiveUp == /\ doomed # {}
          /\ doomed' = {}
          /\ UNCHANGED file

\* A block that is still mapped is handed out: nothing is promised any more.
HandedOutTwice == intact' = FALSE

Next == \/ HandedOutTwice
        \/ /\ UNCHANGED intact
           /\ \/ Scramble
              \/ \E i \in Inodes, k \in 1 .. MaxFileBlocks, v \in Values : Write(i, k, v)
              \/ \E i \in Inodes : Append_(i)
              \/ \E i \in Inodes, from, to \in 1 .. MaxFileBlocks : Doom(i, from, to)
              \/ \E d \in doomed : Remove(d)
              \/ GiveUp

Spec == Init /\ [][Next]_vars
=============================================================================
