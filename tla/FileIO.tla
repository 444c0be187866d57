------------------------------- MODULE FileIO -------------------------------
(***************************************************************************)
(* Reading, writing and truncating one regular file (mofs_file.c): the     *)
(* inode's i_size, the bytes of its mapped data blocks, the read-modify-   *)
(* write of a write, the zero filling of a gap and of a grown or shrunk    *)
(* tail, and what is left behind when one step of a call fails.            *)
(*                                                                         *)
(* A call is one action: the POSIX layer holds the core lock around it.    *)
(* The block layer is used through its specification FileBlocks: appended  *)
(* blocks hold leftovers, a release that fails may destroy what it was     *)
(* releasing and leave it marked free, and nothing is promised any more    *)
(* once such a block is handed out again.  data is the concatenation of    *)
(* the mapped blocks.                                                      *)
(***************************************************************************)
EXTENDS Integers, Sequences

CONSTANTS BlkSize,     \* sp_blk.blk_size
          MaxBlocks,   \* MOFS_MAX_FILE_DATA_BLOCKS
          Vals,        \* bytes written by callers
          MaxWrite,    \* bound: bytes in one write call
          MaxGap       \* bound: blocks a write may start past the one of the old end

ASSUME SizesAssumption == /\ BlkSize \in Nat \ {0} /\ MaxBlocks \in Nat \ {0}
                          /\ Vals \subseteq Nat /\ MaxGap \in Nat /\ MaxWrite \in Nat

Stale    == -1   \* a leftover byte of an earlier owner of the block
MaxBytes == MaxBlocks * BlkSize   \* mofs_max_file_bytes()

VARIABLES size,     \* i_size
          data,     \* the bytes of the i_nr_blocks mapped blocks
          lost,     \* the blocks of the file, from 0, that are marked free
          intact,   \* history: no lost block has been handed out
          spoiled,  \* history: positions of bytes a truncate destroyed by
                    \* failing, or did not zero
          ret       \* result of the last call

blocks == <<lost, intact>>
vars == <<size, data, lost, intact, spoiled, ret>>

Init == size = 0 /\ data = <<>> /\ lost = {} /\ intact = TRUE /\ spoiled = {} /\ ret = 0

-----------------------------------------------------------------------------
(* The block layer.                                                        *)

Blks(n) == (n + BlkSize - 1) \div BlkSize
Nr(d)   == Len(d) \div BlkSize
Least(a, b) == IF a < b THEN a ELSE b

\* allocate_data_block(n)
Allocated(n) == data \o [i \in 1 .. n * BlkSize |-> Stale]

MayAllocate(n) == Nr(data) + n <= MaxBlocks

\* The blocks an allocation takes may be lost ones, this file's among them.
Takes(n) == intact' \in IF n > 0 /\ lost # {} THEN {intact, FALSE} ELSE {intact}

\* free_data_block(s, n) on bytes d: blocks s .. s+n-1 go, or, when it fails,
\* stay with the first k of them destroyed.
Freed(d, s, n) == SubSeq(d, 1, s * BlkSize) \o SubSeq(d, (s + n) * BlkSize + 1, Len(d))
Unfreed(d, s, k) == [i \in 1 .. Len(d) |->
                       IF i \in s * BlkSize + 1 .. (s + k) * BlkSize THEN Stale ELSE d[i]]

\* The lost blocks, those after the freed range in their new places.
StillLost(s, n) == {b \in lost : b < s} \cup {b - n : b \in {c \in lost : c >= s + n}}

FreeWorks(d, s, n) == /\ data' = Freed(d, s, n)
                      /\ lost' = StillLost(s, n)

\* Bits cleared in the loop stay clear, unless the rollback sets them again.
FreeFails(d, s, n) ==
    \E k \in 0 .. Least(n, Nr(d) - s) :
       /\ data' = Unfreed(d, s, k)
       /\ \E l \in SUBSET (s .. s + k - 1) : lost' = (lost \ (s .. s + k - 1)) \cup l

Frees(d, s, n) == IF n <= 0 \/ s >= Nr(d) THEN data' = d /\ UNCHANGED lost
                  ELSE FreeWorks(d, s, n) \/ FreeFails(d, s, n)

-----------------------------------------------------------------------------
(* mofs_read_core: the bytes returned by a read of n at offset o; <<-2>>   *)
(* when a block of the range is not mapped.                                *)

ReadBlocks(o, n) ==
    LET start == o \div BlkSize
        all   == Blks((o % BlkSize) + n)
    IN  IF start >= Nr(data) \/ start >= Blks(size) THEN 0
        ELSE Least(all, Blks(size) - start)

\* Mutant: a file that ends with a full block is taken to end in a part of one.
ReadCountEdge(o, n) ==
    LET start == o \div BlkSize
        full  == ReadBlocks(o, n)
        got   == IF full > 0 /\ size \div BlkSize <= start + full
                 THEN (full - 1) * BlkSize + (size % BlkSize)
                 ELSE full * BlkSize
        pos   == o % BlkSize
    IN  Least(n, IF got < pos THEN 0 ELSE got - pos)

ReadCount(o, n) ==
    LET start == o \div BlkSize
        full  == ReadBlocks(o, n)
        got   == IF full > 0 /\ size \div BlkSize < start + full
                 THEN (full - 1) * BlkSize + (size % BlkSize)
                 ELSE full * BlkSize
        pos   == o % BlkSize
    IN  Least(n, IF got < pos THEN 0 ELSE got - pos)

ReadResult(o, n) ==
    IF ReadBlocks(o, n) > Nr(data) - (o \div BlkSize) /\ ReadBlocks(o, n) > 0 THEN <<-2>>
    ELSE SubSeq(data, o + 1, o + ReadCount(o, n))

-----------------------------------------------------------------------------
(* A write or truncate returns an error before it has changed anything:    *)
(* EFBIG, a failed inode read or permission check, ENOSPC or a failure in  *)
(* allocate_data_block.                                                    *)

Refused == /\ ret' = -1
           /\ UNCHANGED <<size, data, blocks, spoiled>>

-----------------------------------------------------------------------------
(* mofs_write_core: n bytes v at offset o.                                 *)

Clamp(o, n) == Least(n, MaxBytes - o)
Start(o)    == o \div BlkSize
Req(o, n)   == Blks((o % BlkSize) + Clamp(o, n))
Need(o, n)  == LET x == Start(o) + Req(o, n) - Blks(size) IN IF x > 0 THEN x ELSE 0
Grown(o, n) == Allocated(Need(o, n))
NrGrown(o, n) == Nr(data) + Need(o, n)

\* The mapped blocks to be preloaded exist.
Preloads(o, n) == \A b \in Start(o) .. Start(o) + Req(o, n) - 1 :
                     b < Blks(size) => b < NrGrown(o, n)

\* Byte i of the buffer assembled from blocks d, i a position of the file:
\* the payload, the zeroed gap, a preloaded byte, or the buffer's own zero.
BufByte(o, n, v, d, i) ==
    IF i \in o + 1 .. o + Clamp(o, n) THEN v
    ELSE IF i > size /\ i <= o THEN 0
    ELSE IF (i - 1) \div BlkSize < Blks(size) THEN d[i]
    ELSE 0

\* The first m bytes of the buffer have reached the blocks.
Stored(o, n, v, m) ==
    LET d == Grown(o, n)
        a == Start(o) * BlkSize
    IN  [i \in 1 .. Len(d) |-> IF i \in a + 1 .. a + m THEN BufByte(o, n, v, d, i) ELSE d[i]]

\* write_file_data_block clips the request to the mapped blocks.
Mapped(o, n) == Least(Req(o, n), NrGrown(o, n) - Start(o))

\* written_size when m bytes of the buffer were stored.
Count(o, n, m) == LET pos == o % BlkSize IN
                  IF m < pos THEN 0 ELSE Least(m - pos, Clamp(o, n))

\* Mutant: every write ends the file.
NewSizeEnds(o, w) == o + w

NewSize(o, w) == IF o + w > size THEN o + w ELSE size

\* The preload fails: the blocks just allocated are released.
WriteAborts(o, n) == /\ o < MaxBytes /\ MayAllocate(Need(o, n))
                     /\ Takes(Need(o, n))
                     /\ Frees(Grown(o, n), Blks(size), Need(o, n))
                     /\ ret' = -1
                     /\ UNCHANGED <<size, spoiled>>

WriteStarts(o, n) == /\ o < MaxBytes
                     /\ MayAllocate(Need(o, n))
                     /\ Preloads(o, n)

\* An error in write_file_data_block after k blocks: nothing is released.
WriteFails(o, n, v, k) == /\ WriteStarts(o, n)
                          /\ k = 0 \/ k < Mapped(o, n)
                          /\ Takes(Need(o, n))
                          /\ data' = Stored(o, n, v, k * BlkSize)
                          /\ ret' = -1
                          /\ UNCHANGED <<size, lost, spoiled>>

\* write_file_data_block returns 0 when m bytes of b blocks are stored: all, or
\* fewer when a raw write stops inside a block.
Stores(m, b) == m = b * BlkSize \/ (m < b * BlkSize /\ m % BlkSize # 0)

\* The inode is written only if a byte of the payload was stored.
WriteSucceeds(o, n, v, m) ==
    LET w == Count(o, n, m) IN
    /\ WriteStarts(o, n) /\ Start(o) < NrGrown(o, n)
    /\ Stores(m, Mapped(o, n))
    /\ Takes(Need(o, n))
    /\ data' = Stored(o, n, v, m)
    /\ UNCHANGED lost
    /\ \/ /\ size' = IF w > 0 THEN NewSize(o, w) ELSE size
          /\ spoiled' = spoiled \ (o + 1 .. o + w)
          /\ ret' = w
       \/ /\ w > 0 /\ ret' = -1      \* stamping or writing the inode fails
          /\ UNCHANGED <<size, spoiled>>

-----------------------------------------------------------------------------
(* truncate_inode                                                          *)

\* zero_partial_block_tail: from byte n to the end of n's block.
TailZeroed(n) == [i \in 1 .. Len(data) |->
                    IF i > n /\ i <= Blks(n) * BlkSize THEN 0 ELSE data[i]]

\* It fails when n's block is not mapped.
TailMapped(n) == n % BlkSize = 0 \/ Blks(n) <= Nr(data)

Shrink(n) == /\ n < size
             /\ TailMapped(n)
             /\ data' = SubSeq(TailZeroed(n), 1, Least(Blks(n) * BlkSize, Len(data)))
             /\ lost' = lost \cap 0 .. Blks(n) - 1
             /\ size' = n
             /\ spoiled' = spoiled \cap 1 .. n
             /\ ret' = 0
             /\ UNCHANGED intact

\* The tail is zeroed or not, the release fails or not, the inode keeps the
\* old size.
ShrinkFails(n) ==
    /\ n < size
    /\ \/ UNCHANGED <<data, lost>>
       \/ /\ TailMapped(n)
          /\ Frees(TailZeroed(n), Blks(n), Nr(data) - Blks(n))
    /\ spoiled' = spoiled \cup (n + 1 .. size)
    /\ ret' = -1
    /\ UNCHANGED <<size, intact>>

\* The blocks a grow adds, counted from i_nr_blocks.
Extra(n) == IF Blks(n) > Nr(data) THEN Blks(n) - Nr(data) ELSE 0

\* Mutant: the blocks added are not zeroed.
ZeroedNot(n, m) == Allocated(Extra(n))

\* zero_file_byte_range(size, n), of which the first m bytes, counted from
\* the start of the block of the old end, have been written.
Zeroed(n, m) ==
    LET d == Allocated(Extra(n))
        a == (size \div BlkSize) * BlkSize
    IN  [i \in 1 .. Len(d) |->
           IF i \in a + 1 .. a + m /\ (i \in size + 1 .. n \/ i > Blks(size) * BlkSize)
           THEN 0 ELSE d[i]]

\* Bytes of the blocks that cover [size, n), all of them mapped by then.
ZeroSpan(n) == (Blks(n) - (size \div BlkSize)) * BlkSize

\* zero_file_byte_range does not look at how much was written: when a raw
\* write stops inside a block the call still succeeds, and what follows is
\* not zeroed.
Grow(n, m) == /\ n > size
              /\ MayAllocate(Extra(n))
              /\ Stores(m, ZeroSpan(n) \div BlkSize)
              /\ Takes(Extra(n))
              /\ data' = Zeroed(n, m)
              /\ size' = n
              /\ LET end == (size \div BlkSize) * BlkSize + m IN
                 spoiled' = spoiled \cup {i \in size + 1 .. n : i > end}
              /\ ret' = 0
              /\ UNCHANGED lost

\* After k blocks of zeros, or after all and a failed inode write: the
\* blocks just allocated are released.
GrowFails(n, k) ==
    /\ n > size
    /\ MayAllocate(Extra(n))
    /\ k * BlkSize <= ZeroSpan(n)
    /\ Takes(Extra(n))
    /\ Frees(Zeroed(n, k * BlkSize), Nr(data), Extra(n))
    /\ ret' = -1
    /\ UNCHANGED <<size, spoiled>>

\* new_size == old_size
NoChange == /\ ret' = 0
            /\ UNCHANGED <<size, data, blocks, spoiled>>

\* An allocation for another file takes one of the lost blocks.
TakenElsewhere == /\ lost # {}
                  /\ intact' = FALSE
                  /\ UNCHANGED <<size, data, lost, spoiled, ret>>

-----------------------------------------------------------------------------

Next == \/ Refused
        \/ \E o \in 0 .. MaxBytes - 1, n \in 1 .. MaxWrite, v \in Vals :
              /\ Start(o) <= (size \div BlkSize) + MaxGap
              /\ \/ WriteAborts(o, n)
                 \/ \E k \in 0 .. MaxBlocks : WriteFails(o, n, v, k)
                 \/ \E m \in 0 .. MaxBytes : WriteSucceeds(o, n, v, m)
        \/ \E n \in 0 .. MaxBytes : Shrink(n) \/ ShrinkFails(n)
        \/ \E n, m \in 0 .. MaxBytes : Grow(n, m)
        \/ \E n \in 0 .. MaxBytes, k \in 0 .. MaxBlocks : GrowFails(n, k)
        \/ NoChange \/ TakenElsewhere

Spec == Init /\ [][Next]_vars

-----------------------------------------------------------------------------
(* Properties.                                                             *)

\* The variables have their types: i_size is at most the maximum file size,
\* whole blocks are mapped, at most MOFS_MAX_FILE_DATA_BLOCKS of them.
TypeOK == /\ size \in 0 .. MaxBytes
          /\ Nr(data) <= MaxBlocks /\ Len(data) % BlkSize = 0
          /\ \A i \in 1 .. Len(data) : data[i] \in Vals \cup {0, Stale}
          /\ lost \subseteq 0 .. Nr(data) - 1 /\ intact \in BOOLEAN
          /\ spoiled \subseteq 1 .. size
          /\ ret \in -1 .. MaxBytes

\* Position i of the file as its size and blocks define it.
ByteAt(i) == IF i <= Len(data) THEN data[i] ELSE Stale

File == INSTANCE ByteFile WITH content <- [i \in 1 .. size |-> ByteAt(i)]

\* Whatever fails, the calls implement a file of bytes: data outside the
\* range of a call survives it, a grown file and the gap before a write read
\* as zero, the count returned is the number of bytes stored.  Two exceptions
\* are part of ByteFile: a raw write that stops short while a truncate zeroes
\* leaves the rest as it was, and nothing is promised once a block that a
\* failed release lost has been handed out.
ImplementsByteFile == File!Spec

\* No byte below the size shows what an earlier owner of its block left
\* there ("zero-fill the gap between old EOF and write offset if needed",
\* mofs_write_core), except where a truncate has failed, or was told to grow
\* the file and a raw write stopped short of the end.
NoStaleBytes == intact => \A i \in 1 .. size : i \in spoiled \/ ByteAt(i) # Stale

\* What mofs_read_core computes from block counts and fractions is what
\* reading a byte sequence means, for every offset and length, as long as the
\* mapped blocks cover the size.  Those are whole blocks, at most
\* MOFS_MAX_FILE_DATA_BLOCKS of them (TypeOK).
ReadMatches == TypeOK /\ (size <= Len(data) =>
    \A o \in 0 .. MaxBytes + 1, n \in 1 .. MaxBytes :
        ReadResult(o, n) = SubSeq(data, o + 1, Least(o + n, size)))
=============================================================================
