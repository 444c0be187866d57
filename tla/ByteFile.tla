------------------------------ MODULE ByteFile ------------------------------
(***************************************************************************)
(* What the file layer promises to its callers: a regular file is a        *)
(* sequence of bytes.  A write that ends past the end extends the file and *)
(* whatever lies between the old end and the write reads as zero; a        *)
(* truncate cuts the file or extends it with zeros, of which the last ones *)
(* may be missing.  A write that fails may have stored a prefix of its     *)
(* bytes inside the file; a truncate that fails keeps the length and the   *)
(* bytes it was to keep, and may have destroyed the ones it was to         *)
(* discard.  The promise ends when the file has lost a block to another    *)
(* use (intact).                                                           *)
(***************************************************************************)
EXTENDS Integers, Sequences

CONSTANTS Vals,      \* the bytes a caller writes
          MaxBytes   \* the largest file

VARIABLES content,   \* the bytes of the file
          intact,    \* every block of the file is its own
          spoiled,   \* positions a truncate has destroyed, or not zeroed
          ret        \* what the last call returned: a byte count, or -1

vars == <<content, intact, spoiled, ret>>

Bytes(c) == 1 .. Len(c)

Init == content = <<>> /\ intact = TRUE /\ spoiled = {} /\ ret = 0

\* c' agrees with f on every position that is not spoiled afterwards.
Becomes(len, f(_)) == /\ Len(content') = len
                      /\ \A i \in Bytes(content') \ spoiled' : content'[i] = f(i)

\* m bytes v are written at positions o + 1, ..., o + m.
Write(o, m, v) ==
    /\ ret' = m
    /\ spoiled' = spoiled \ (o + 1 .. o + m)
    /\ Becomes(IF o + m > Len(content) THEN o + m ELSE Len(content),
               LAMBDA i : IF i \in o + 1 .. o + m THEN v
                          ELSE IF i <= Len(content) THEN content[i] ELSE 0)

WriteFails(o, m, v) ==
    /\ ret' \in {-1, 0}
    /\ UNCHANGED spoiled
    /\ Becomes(Len(content),
               LAMBDA i : IF i \in o + 1 .. o + m THEN v ELSE content[i])

\* A file that grows reads as zero up to position z.
Truncate(n, z) ==
    /\ ret' = 0
    /\ z >= n \/ z >= Len(content)
    /\ spoiled' = (spoiled \cap 1 .. n) \cup (z + 1 .. n)
    /\ Becomes(n, LAMBDA i : IF i <= Len(content) THEN content[i] ELSE 0)

TruncateFails(n) ==
    /\ ret' = -1
    /\ spoiled' = spoiled \cup (n + 1 .. Len(content))
    /\ Becomes(Len(content), LAMBDA i : content[i])

BlockLost == intact' = FALSE

Next == \/ BlockLost
        \/ /\ UNCHANGED intact
           /\ \/ \E o \in 0 .. MaxBytes, v \in Vals : \E m \in 0 .. MaxBytes - o :
                    WriteFails(o, m, v) \/ (m > 0 /\ Write(o, m, v))
              \/ \E n, z \in 0 .. MaxBytes : Truncate(n, z)
              \/ \E n \in 0 .. MaxBytes : TruncateFails(n)

Spec == Init /\ [][Next]_vars
=============================================================================
