----------------------------- MODULE BlockStore -----------------------------
(***************************************************************************)
(* What the block layer promises to the rest of the MOFS core, whichever   *)
(* cache implements it.  A block is a vector of parts (device sectors);    *)
(* mem is what a read of the block returns now, may is, part by part, what *)
(* the block can turn out to hold once everything volatile is lost.        *)
(*                                                                         *)
(*   - a read returns the contents of the last write of the block;         *)
(*   - a patch changes one part and leaves the others as they were;        *)
(*   - a failed operation on a cached device changes nothing;              *)
(*   - a sync makes the current contents the only possible ones, unless the*)
(*     cache is not ready: that one reports success and changes nothing;   *)
(*   - a loss of volatile state never produces a part nobody wrote since   *)
(*     the last sync.                                                      *)
(***************************************************************************)
CONSTANTS Blocks,   \* absolute device block numbers
          Parts,    \* the separately written parts of a block
          Vals      \* what one part can hold

VARIABLES mem,      \* mem[b][p]: current contents
          may,      \* may[b][p]: the values part p may have after a loss
          res       \* what the last finished step reported to its caller

vars == <<mem, may, res>>

Contents == [Parts -> Vals]

Ops == {"none", "read", "write", "patch", "sync", "unsynced", "drop", "fini", "error", "werror"}

NoResult == [op |-> "none", blk |-> 0, data |-> {}]
Result(op, b, cs) == [op |-> op, blk |-> b, data |-> cs]

Init == /\ mem \in [Blocks -> Contents]
        /\ may = [b \in Blocks |-> [p \in Parts |-> {mem[b][p]}]]
        /\ res = NoResult

OthersKept(b) == \A x \in Blocks \ {b} : mem'[x] = mem[x] /\ may'[x] = may[x]

\* The overwritten value of a part may or may not have reached the device.
Holds(b, c) == /\ mem'[b] = c
               /\ \A p \in Parts : may'[b][p] \in {may[b][p] \cup {c[p]},
                                      (may[b][p] \ {mem[b][p]}) \cup {c[p]}}
               /\ OthersKept(b)

Write(b, c) == /\ res' = Result("write", b, {})
               /\ Holds(b, c)

Patch(b, p, v) == /\ res' = Result("patch", b, {})
                  /\ Holds(b, [mem[b] EXCEPT ![p] = v])

Read(b) == /\ res' = Result("read", b, {mem[b]})
           /\ UNCHANGED <<mem, may>>

\* Only a write that bypasses the cache can fail half way.
WriteFails(b, c) == /\ res' = Result("werror", b, {})
                    /\ \A p \in Parts : /\ mem'[b][p] \in {mem[b][p], c[p]}
                                        /\ may'[b][p] = may[b][p] \cup {mem'[b][p]}
                    /\ OthersKept(b)

Fails == /\ res' = Result("error", 0, {})
         /\ UNCHANGED <<mem, may>>

Sync == /\ res' = Result("sync", 0, {})
        /\ may' = [b \in Blocks |-> [p \in Parts |-> {mem[b][p]}]]
        /\ UNCHANGED mem

\* The sync of a cache that is not ready.
Unsynced == /\ res' = Result("unsynced", 0, {})
            /\ UNCHANGED <<mem, may>>

\* Cached contents are given up without being written back.
Lost(b) == \A p \in Parts : /\ mem'[b][p] \in may[b][p]
                            /\ may'[b][p] \in {may[b][p], may[b][p] \ {mem[b][p]}}
                            /\ mem'[b][p] \in may'[b][p]

Drop(b) == /\ res' = Result("drop", b, {})
           /\ Lost(b)
           /\ OthersKept(b)

DropAll == /\ res' = Result("fini", 0, {})
           /\ \A b \in Blocks : Lost(b)

PowerLoss == /\ res' = NoResult
             /\ \A b \in Blocks, p \in Parts : mem'[b][p] \in may[b][p]
             /\ may' = [b \in Blocks |-> [p \in Parts |-> {mem'[b][p]}]]

Begin == /\ res' = NoResult
         /\ UNCHANGED <<mem, may>>

Next == \/ \E b \in Blocks, c \in Contents : Write(b, c) \/ WriteFails(b, c)
        \/ \E b \in Blocks, p \in Parts, v \in Vals : Patch(b, p, v)
        \/ \E b \in Blocks : Read(b) \/ Drop(b)
        \/ Fails \/ Sync \/ Unsynced \/ DropAll \/ PowerLoss \/ Begin

Spec == Init /\ [][Next]_vars
=============================================================================
