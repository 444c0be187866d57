------------------------------- MODULE DirMap -------------------------------
(***************************************************************************)
(* What a directory promises: a partial map from names to inode numbers.   *)
(* A name is added only if it is absent and removed only if it is present. *)
(* A call that fails with an I/O error has either done its work or not.    *)
(***************************************************************************)
EXTENDS Integers

CONSTANTS Names, Inums

VARIABLES map,   \* map[n]: the inode number of n, 0 if n is absent
          ret    \* the result of the last call

vars == <<map, ret>>

Init == map = [n \in Names |-> 0] /\ ret = "ok"

Put(n, i) == map' = [map EXCEPT ![n] = i]

Add(n, i) == ret' = "ok" /\ map[n] = 0 /\ Put(n, i)
AddExists(n) == ret' = "EEXIST" /\ map[n] # 0 /\ UNCHANGED map
AddFails(n, i) == ret' = "EIO" /\ map[n] = 0 /\ Put(n, i)

Remove(n) == ret' = "ok" /\ map[n] # 0 /\ Put(n, 0)
RemoveMissing(n) == ret' = "ENOENT" /\ map[n] = 0 /\ UNCHANGED map
RemoveFails(n) == ret' = "EIO" /\ map[n] # 0 /\ Put(n, 0)

Fails == ret' = "EIO" /\ UNCHANGED map

Next == \/ \E n \in Names, i \in Inums : Add(n, i) \/ AddFails(n, i)
        \/ \E n \in Names : \/ AddExists(n) \/ Remove(n)
                            \/ RemoveMissing(n) \/ RemoveFails(n)
        \/ Fails

Spec == Init /\ [][Next]_vars
=============================================================================
