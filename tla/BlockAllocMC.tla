---------------------------- MODULE BlockAllocMC ----------------------------
(* Instances of BlockAlloc for TLC.                                        *)
EXTENDS BlockAlloc

\* Bound: a behaviour is followed up to the step that takes a lost block;
\* no property claims anything of what comes after it.
NotReused == ~reused
=============================================================================
