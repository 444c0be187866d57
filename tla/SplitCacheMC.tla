---------------------------- MODULE SplitCacheMC ----------------------------
(* Instances of SplitCache for TLC.                                        *)
EXTENDS SplitCache
=============================================================================
