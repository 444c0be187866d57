--------------------------- MODULE BufferCacheMC ----------------------------
(* Instances of BufferCache for TLC.                                       *)
EXTENDS BufferCache
=============================================================================
