---------------------------- MODULE PosixCallsMC ----------------------------
(* Instances of PosixCalls for TLC.                                        *)
EXTENDS PosixCalls
=============================================================================
