---------------------------- MODULE DirectoryMC -----------------------------
(* Instances of Directory for TLC.                                         *)
EXTENDS Directory
=============================================================================
