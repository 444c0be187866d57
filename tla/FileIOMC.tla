------------------------------ MODULE FileIOMC ------------------------------
(* Instances of FileIO for TLC.                                            *)
EXTENDS FileIO
=============================================================================
