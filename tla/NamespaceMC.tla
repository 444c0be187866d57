---------------------------- MODULE NamespaceMC -----------------------------
(* Instances of Namespace for TLC.                                         *)
EXTENDS Namespace

\* Bound: a behaviour is followed up to the call that leaves the tree wrong;
\* only FailedCallKeepsRest, a property of single calls, holds after it.
NotUndone == ~undone
=============================================================================
