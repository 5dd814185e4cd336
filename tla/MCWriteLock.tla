---------------------------- MODULE MCWriteLock ----------------------------
(* Instances of WriteLock for TLC.                                         *)
EXTENDS WriteLock

SameUser == Proc \X Proc
=============================================================================
