--------------------------- MODULE MCShaveOnMiss ---------------------------
(* Instances of ShaveOnMiss for TLC: all bindings are of one package.      *)
EXTENDS ShaveOnMiss

CONSTANT validator

MCPackageOf == [b \in Binding |-> validator]
=============================================================================
