------------------------------ MODULE MCExplorer -------------------------------
(* An instance of Explorer for TLC; handlers are interchangeable.             *)
EXTENDS Explorer

Symmetry == Permutations(Handlers)
================================================================================
