------------------------------ MODULE MCParser ------------------------------
(* Instances of Parser for TLC.                                            *)
EXTENDS Parser, TLC

ParseSymmetry == Permutations(Parses)
=============================================================================
