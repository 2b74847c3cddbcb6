--------------------------- MODULE MCOutputBudget ---------------------------
(* OutputBudget for TLC: its constants are plain numbers, given in the .cfg. *)
EXTENDS OutputBudget
=============================================================================
