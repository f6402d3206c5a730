------------------------------ MODULE MCStorage ------------------------------
(***************************************************************************)
(* Two regions side by side, one of three erase blocks and one of two.     *)
(***************************************************************************)
EXTENDS Storage

MCStart     == [v \in Volumes |-> IF v = "filesystem" THEN 1 ELSE 4]
MCNumBlocks == [v \in Volumes |-> IF v = "filesystem" THEN 3 ELSE 2]
=============================================================================
