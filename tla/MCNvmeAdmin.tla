---------------------------- MODULE MCNvmeAdmin ----------------------------
(***************************************************************************)
(* Instances of the admin queue for model checking.                        *)
(***************************************************************************)
EXTENDS NvmeAdmin, TLC

CidSymmetry == Permutations(Cids)
=============================================================================
