--------------------------- MODULE MCFlashTiming ---------------------------
(***************************************************************************)
(* Instances of the flash timing for model checking.                       *)
(***************************************************************************)
EXTENDS FlashTiming, TLC

SlotSymmetry == Permutations(Slots)
=============================================================================
