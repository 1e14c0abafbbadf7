------------------------------- MODULE MCBots -------------------------------
(* Small instances of Bots: the slots are model values and interchangeable, *)
(* the bots are numbered because addai() takes the first free number.       *)
EXTENDS Bots, TLC

SlotSymmetry == Permutations(Slots)
=============================================================================
