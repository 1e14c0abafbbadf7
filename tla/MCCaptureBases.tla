--------------------------- MODULE MCCaptureBases ---------------------------
(* One base with game-clip material in it, two humans and a bot.            *)
EXTENDS CaptureBases, TLC

PlayerSymmetry == Permutations(Players \ Bots)
=============================================================================
