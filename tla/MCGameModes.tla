---------------------------- MODULE MCGameModes ----------------------------
(* Flags: a human and a bot on maps with two flags, one of each team and two *)
(* of one team, so that somebody could carry both at once.  Bases: two       *)
(* humans and a bot at one base, so that two of a team can be there with one *)
(* of the other.                                                             *)
EXTENDS GameModes, TLC

TwoFlags == {(0 :> 1) @@ (1 :> 2), (0 :> 1) @@ (1 :> 1), <<>>}
=============================================================================
