----------------------------- MODULE Mastership -----------------------------
(***************************************************************************)
(* What the players of a server may rely on: there is one holder of the    *)
(* mastership at a time and it is somebody who plays; only a holder        *)
(* restricts the room, only an admin freezes the match, and both end with  *)
(* the mastership.  Sessions implements this when nobody commands from     *)
(* outside the game and commands name players.                             *)
(***************************************************************************)
EXTENDS Naturals

CONSTANTS Person, Nobody

VARIABLES players, holder, rank, mode, frozen

absvars == <<players, holder, rank, mode, frozen>>

Open == 0
Modes == 0..3
None == 0
Master == 1
Admin == 2

Vacant == holder' = Nobody /\ rank' = None /\ mode' = Open /\ frozen' = FALSE

AbsInit ==
  /\ players = {}
  /\ holder = Nobody /\ rank = None /\ mode = Open /\ frozen = FALSE

\* Somebody new plays; the mastership is not affected.
Enter(p) == players' = players \cup {p} /\ UNCHANGED <<holder, rank, mode, frozen>>

\* Some players go.  If the holder is one of them the mastership ends in the
\* same step, and with it the restrictions and the pause.
Go(S) ==
  /\ players' = players \ S
  /\ IF holder \in S THEN Vacant ELSE UNCHANGED <<holder, rank, mode, frozen>>

\* A player becomes admin: the room keeps its mode, a pause stays.
TakeAdmin(p) ==
  /\ p \in players
  /\ holder' = p /\ rank' = Admin
  /\ frozen' = frozen
  /\ UNCHANGED <<players, mode>>

\* A player becomes a plain master: the room is open and the match runs.
TakeMaster(p) ==
  /\ p \in players
  /\ holder' = p /\ rank' = Master
  /\ mode' = Open /\ frozen' = FALSE
  /\ UNCHANGED players

Release == holder # Nobody /\ Vacant /\ UNCHANGED players

Restrict(m) ==
  /\ holder # Nobody
  /\ mode' = m
  /\ UNCHANGED <<players, holder, rank, frozen>>

\* Freezing takes an admin; the match also resumes with a new map.
Freeze(v) ==
  /\ v => rank = Admin
  /\ frozen' = v
  /\ UNCHANGED <<players, holder, rank, mode>>

AbsNext ==
  \/ \E p \in Person : Enter(p) \/ TakeAdmin(p) \/ TakeMaster(p)
  \/ \E S \in SUBSET Person : Go(S)
  \/ Release
  \/ \E m \in Modes : Restrict(m)
  \/ \E v \in BOOLEAN : Freeze(v)

AbsSpec == AbsInit /\ [][AbsNext]_absvars
=============================================================================
