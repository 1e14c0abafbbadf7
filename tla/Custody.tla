------------------------------ MODULE Custody ------------------------------
(***************************************************************************)
(* What a capture-the-flag server promises about its flags: at any time a  *)
(* flag is on its base, on the ground or in the hands of one player, a     *)
(* player has one flag at most, and a flag changes hands by way of the     *)
(* ground or the base only.  A flag that moves gets its next number, by    *)
(* which a request about an earlier place of it can be told.               *)
(***************************************************************************)
EXTENDS Naturals

CONSTANTS Flags, Players,
          Versions   \* numbers are counted modulo this number

VARIABLES at,     \* where each flag is
          number

vars == <<at, number>>

Absent == "absent"
Base == "base"
Ground == "ground"

Init == at = [i \in Flags |-> Absent] /\ number = [i \in Flags |-> 0]

\* The map is loaded, or a client starts another one.
Lay == at' \in [Flags -> {Absent, Base}] /\ number' \in [Flags -> 0 .. Versions - 1]
Clear == at' = [i \in Flags |-> Absent] /\ number' = [i \in Flags |-> 0]

After(n) == (n + 1) % Versions

\* The flag that moves gets its next number; one that stays may get it too.
Touch(i) ==
  /\ number'[i] = After(number[i])
  /\ \A j \in Flags : number'[j] \in {number[j], After(number[j])}
Move(i, place) == at' = [at EXCEPT ![i] = place] /\ Touch(i)

Take(i, p) ==
  /\ at[i] \in {Base, Ground}
  /\ \A j \in Flags : at[j] # p
  /\ Move(i, p)

LetGo(i) == at[i] \in Players /\ (Move(i, Ground) \/ Move(i, Base))

Return(i) == at[i] = Ground /\ Move(i, Base)

Stay(i) == at[i] # Absent /\ UNCHANGED at /\ Touch(i)

Next ==
  \/ Clear
  \/ (\A i \in Flags : at[i] = Absent) /\ Lay
  \/ \E i \in Flags :
       LetGo(i) \/ Return(i) \/ Stay(i) \/ \E p \in Players : Take(i, p)

Spec == Init /\ [][Next]_vars
=============================================================================
