----------------------------- MODULE GameModes -----------------------------
(***************************************************************************)
(* The modes with flags and the mode with bases as src/fpsgame/server.cpp  *)
(* composes them: smode names the one that is played, it gets every event, *)
(* and changemap() resets the old one and the new one.  The players and    *)
(* the clock are those of the server.                                      *)
(***************************************************************************)
EXTENDS Integers, FiniteSets

CONSTANTS Players, Bots, None, Layouts, FlagLimit, LowScore, Versions,
          BaseLayouts, Visited, NeutralLimit, EnemyLimit, MaxHandOvers, Clips,
          FlagPlayers   \* bound: who plays in the modes with flags

ASSUME PlayersAssumption ==
  /\ FlagPlayers \cup Bots \subseteq Players /\ IsFiniteSet(Players) /\ None \notin Players
ASSUME PlaceAssumption == Players \cap {"absent", "base", "ground"} = {} \* see Custody
ASSUME FlagAssumption ==
  /\ \A L \in Layouts : L \in [0 .. Cardinality(DOMAIN L) - 1 -> {0, 1, 2}]
  /\ FlagLimit \in Nat \ {0} /\ LowScore \in Int /\ LowScore <= 0 /\ Versions \in Nat \ {0, 1}
ASSUME BaseAssumption ==
  /\ \A L \in BaseLayouts : 0 \notin L
  /\ Visited \subseteq UNION BaseLayouts
  /\ NeutralLimit \in Nat \ {0} /\ EnemyLimit \in Nat /\ EnemyLimit >= NeutralLimit
  /\ MaxHandOvers \in Nat
  /\ Clips \subseteq BOOLEAN /\ FALSE \in Clips

VARIABLES gamemode, life, team, over, paused,
          flags, notgotflags, scores,
          at, gameclip, bases, notgotbases, awaited, handovers

flagVars == <<flags, notgotflags, scores>>
baseVars == <<at, gameclip, bases, notgotbases, awaited, handovers>>
vars == <<gamemode, life, team, over, paused, flagVars, baseVars>>

Flags == INSTANCE CtfFlags
Bases == INSTANCE CaptureBases WITH Layouts <- BaseLayouts

m_capture == gamemode = "capture"

NoBases == /\ at = [p \in Players |-> Bases!Nowhere]
           /\ gameclip = [p \in Players |-> FALSE]
           /\ bases = <<>> /\ notgotbases = TRUE
           /\ awaited = {} /\ handovers = 0

Init == Flags!Init /\ NoBases

Bounded == \A p \in Players \ FlagPlayers : life'[p] = "out"

\* smode == &ctfmode
PlayFlags == /\ ~m_capture
             /\ Flags!Next /\ Bounded
             /\ UNCHANGED baseVars

\* smode == &capturemode
PlayBases == /\ m_capture
             /\ Bases!Next
             /\ UNCHANGED <<gamemode, flagVars, paused>>

\* changemap() from the one to the other
ToBases == /\ ~m_capture
           /\ gamemode' = "capture"
           /\ Bases!ChangeMap /\ paused' = FALSE
           /\ flags' = <<>> /\ notgotflags' = TRUE
           /\ scores' = [t \in Flags!Teams |-> 0]

ToFlags == /\ m_capture
           /\ Flags!ChangeMap /\ Bounded
           /\ at' = [p \in Players |-> Bases!Nowhere]
           /\ gameclip' = [p \in Players |-> FALSE]
           /\ bases' = <<>> /\ notgotbases' = TRUE
           /\ awaited' = {} /\ handovers' = 0

Next == PlayFlags \/ PlayBases \/ ToBases \/ ToFlags

Spec == Init /\ [][Next]_vars

\* serverupdate() runs from a timer: flags on the ground come to their
\* RESETFLAGTIME, and seconds go by at the bases.
FairSpec ==
  /\ Spec
  /\ \A i \in Flags!FlagIds :
       WF_vars(~m_capture /\ Flags!ResetPresent(i) /\ UNCHANGED baseVars)
  /\ WF_vars(m_capture /\ Bases!BeginSecond /\ UNCHANGED <<gamemode, flagVars, paused>>)

-----------------------------------------------------------------------------
\* The properties of both modes; one that is not played has nothing.
TypeOK ==
  /\ Bases!TypeOK
  /\ IF m_capture THEN flags = <<>> /\ notgotflags
                  ELSE Flags!TypeOK /\ NoBases

CarrierFits == Flags!CarrierFits
BarredStillLives == Flags!BarredStillLives
ImplementsCustody == Flags!ImplementsCustody
GroundIsTemporary == Flags!GroundIsTemporary
CountsFit == TypeOK /\ Bases!CountsFit
EnemyFades == Bases!EnemyFades
TakenByStanding == Bases!TakenByStanding
=============================================================================
