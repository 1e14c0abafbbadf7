---------------------------- MODULE CaptureBases ----------------------------
(***************************************************************************)
(* The bases of src/fpsgame/capture.h on the server.  A base does not know *)
(* its visitors: it counts those of its owner and those of one enemy, and  *)
(* the counts follow from the events that bring a player in or out, which  *)
(* are spread over src/fpsgame/server.cpp and src/fpsgame/aiman.h: spawns, *)
(* deaths, departures, changes of team and movements, which the client     *)
(* reports.  A player stands next to one base at most; one who reports     *)
(* that he is in game-clip material is next to none.  Points, ammunition   *)
(* and health that a base gives are not modelled, nor is the pause, which  *)
(* keeps Update, MoveBot and HandOver from happening and nothing else.     *)
(***************************************************************************)
EXTENDS Integers, FiniteSets

CONSTANTS
  Players,       \* humans and bots
  Bots,          \* those of them balanceteams() may move while they live
  Layouts,       \* the bases a map may have: sets of numbers
  Visited,       \* bound: the bases players go to
  NeutralLimit,  \* OCCUPYNEUTRALLIMIT
  EnemyLimit,    \* OCCUPYENEMYLIMIT
  MaxHandOvers,  \* bound: living bots handed over during a match
  Clips          \* what players report about game-clip material

Teams == {1, 2}
NoTeam == 0
Nowhere == 0
MapBases == UNION Layouts

VARIABLES
  life,        \* "alive", "dead", or "out": spectator or gone
  team,        \* ci->team, NoTeam for who is out
  at,          \* the base ci->state.o is next to
  gameclip,    \* ci->gameclip
  bases,       \* empty while the map's bases are unknown
  notgotbases, \* no client has sent the bases of the map yet
  awaited,     \* living bots whose state.lastspawn >= 0: N_SPAWN is due
  handovers,   \* history: how often a living bot was handed over
  over         \* gamemillis >= gamelimit

vars == <<life, team, at, gameclip, bases, notgotbases, awaited, handovers, over>>
people == <<life, team, at, gameclip>>
handed == <<awaited, handovers>>
match == <<notgotbases, over>>

BaseStates == [owner: {NoTeam} \cup Teams, enemy: {NoTeam} \cup Teams,
               owners: Nat, enemies: Nat, converted: 0 .. EnemyLimit]

TypeOK ==
  /\ life \in [Players -> {"alive", "dead", "out"}]
  /\ team \in [Players -> {NoTeam} \cup Teams]
  /\ at \in [Players -> {Nowhere} \cup MapBases]
  /\ gameclip \in [Players -> Clips]
  /\ \E L \in Layouts \cup {{}} : bases \in [L -> BaseStates]
  /\ notgotbases \in BOOLEAN /\ (notgotbases => bases = <<>>)
  /\ awaited \subseteq {p \in Bots : life[p] = "alive"}
  /\ handovers \in 0 .. MaxHandOvers /\ (handovers = 0 => awaited = {})
  /\ over \in BOOLEAN

-----------------------------------------------------------------------------
(* Bases.                                                                  *)

\* baseinfo::reset() and noenemy()
Neutral == [owner |-> NoTeam, enemy |-> NoTeam, owners |-> 0, enemies |-> 0, converted |-> 0]
NoEnemy(b) == [b EXCEPT !.enemy = NoTeam, !.enemies = 0, !.converted = 0]

\* baseinfo::enter(): the first enemy starts over what another team began;
\* the enemies of the enemy are not counted.
EnterBase(b, t) ==
  IF b.owner = t THEN [b EXCEPT !.owners = @ + 1]
  ELSE IF b.enemies = 0 THEN [b EXCEPT !.enemy = t, !.enemies = 1,
                                       !.converted = IF b.enemy = t THEN @ ELSE 0]
  ELSE IF b.enemy = t THEN [b EXCEPT !.enemies = @ + 1]
  ELSE b

\* Mutant: who leaves an owned base is always taken for an owner.
LeaveBaseOwned(b, t) ==
  IF b.owner # NoTeam THEN [b EXCEPT !.owners = IF @ > 0 THEN @ - 1 ELSE 0]
  ELSE IF b.enemy = t /\ b.enemies > 0 THEN [b EXCEPT !.enemies = @ - 1]
  ELSE b

\* baseinfo::leave()
LeaveBase(b, t) ==
  IF b.owner = t /\ b.owners > 0 THEN [b EXCEPT !.owners = @ - 1]
  ELSE IF b.enemy = t /\ b.enemies > 0 THEN [b EXCEPT !.enemies = @ - 1]
  ELSE b

\* baseinfo::occupy() by the enemy: it loses ground, gains some, drives the
\* owner out, or has the base.
Occupy(b, units) ==
  LET c == b.converted + units
      limit == IF b.owner # NoTeam THEN EnemyLimit ELSE NeutralLimit
  IN IF units < 0 THEN IF c <= 0 THEN NoEnemy(b) ELSE [b EXCEPT !.converted = c]
     ELSE IF c < limit THEN [b EXCEPT !.converted = c]
     ELSE IF b.owner # NoTeam THEN [b EXCEPT !.owner = NoTeam, !.converted = 0]
     ELSE NoEnemy([b EXCEPT !.owner = b.enemy, !.owners = b.enemies])

\* stealbase(): every living player of the team near the base, in clip
\* material or not; it is called when no enemy is counted.
StealBase(b, n, t) ==
  [EnterBase(b, t) EXCEPT !.enemies =
      Cardinality({p \in Players : life[p] = "alive" /\ team[p] = t /\ at[p] = n})]

Steal(b, t) == b.enemies = 0 /\ b.owner # t

\* Where a player counts: insidebase() and the clip flag
Spot(n, clip) == IF clip THEN Nowhere ELSE n

\* movebases(), from one spot to another
MoveBases(t, from, to) ==
  [n \in DOMAIN bases |->
     IF over \/ n \notin {from, to} THEN bases[n]
     ELSE IF from # to THEN IF n = from THEN LeaveBase(bases[n], t) ELSE EnterBase(bases[n], t)
     ELSE IF Steal(bases[n], t) THEN StealBase(bases[n], n, t)
     ELSE bases[n]]

Here(p) == Spot(at[p], gameclip[p])

\* leavebases() and enterbases()
LeaveBases(p) == MoveBases(team[p], Here(p), Nowhere)
EnterBases(p) == MoveBases(team[p], Nowhere, Here(p))

-----------------------------------------------------------------------------
(* Players.                                                                *)

Init ==
  /\ life = [p \in Players |-> "out"]
  /\ team = [p \in Players |-> NoTeam]
  /\ at = [p \in Players |-> Nowhere]
  /\ gameclip = [p \in Players |-> FALSE]
  /\ bases = <<>> /\ notgotbases = TRUE
  /\ awaited = {} /\ handovers = 0
  /\ over = FALSE

\* N_CONNECT or the end of spectating; a spectator may have reported anything
\* about clip material.
Enter(p, t) ==
  /\ life[p] = "out"
  /\ life' = [life EXCEPT ![p] = "dead"]
  /\ team' = [team EXCEPT ![p] = t]
  /\ \E c \in Clips : gameclip' = [gameclip EXCEPT ![p] = c]
  /\ UNCHANGED <<at, bases, handed, match>>

\* N_TRYSPAWN: respawn() puts him far away, as it does a dead bot that is
\* handed over.
TrySpawn(p) ==
  /\ life[p] = "dead"
  /\ at' = [at EXCEPT ![p] = Nowhere]
  /\ UNCHANGED <<life, team, gameclip, bases, handed, match>>

\* N_SPAWN of the dead, and of a living bot from the client that has got it:
\* spawned(), where he has reported to be since.
Spawn(p) ==
  /\ life[p] = "dead" \/ p \in awaited
  /\ life' = [life EXCEPT ![p] = "alive"]
  /\ bases' = EnterBases(p)
  /\ awaited' = awaited \ {p}
  /\ UNCHANGED <<team, at, gameclip, handovers, match>>

\* reinitai() of a living bot: reassign() puts it far away and no base hears
\* of it, sendspawn() asks its new owner for N_SPAWN.
HandOver(p) ==
  /\ p \in Bots /\ life[p] = "alive"
  /\ ~over /\ handovers < MaxHandOvers
  /\ at' = [at EXCEPT ![p] = Nowhere]
  /\ awaited' = awaited \cup {p}
  /\ handovers' = handovers + 1
  /\ UNCHANGED <<life, team, gameclip, bases, match>>

\* N_POS of the living and, late, of the dead
Move(p, n, c) ==
  /\ life[p] # "out"
  /\ at' = [at EXCEPT ![p] = n] /\ gameclip' = [gameclip EXCEPT ![p] = c]
  /\ bases' = IF life[p] = "alive" THEN MoveBases(team[p], Here(p), Spot(n, c)) ELSE bases
  /\ UNCHANGED <<life, team, handed, match>>

\* What a death, a departure or a suicide does to a player's bases.  (Who was
\* awaited may spawn as the dead do.)
LetGo(p) ==
  /\ bases' = IF life[p] = "alive" THEN LeaveBases(p) ELSE bases
  /\ awaited' = awaited \ {p}

\* dodamage() with a deadly outcome leaves him where he is, suicide() does not.
Die(p) ==
  /\ life[p] = "alive"
  /\ life' = [life EXCEPT ![p] = "dead"]
  /\ at' \in {at, [at EXCEPT ![p] = Nowhere]}
  /\ LetGo(p)
  /\ UNCHANGED <<team, gameclip, handovers, match>>

\* clientdisconnect(), spectator(1, p), deleteai()
Leave(p) ==
  /\ life[p] # "out"
  /\ life' = [life EXCEPT ![p] = "out"]
  /\ team' = [team EXCEPT ![p] = NoTeam]
  /\ at' = [at EXCEPT ![p] = Nowhere]
  /\ gameclip' = [gameclip EXCEPT ![p] = FALSE]
  /\ LetGo(p)
  /\ UNCHANGED <<handovers, match>>

\* N_SWITCHTEAM, N_SETTEAM: the living die of it.
SwitchTeam(p, t) ==
  /\ life[p] # "out" /\ team[p] # t
  /\ team' = [team EXCEPT ![p] = t]
  /\ life' = [life EXCEPT ![p] = "dead"]
  /\ at' = IF life[p] = "alive" THEN [at EXCEPT ![p] = Nowhere] ELSE at
  /\ LetGo(p)
  /\ UNCHANGED <<gameclip, handovers, match>>

\* balanceteams(): a bot changes sides where it stands, changeteam().
MoveBot(p, t) ==
  /\ p \in Bots /\ life[p] # "out" /\ team[p] # t
  /\ ~over
  /\ team' = [team EXCEPT ![p] = t]
  /\ bases' =
       IF life[p] = "alive" /\ Here(p) \in DOMAIN bases
       THEN [bases EXCEPT ![Here(p)] = EnterBase(LeaveBase(@, team[p]), t)]
       ELSE bases
  /\ UNCHANGED <<life, at, gameclip, handed, match>>

\* N_BASES of the first client that has the map: parsebases(), and the living
\* enter the bases they are at, in the order of the list of clients.
ParseBases ==
  /\ notgotbases
  /\ notgotbases' = FALSE
  /\ LET Near(n, t) == {p \in Players : life[p] = "alive" /\ Here(p) = n /\ team[p] = t /\ ~over}
     IN \E L \in Layouts : \E first \in [L -> {NoTeam} \cup Teams] :
          /\ \A n \in L : IF first[n] = NoTeam THEN \A t \in Teams : Near(n, t) = {}
                                               ELSE Near(n, first[n]) # {}
          /\ bases' = [n \in L |->
               [Neutral EXCEPT !.enemy = first[n],
                               !.enemies = Cardinality(Near(n, first[n]))]]
  /\ UNCHANGED <<people, handed, over>>

\* N_NEWMAP: reset(true), a map without bases
NewMap ==
  /\ \E p \in Players : life[p] # "out"
  /\ bases' = <<>> /\ notgotbases' = FALSE
  /\ UNCHANGED <<people, handed, over>>

-----------------------------------------------------------------------------
(* The match.                                                              *)

\* endcheck()
Won == \E t \in Teams : DOMAIN bases # {} /\ \A n \in DOMAIN bases : bases[n].owner = t

\* Mutant: owners at the base are enough to keep it as it is.
ContestedHeld(b) == b.owners > 0

Contested(b) == b.owners > 0 /\ b.enemies > 0

\* What update() does to a base whose enemy is known, once a second (t = 1).
Second(b) ==
  IF b.enemy = NoTeam \/ Contested(b) THEN b
  ELSE Occupy(b, IF b.enemies > 0 THEN 1 + b.enemies ELSE -1 - (1 + b.owners))

\* update(), in a call that begins a second and in one that does not
Update ==
  /\ ~over
  /\ over' = Won
  /\ bases' \in {bases, [n \in DOMAIN bases |-> Second(bases[n])]}
  /\ UNCHANGED <<people, handed, notgotbases>>

\* The time of the match runs out.
TimeUp ==
  /\ ~over
  /\ over' = TRUE
  /\ UNCHANGED <<people, bases, handed, notgotbases>>

\* changemap() to a mode with bases: reset(false), clearai(), autoteam() and a
\* new life for everybody who plays
ChangeMap ==
  /\ \E p \in Players : life[p] # "out"
  /\ \E t \in [{p \in Players \ Bots : life[p] # "out"} -> Teams] :
       /\ life' = [p \in Players |-> IF p \in DOMAIN t THEN "dead" ELSE "out"]
       /\ team' = [p \in Players |-> IF p \in DOMAIN t THEN t[p] ELSE NoTeam]
  /\ at' = [p \in Players |-> Nowhere]
  /\ gameclip' = [p \in Players |-> FALSE]
  /\ bases' = <<>> /\ notgotbases' = TRUE
  /\ awaited' = {} /\ handovers' = 0
  /\ over' = FALSE

PlayerStep(p) ==
  \/ TrySpawn(p) \/ Spawn(p) \/ HandOver(p) \/ Die(p) \/ Leave(p)
  \/ \E t \in Teams : Enter(p, t) \/ SwitchTeam(p, t) \/ MoveBot(p, t)
  \/ \E n \in {Nowhere} \cup Visited, c \in Clips : Move(p, n, c)

Next ==
  \/ \E p \in Players : PlayerStep(p)
  \/ ParseBases \/ NewMap \/ Update \/ TimeUp \/ ChangeMap

Spec == Init /\ [][Next]_vars

BeginSecond == Update /\ bases' = [n \in DOMAIN bases |-> Second(bases[n])]

\* serverupdate() runs from a timer, so seconds go by, unless the game is
\* paused for ever.
FairSpec == Spec /\ WF_vars(BeginSecond)

-----------------------------------------------------------------------------
(* Properties.                                                             *)

Standing(n, t) == {p \in Players : life[p] = "alive" /\ team[p] = t /\ Here(p) = n}

\* A base counts nobody who is not there, by whatever way players came, went,
\* died or changed sides, but for the living bots that were handed over: each
\* may be counted still where it stood, and once more where it spawns.  A base
\* counts for teams it knows only and its enemy is not its owner.  (While the
\* match is on; on a map without clip material.)
CountsFit ==
  ~over => \A n \in DOMAIN bases :
    LET b == bases[n] IN
    /\ b.owners <= Cardinality(Standing(n, b.owner)) + 2 * handovers
    /\ b.enemies <= Cardinality(Standing(n, b.enemy)) + 2 * handovers
    /\ b.enemy # NoTeam => b.enemy # b.owner
    /\ b.enemy = NoTeam => b.converted = 0

\* An attack that nobody goes on with does not last: a base does not keep for
\* ever an enemy team of which nobody stands there, unless the match is over or a
\* living bot was handed over, which may be counted there for ever.
EnemyFades ==
  \A n \in Visited :
    []<>(n \in DOMAIN bases /\ bases[n].enemy # NoTeam
           => Standing(n, bases[n].enemy) # {} \/ over \/ handovers > 0)

\* "Capture neutral bases or steal enemy bases by standing next to them."
\* (src/fpsgame/game.h)
TakenByStanding ==
  [][\A n \in DOMAIN bases \cap DOMAIN bases' :
       bases'[n].owner \notin {NoTeam, bases[n].owner} =>
         \E p \in Players : life[p] = "alive" /\ team[p] = bases'[n].owner /\ at[p] = n]_vars
=============================================================================
