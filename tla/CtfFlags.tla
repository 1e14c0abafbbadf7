------------------------------ MODULE CtfFlags ------------------------------
(***************************************************************************)
(* The flags of src/fpsgame/ctf.h on the server, in its three modes, and   *)
(* the events of src/fpsgame/server.cpp that reach them: spawns, deaths,   *)
(* departures, changes of team, messages about flags and serverupdate().   *)
(* A request names the version of the flag its sender has seen, so it may  *)
(* be as old as the network likes.  Where flags lie is not modelled.       *)
(***************************************************************************)
EXTENDS Integers, FiniteSets

CONSTANTS
  Players,    \* humans and bots
  Bots,       \* those of them balanceteams() may move while they live
  None,       \* owner == -1, dropper == -1
  Layouts,    \* the flags a map may have: functions from 0 .. n - 1 to the
              \* team of each flag
  FlagLimit,  \* FLAGLIMIT
  LowScore,   \* bound: a score falls no lower, nor does it rise beyond
              \* FlagLimit, where points scored after the match would take it
  Versions    \* bound: versions are counted modulo this number

Gamemodes == {"ctf", "protect", "hold"}
Teams == {1, 2}
HoldLayouts == {[i \in 0 .. n - 1 |-> 0] : n \in {0, 1}} \* HOLDFLAGS
FlagIds == UNION {DOMAIN L : L \in Layouts \cup HoldLayouts}

VARIABLES
  gamemode,
  life,        \* "alive", "dead", or "out": spectator or gone
  team,        \* ctfteamflag(ci->team), 0 for who is out
  flags,       \* function on the flags the map has, see FlagStates
  notgotflags, \* no client has sent the flags of the map yet
  scores,
  over,        \* gamemillis >= gamelimit
  paused       \* gamepaused

vars == <<gamemode, life, team, flags, notgotflags, scores, over, paused>>
people == <<life, team>>
match == <<gamemode, notgotflags, scores, over, paused>>

classic == gamemode = "ctf"
m_hold == gamemode = "hold"
m_protect == gamemode = "protect"

FlagStates == [team: {0} \cup Teams, owner: Players \cup {None}, dropper: Players \cup {None},
               dropped: BOOLEAN, \* droptime != 0
               invis: BOOLEAN,   \* invistime != 0
               version: 0 .. Versions - 1]

TypeOK ==
  /\ gamemode \in Gamemodes
  /\ life \in [Players -> {"alive", "dead", "out"}]
  /\ team \in [Players -> {0} \cup Teams]
  /\ \E L \in Layouts \cup HoldLayouts : flags \in [DOMAIN L -> FlagStates]
  /\ notgotflags \in BOOLEAN /\ (notgotflags => flags = <<>>)
  /\ over \in BOOLEAN /\ paused \in BOOLEAN
  /\ scores \in [Teams -> LowScore .. FlagLimit]

-----------------------------------------------------------------------------
(* Flags.                                                                  *)

Bump(f) == [f EXCEPT !.version = (@ + 1) % Versions]

\* ownflag(): droptime keeps the time of an earlier drop.
Own(f, p) == [f EXCEPT !.owner = p, !.dropper = None, !.invis = FALSE]

\* dropflag(i, o, lastmillis, ci->clientnum)
Drop(f, p) == [f EXCEPT !.owner = None, !.dropper = p, !.dropped = TRUE,
                        !.invis = FALSE]

\* returnflag(i, invistime)
Home(f, hide) == [f EXCEPT !.owner = None, !.dropper = None,
                           !.dropped = FALSE, !.invis = hide]

Carried(p) == {i \in DOMAIN flags : flags[i].owner = p}

\* dropflag(ci); in protect mode a flag let go inside its base is home.
DropCarried(p, inbase) ==
  [i \in DOMAIN flags |->
     IF flags[i].owner # p THEN flags[i]
     ELSE Bump(IF inbase THEN Home(flags[i], FALSE) ELSE Drop(flags[i], p))]

InBase == IF m_protect THEN BOOLEAN ELSE {FALSE}

\* Mutant: the memory of who dropped it stays.
LetGoKeepsDropper(p, inbase) == DropCarried(p, inbase)

\* died(ci) and leavegame(ci)
LetGo(p, inbase) ==
  LET dropped == DropCarried(p, inbase) IN
  [i \in DOMAIN flags |->
     IF dropped[i].dropper = p THEN [dropped[i] EXCEPT !.dropper = None]
     ELSE dropped[i]]

\* scoreflag() starts the intermission.
Wins(s) == s >= FlagLimit

\* The part of scoreflag() that is not about the flags.
AddPoint(p) ==
  /\ scores' = [scores EXCEPT ![team[p]] = IF @ < FlagLimit THEN @ + 1 ELSE @]
  /\ over' = (over \/ Wins(scores'[team[p]]))
  /\ UNCHANGED <<people, gamemode, notgotflags, paused>>

-----------------------------------------------------------------------------
(* Players.                                                                *)

Init ==
  /\ gamemode \in Gamemodes
  /\ life = [p \in Players |-> "out"]
  /\ team = [p \in Players |-> 0]
  /\ flags = <<>>
  /\ notgotflags = TRUE
  /\ scores = [t \in Teams |-> 0]
  /\ over = FALSE /\ paused = FALSE

\* N_CONNECT or the end of spectating
Enter(p, t) ==
  /\ life[p] = "out"
  /\ life' = [life EXCEPT ![p] = "dead"]
  /\ team' = [team EXCEPT ![p] = t]
  /\ UNCHANGED <<flags, match>>

\* N_SPAWN
Spawn(p) ==
  /\ life[p] = "dead"
  /\ life' = [life EXCEPT ![p] = "alive"]
  /\ UNCHANGED <<team, flags, match>>

\* dodamage() with a deadly outcome, suicide()
Die(p) ==
  /\ life[p] = "alive"
  /\ life' = [life EXCEPT ![p] = "dead"]
  /\ \E b \in InBase : flags' = LetGo(p, b)
  /\ UNCHANGED <<team, match>>

\* clientdisconnect(), spectator(1, p), deleteai()
Leave(p) ==
  /\ life[p] # "out"
  /\ life' = [life EXCEPT ![p] = "out"]
  /\ team' = [team EXCEPT ![p] = 0]
  /\ \E b \in InBase : flags' = LetGo(p, b)
  /\ UNCHANGED match

\* Mutant: the suicide is skipped.
SwitchTeamAlive(p, t) ==
  /\ life[p] # "out"
  /\ team[p] # t
  /\ team' = [team EXCEPT ![p] = t]
  /\ UNCHANGED <<life, flags, match>>

\* N_SWITCHTEAM, N_SETTEAM: the living die of it.
SwitchTeam(p, t) ==
  /\ life[p] # "out"
  /\ team[p] # t
  /\ team' = [team EXCEPT ![p] = t]
  /\ IF life[p] = "alive"
     THEN /\ life' = [life EXCEPT ![p] = "dead"]
          /\ \E b \in InBase : flags' = LetGo(p, b)
     ELSE UNCHANGED <<life, flags>>
  /\ UNCHANGED match

\* balanceteams(): a bot changes sides where it stands.
MoveBot(p, t) ==
  /\ p \in Bots /\ life[p] # "out"
  /\ team[p] # t
  /\ ~over /\ ~paused
  /\ team' = [team EXCEPT ![p] = t]
  /\ IF life[p] = "alive" THEN \E b \in InBase : flags' = DropCarried(p, b)
     ELSE UNCHANGED flags
  /\ UNCHANGED <<life, match>>

-----------------------------------------------------------------------------
(* Messages about flags.                                                   *)

\* N_TRYDROPFLAG
TryDrop(p) ==
  /\ Carried(p) # {}
  /\ \E b \in InBase : flags' = DropCarried(p, b)
  /\ UNCHANGED <<people, match>>

\* The early returns of takeflag()
MayTake(p, i, version) ==
  /\ life[p] = "alive"
  /\ m_hold \/ flags[i].team # 0
  /\ flags[i].owner = None
  /\ flags[i].version = version
  /\ ~(flags[i].dropped /\ flags[i].dropper = p)

\* Does p carry this flag, rather than return it or score at it?
ForMe(p, i) == m_hold \/ (m_protect <=> flags[i].team = team[p])

\* Mutant: a second flag may be picked up.
PickUpSecond(p, i) ==
  /\ ForMe(p, i)
  /\ flags' = [flags EXCEPT ![i] = Bump(Own(@, p))]
  /\ UNCHANGED <<people, match>>

PickUp(p, i) ==
  /\ ForMe(p, i)
  /\ Carried(p) = {}
  /\ flags' = [flags EXCEPT ![i] = Bump(Own(@, p))]
  /\ UNCHANGED <<people, match>>

\* Protect mode: touching the enemy's flag scores unless it just came home.
ProtectScore(p, i) ==
  /\ m_protect /\ ~ForMe(p, i)
  /\ ~flags[i].invis
  /\ flags' = [flags EXCEPT ![i] = Bump(Home(@, TRUE))]
  /\ AddPoint(p)

ReturnOwn(p, i) ==
  /\ classic /\ ~ForMe(p, i)
  /\ flags[i].dropped
  /\ flags' = [flags EXCEPT ![i] = Bump(Home(@, FALSE))]
  /\ UNCHANGED <<people, match>>

\* Touching one's own flag at home with the enemy's flag j in hand.
Capture(p, i) ==
  /\ classic /\ ~ForMe(p, i)
  /\ ~flags[i].dropped
  /\ \E j \in Carried(p) :
       flags' = [flags EXCEPT ![i] = Bump(@), ![j] = Bump(Home(@, FALSE))]
  /\ AddPoint(p)

\* N_TAKEFLAG
TakeFlag(p, i, version) ==
  /\ MayTake(p, i, version)
  /\ PickUp(p, i) \/ ProtectScore(p, i) \/ ReturnOwn(p, i) \/ Capture(p, i)

\* N_INITFLAGS of the first client that has the map: parseflags().  In hold
\* mode the map gives the places and there is one flag, HOLDFLAGS.
InitFlags ==
  /\ notgotflags
  /\ \E L \in IF m_hold THEN HoldLayouts ELSE Layouts :
       flags' = [i \in DOMAIN L |->
         [team |-> L[i], owner |-> None, dropper |-> None, dropped |-> FALSE,
          invis |-> m_protect, version |-> IF m_hold THEN 1 ELSE 0]]
  /\ notgotflags' = FALSE
  /\ UNCHANGED <<people, gamemode, scores, over, paused>>

-----------------------------------------------------------------------------
(* The match.                                                              *)

\* Mutant: flags whose dropper died or left are forgotten.
ResetFlagOfLiving(i) ==
  /\ ~over /\ ~paused
  /\ flags[i].owner = None /\ flags[i].dropped /\ flags[i].dropper # None
  /\ flags' = [flags EXCEPT ![i] = Bump(Home(@, m_protect))]
  /\ UNCHANGED <<people, match>>

\* update(): RESETFLAGTIME after a flag was dropped; in protect mode its team
\* pays for it.
ResetFlag(i) ==
  /\ ~over /\ ~paused
  /\ flags[i].owner = None /\ flags[i].dropped
  /\ flags' = [flags EXCEPT ![i] = Bump(Home(@, m_protect))]
  /\ scores' = [t \in Teams |->
       IF m_protect /\ t = flags[i].team /\ scores[t] > LowScore THEN scores[t] - 1
       ELSE scores[t]]
  /\ UNCHANGED <<people, gamemode, notgotflags, over, paused>>

\* update(): INVISFLAGTIME after a flag came home in protect mode
ShowFlag(i) ==
  /\ ~over /\ ~paused
  /\ flags[i].invis
  /\ flags' = [flags EXCEPT ![i].invis = FALSE]
  /\ UNCHANGED <<people, match>>

\* update(): HOLDSECS in one hand
HoldScore(i) ==
  /\ ~over /\ ~paused
  /\ m_hold /\ flags[i].owner # None
  /\ flags' = [flags EXCEPT ![i] = Bump(Home(@, FALSE))]
  /\ AddPoint(flags[i].owner)

\* The time of the match runs out.
TimeUp ==
  /\ ~over /\ ~paused
  /\ over' = TRUE
  /\ UNCHANGED <<people, flags, gamemode, notgotflags, scores, paused>>

\* pausegame()
Pause ==
  /\ paused' = ~paused
  /\ UNCHANGED <<people, flags, gamemode, notgotflags, scores, over>>

\* changemap() to a mode with flags: reset(false), clearai(), autoteam() and a
\* new life for everybody who plays
ChangeMap ==
  /\ gamemode' \in Gamemodes
  /\ \E p \in Players : life[p] # "out"
  /\ \E t \in [{p \in Players \ Bots : life[p] # "out"} -> Teams] :
       /\ life' = [p \in Players |-> IF p \in DOMAIN t THEN "dead" ELSE "out"]
       /\ team' = [p \in Players |-> IF p \in DOMAIN t THEN t[p] ELSE 0]
  /\ flags' = <<>> /\ notgotflags' = TRUE
  /\ scores' = [t \in Teams |-> 0]
  /\ over' = FALSE /\ paused' = FALSE

\* N_NEWMAP: reset(true), a map without flags
NewMap ==
  /\ \E p \in Players : life[p] # "out"
  /\ flags' = <<>> /\ notgotflags' = FALSE
  /\ scores' = [t \in Teams |-> 0]
  /\ UNCHANGED <<people, gamemode, over, paused>>

PlayerStep(p) ==
  \/ Spawn(p) \/ Die(p) \/ Leave(p) \/ TryDrop(p)
  \/ \E t \in Teams : Enter(p, t) \/ SwitchTeam(p, t) \/ MoveBot(p, t)
  \/ \E i \in DOMAIN flags, v \in 0 .. Versions - 1 : TakeFlag(p, i, v)

Next ==
  \/ \E p \in Players : PlayerStep(p)
  \/ \E i \in DOMAIN flags : ResetFlag(i) \/ ShowFlag(i) \/ HoldScore(i)
  \/ InitFlags \/ NewMap \/ TimeUp \/ Pause \/ ChangeMap

Spec == Init /\ [][Next]_vars

ResetPresent(i) == i \in DOMAIN flags /\ ResetFlag(i)

\* serverupdate() runs from a timer and lastmillis grows while the game is
\* not paused, so a flag on the ground comes to its RESETFLAGTIME.
FairSpec == Spec /\ \A i \in FlagIds : WF_vars(ResetPresent(i))

-----------------------------------------------------------------------------
(* Properties.                                                             *)

\* Whoever carries a flag is alive and on the side that may carry it,
\* whatever becomes of players and teams while it is in his hands.
CarrierFits ==
  \A i \in DOMAIN flags : flags[i].owner # None =>
    /\ life[flags[i].owner] = "alive"
    /\ ForMe(flags[i].owner, i)

\* The player barred from a flag because he dropped it has lived on since, so
\* the bar never falls on the next life, or on the next client with his number.
BarredStillLives ==
  \A i \in DOMAIN flags : flags[i].dropper # None => life[flags[i].dropper] = "alive"

Place(f) == IF f.owner # None THEN f.owner ELSE IF f.dropped THEN "ground" ELSE "base"

Abs == INSTANCE Custody WITH
         Flags <- FlagIds,
         at <- [i \in FlagIds |-> IF i \in DOMAIN flags THEN Place(flags[i]) ELSE "absent"],
         number <- [i \in FlagIds |-> IF i \in DOMAIN flags THEN flags[i].version ELSE 0]

\* The flags of the server are in custody as Custody has it.
ImplementsCustody == Abs!Spec

\* A flag does not lie on the ground for ever, it is taken or goes home, unless
\* the game stands still.
GroundIsTemporary ==
  \A i \in FlagIds :
    []<>(i \in DOMAIN flags /\ Place(flags[i]) = "ground" => paused \/ over)
=============================================================================
