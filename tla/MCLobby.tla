------------------------------ MODULE MCLobby ------------------------------
(* Who is on the server, which team he is in and whose program plays the    *)
(* bots: a behaviour is one of Sessions, of Teams or of BotLoops, each with *)
(* bounds of its own, while the variables of the other two stand still.     *)
EXTENDS MCSessions

CONSTANTS LoopSlots, LoopBots,            \* BotLoops
          People, NumTeams, BotLimit, MaxRank  \* Teams

ASSUME NamesAssumption == NumTeams \in Nat /\ NumTeams >= 2
ASSUME LoopsAssumption ==
          NoSlot \notin LoopSlots /\ IsFiniteSet(LoopSlots) /\ LoopBots \in Nat

VARIABLES part,
          V, leaving, start, now,
          team, watchers, bots, mode, dorefresh, call

loopVars == <<V, leaving, start, now>>
teamVars == <<team, watchers, bots, mode, dorefresh, call>>

Loops == INSTANCE BotLoops WITH Slots <- LoopSlots, MaxBots <- LoopBots
Sides == INSTANCE Teams WITH spectators <- watchers

LoopsRest == Loops!Init /\ V = {} /\ leaving = NoSlot
SidesRest == Sides!Init /\ mode = "teamplay"

LobbyInit ==
  \/ part = "sessions" /\ Init /\ LoopsRest /\ SidesRest
  \/ part = "loops" /\ Init /\ Loops!Init /\ SidesRest
  \/ part = "teams" /\ Init /\ LoopsRest /\ Sides!Init

LobbyNext ==
  \/ part = "sessions" /\ Next /\ UNCHANGED <<part, loopVars, teamVars>>
  \/ part = "loops" /\ Loops!Next /\ UNCHANGED <<part, vars, teamVars>>
  \/ part = "teams" /\ Sides!Next /\ UNCHANGED <<part, vars, loopVars>>

LobbySpec == LobbyInit /\ [][LobbyNext]_<<part, vars, loopVars, teamVars>>

LoopsAgree == Loops!LoopsAgree
LoopsEnd == Loops!LoopsEnd
AutoteamIsFair == Sides!AutoteamIsFair
BotsEvenTeams == Sides!BotsEvenTeams
=============================================================================
