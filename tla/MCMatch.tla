------------------------------- MODULE MCMatch -------------------------------
(* A match and a life in it: a behaviour is one of MatchCycle, with two or   *)
(* three humans and one map in two modes, or of Spawning, with a human who   *)
(* has his own client or a bot between two owners, while the other stands    *)
(* still.  The changes of a life are bounded, and with them the behaviour.   *)
EXTENDS MatchCycle

CONSTANTS Owners, LifeMod, MaxChanges  \* Spawning

\* A life takes a change, but for two a bot has before its first one: no
\* number is used again while a message with it can be on its way.
ASSUME LifeAssumption ==
  Owners # {} /\ MaxChanges \in Nat /\ LifeMod \in Nat /\ MaxChanges + 2 <= LifeMod

VARIABLES part, isbot, player, owner, reinit, down, up, plays, changes

lifeVars == <<isbot, player, owner, reinit, down, up, plays, changes>>

Lives == INSTANCE Spawning

NoLife ==
  /\ isbot = FALSE /\ reinit = FALSE
  /\ owner = CHOOSE o \in Owners : TRUE
  /\ player = [state |-> "spectator", lastdeath |-> FALSE, lastspawn |-> FALSE,
               lifesequence |-> 0, known |-> TRUE]
  /\ down = [o \in Owners |-> <<>>] /\ up = [o \in Owners |-> <<>>]
  /\ plays = [o \in Owners |-> "no"]
  /\ changes = 0

MatchInit ==
  \/ part = "match" /\ Init /\ NoLife
  \/ part = "life" /\ Init /\ Lives!Init

MatchNext ==
  \/ part = "match" /\ Next /\ UNCHANGED <<part, lifeVars>>
  \/ part = "life" /\ Lives!Next /\ UNCHANGED <<part, vars>>

\* The part that stands still is in a state in which its fairness owes nothing.
MatchSpec ==
  /\ MatchInit /\ [][MatchNext]_<<part, vars, lifeVars>>
  /\ WF_vars(TimePasses)
  /\ Lives!Fairness

OldAnswersAreRefused == Lives!OldAnswersAreRefused
WaitsForSomething == Lives!WaitsForSomething
TheDeadComeBack == Lives!TheDeadComeBack
==============================================================================
