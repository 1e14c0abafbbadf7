------------------------------- MODULE MCLinks -------------------------------
(* The connections of the server: a behaviour is one of EnetChannel or of    *)
(* IrcLink, while the other stands still.                                    *)
EXTENDS MCEnetChannel

CONSTANTS Hosts, Channels, QuitSecs, MaxQueue  \* IrcLink

\* A user types finitely many names.
ASSUME ChannelsAssumption == IsFiniteSet(Channels) /\ QuitSecs \subseteq {0, 1}

VARIABLES part, link, net, ending, exited

ircVars == <<link, net, ending, exited>>

Irc == INSTANCE IrcLink

LinksInit == part \in {"enet", "irc"} /\ Init /\ Irc!Init

LinksNext ==
  \/ part = "enet" /\ Next /\ UNCHANGED <<part, ircVars>>
  \/ part = "irc" /\ Irc!Next /\ UNCHANGED <<part, vars>>

\* At the beginning, where the other part stays, no fairness owes a step.
LinksSpec ==
  /\ LinksInit /\ [][LinksNext]_<<part, vars, ircVars>>
  /\ Fairness /\ Irc!Fairness

ChannelsInStep == Irc!ChannelsInStep
QuitEnds == Irc!QuitEnds
==============================================================================
