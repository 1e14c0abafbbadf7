------------------------------- MODULE MCRoom -------------------------------
(* Who rules the room, who has shown who he is, and what the clients hear   *)
(* of each other: a behaviour is one of Sessions, of MasterServer or of     *)
(* WorldStates, while the other two stand still.                            *)
EXTENDS MCSessions

CONSTANTS Bots, MaxSaid, MaxWorlds, MaxLate,  \* WorldStates
          Players, Names, MaxIds, MaxLines    \* MasterServer

ASSUME RequestAssumption == MaxIds \in Nat

ASSUME WorldAssumption ==
  IsFiniteSet(Bots) /\ Slots \cap Bots = {} /\ MaxSaid \in Nat /\ MaxWorlds \in Nat

VARIABLES part,
          listeners, bots, orphans, taken, said, dead, uses, packets,
          players, nextauthreq, sock, out, pos, master, asked, claim

worldVars == <<listeners, bots, orphans, taken, said, dead, uses, packets>>
masterVars == <<players, nextauthreq, sock, out, pos, master, asked, claim>>

World == INSTANCE WorldStates WITH Humans <- Slots, clients <- listeners
Master == INSTANCE MasterServer

RoomInit == part \in {"sessions", "world", "master"} /\ Init /\ World!Init /\ Master!Init

RoomNext ==
  \/ part = "sessions" /\ Next /\ UNCHANGED <<part, worldVars, masterVars>>
  \/ part = "world" /\ World!Next /\ UNCHANGED <<part, vars, masterVars>>
  \/ part = "master" /\ Master!Next /\ UNCHANGED <<part, vars, worldVars>>

RoomSpec == RoomInit /\ [][RoomNext]_<<part, vars, worldVars, masterVars>>

OthersAreHeard == World!OthersAreHeard
AuthFitsRequest == Master!AuthFitsRequest
=============================================================================
