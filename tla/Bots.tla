-------------------------------- MODULE Bots --------------------------------
(***************************************************************************)
(* The server side of the bots, src/fpsgame/aiman.h: bots are added and    *)
(* removed by privileged clients, handed over when their owner leaves or   *)
(* may not own bots any more, and spread evenly; other clients learn of an *)
(* owner when checkai() announces it.  Sessions says who may become master;*)
(* here a master comes and goes in the ways setmaster() knows.  Teams are  *)
(* not modelled: they only decide which bot wears which colour.            *)
(***************************************************************************)
EXTENDS BotTables

VARIABLES
  clients,    \* humans in `clients`
  spectators, \* those in state CS_SPECTATOR
  master,     \* the privileged human, or NoSlot
  isadmin,    \* is its privilege PRIV_ADMIN?
  adminpass,  \* is adminpass set?
  ai,         \* the bot tables, see Tables
  botlimit,   \* serverbotlimit
  botmode,    \* m_botmode
  halted      \* gamepaused, or the match time is over: no checkai()

people == <<clients, spectators, master, isadmin>>
match == <<adminpass, botlimit, botmode, halted>>
vars == <<clients, spectators, master, isadmin, adminpass, ai, botlimit, botmode, halted>>

TypeOK ==
  /\ clients \subseteq Slots
  /\ spectators \subseteq clients
  /\ master \in clients \cup {NoSlot}
  /\ isadmin \in BOOLEAN /\ adminpass \in BOOLEAN
  /\ ai \in Tables
  /\ botlimit \in 0..MaxBots
  /\ botmode \in BOOLEAN
  /\ halted \in BOOLEAN

-----------------------------------------------------------------------------
(* Steps.                                                                  *)

Init ==
  /\ clients = {} /\ spectators = {} /\ master = NoSlot /\ isadmin = FALSE
  /\ ai = [bots |-> {}, owner |-> [b \in BotIds |-> NoSlot],
           listed |-> [c \in Slots |-> {}], taken |-> {}, reinit |-> {},
           told |-> [b \in BotIds |-> NoSlot], dorefresh |-> FALSE]
  /\ adminpass \in BOOLEAN
  /\ botlimit \in 0..MaxBots
  /\ botmode \in BOOLEAN
  /\ halted = FALSE

\* N_CONNECT; in a locked room the newcomer is a spectator.
Join(c) ==
  /\ c \notin clients
  /\ clients' = clients \cup {c}
  /\ spectators' \in {spectators, spectators \cup {c}}
  /\ ai' = [ai EXCEPT !.dorefresh = TRUE]
  /\ UNCHANGED <<master, isadmin, match>>

\* noclients() once no human is left
AfterLeave(a, C) == IF C = {} THEN Cleared(a) ELSE a

\* What clientdisconnect() forgets of a player
Forget(c) ==
  /\ clients' = clients \ {c}
  /\ spectators' = spectators \ {c}
  /\ master' = IF master = c THEN NoSlot ELSE master
  /\ isadmin' = (isadmin /\ master # c)

\* clientdisconnect() of a player
Leave(c) ==
  /\ c \in clients
  /\ Forget(c)
  /\ \E a \in Released(ai, {c}, Valid(clients', spectators', master')) :
       ai' = AfterLeave(a, clients')
  /\ UNCHANGED match

\* Mutant: relinquishing never touches the bots.
DropMasterKeepsBots(c) ==
  /\ master = c /\ c \in clients
  /\ master' = NoSlot /\ isadmin' = FALSE
  /\ UNCHANGED <<clients, spectators, ai, match>>

\* setmaster(ci, false) with its revokemaster(): a spectator loses its bots.
DropMaster(c) ==
  /\ master = c /\ c \in clients
  /\ master' = NoSlot /\ isadmin' = FALSE
  /\ ai' \in Released(ai, {c} \cap spectators, Valid(clients, spectators, NoSlot))
  /\ UNCHANGED <<clients, spectators, match>>

\* setmaster(ci, true) without password or auth: nobody else is privileged,
\* or an admin steps down to master.
ClaimOpen(c) ==
  /\ c \in clients
  /\ \/ master = NoSlot /\ c \notin spectators
     \/ master = c /\ isadmin /\ adminpass
  /\ master' = c /\ isadmin' = FALSE
  /\ UNCHANGED <<clients, spectators, ai, match>>

\* setmaster(ci, true, "", authname): every other client is revoked.
ClaimAuth(c) ==
  /\ c \in clients
  /\ IF master = c THEN isadmin /\ adminpass ELSE ~isadmin
  /\ ai' \in Released(ai, spectators \ {c},
                Valid(clients, spectators, IF master = c THEN c ELSE NoSlot))
  /\ master' = c /\ isadmin' = FALSE
  /\ UNCHANGED <<clients, spectators, match>>

\* setmaster(ci, true, adminpass): the privilege of the others is overwritten
\* without revokemaster().
ClaimPassword(c) ==
  /\ adminpass
  /\ c \in clients
  /\ ~(master = c /\ isadmin)
  /\ master' = c /\ isadmin' = TRUE
  /\ UNCHANGED <<clients, spectators, ai, match>>

\* spectator(1, ci)
Spectate(c) ==
  /\ c \in clients \ spectators
  /\ spectators' = spectators \cup {c}
  /\ ai' \in Released(ai, {c} \ {master}, Valid(clients, spectators', master))
  /\ UNCHANGED <<clients, master, isadmin, match>>

\* spectator(0, ci)
Unspectate(c) ==
  /\ c \in spectators
  /\ spectators' = spectators \ {c}
  /\ ai' = [ai EXCEPT !.dorefresh = TRUE]
  /\ UNCHANGED <<clients, master, isadmin, match>>

\* N_SWITCHTEAM, N_SETTEAM, N_BOTBALANCE: a refresh is scheduled.
ChangeTeams ==
  /\ clients # {}
  /\ ~ai.dorefresh
  /\ ai' = [ai EXCEPT !.dorefresh = TRUE]
  /\ UNCHANGED <<people, match>>

\* N_ADDBOT
AddBot(c) ==
  /\ c = master /\ c \in clients
  /\ MayAdd(ai, IF isadmin THEN MaxBots ELSE botlimit)
  /\ \E o \in Least(ai, Valid(clients, spectators, master)) : ai' = Added(ai, o)
  /\ UNCHANGED <<people, match>>

\* N_DELBOT: the last bot that has an owner
DelBot(c) ==
  /\ c = master /\ c \in clients
  /\ \E b \in Owned(ai) : /\ \A d \in Owned(ai) : d <= b
                          /\ ai' = Deleted(ai, {b})
  /\ UNCHANGED <<people, match>>

\* N_BOTLIMIT
SetBotLimit(c, limit) ==
  /\ c = master /\ c \in clients /\ isadmin
  /\ botlimit' = limit
  /\ ai' = [ai EXCEPT !.dorefresh = TRUE]
  /\ UNCHANGED <<people, adminpass, botmode, halted>>

\* changemap(), which runs the match again; when the mode cannot be played
\* over the network everybody is sent away.
ChangeMap(mode, mp) ==
  /\ clients # {}
  /\ ~mp => isadmin
  /\ ai' = [Cleared(ai) EXCEPT !.dorefresh = TRUE,
                               !.listed = [c \in Slots |-> IF mp THEN @[c] ELSE {}]]
  /\ IF mp THEN UNCHANGED people
     ELSE clients' = {} /\ spectators' = {} /\ master' = NoSlot /\ isadmin' = FALSE
  /\ botmode' = mode
  /\ halted' = FALSE
  /\ UNCHANGED <<adminpass, botlimit>>

\* The match is paused or its time runs out; the game goes on.
Halt ==
  /\ halted' = ~halted
  /\ UNCHANGED <<people, adminpass, ai, botlimit, botmode>>

\* checkai(), from serverupdate()
CheckAI ==
  /\ ai.dorefresh
  /\ ~halted
  /\ UNCHANGED <<people, match>>
  /\ LET seen == [ai EXCEPT !.dorefresh = FALSE] IN
     IF botmode /\ clients # {}
     THEN ai' \in Rebalanced(Announced(Deleted(seen, seen.bots \ Owned(seen))),
                             Valid(clients, spectators, master))
     ELSE ai' = Cleared(seen)

ClientStep(c) ==
  \/ Join(c) \/ Leave(c)
  \/ DropMaster(c) \/ ClaimOpen(c) \/ ClaimAuth(c) \/ ClaimPassword(c)
  \/ Spectate(c) \/ Unspectate(c)
  \/ AddBot(c) \/ DelBot(c)
  \/ \E limit \in 0..MaxBots : SetBotLimit(c, limit)

Next ==
  \/ \E c \in Slots : ClientStep(c)
  \/ ChangeTeams
  \/ \E mode, mp \in BOOLEAN : ChangeMap(mode, mp)
  \/ Halt
  \/ CheckAI

Spec == Init /\ [][Next]_vars

\* serverupdate() runs from a timer that re-arms itself every 5 ms.
FairSpec == Spec /\ WF_vars(CheckAI)

-----------------------------------------------------------------------------
(* Properties.                                                             *)

\* A client lists the bots that name it as their owner and no others, so
\* deleteai() and shiftai(), which look a bot up under its ownernum only, never
\* leave a pointer to a deleted bot behind in another list.  Only a bot taken
\* over by addai() names an owner who does not list it.
ListsAgree ==
  /\ TypeOK
  /\ ai.taken \subseteq Owned(ai)
  /\ \A c \in Slots, b \in BotIds :
       b \in ai.listed[c] <=> b \in Regular(ai) /\ ai.owner[b] = c
  /\ \A c \in Slots \ clients : ai.listed[c] = {}

\* When no refresh is due, every bot has an owner and the owner the server
\* obeys is the one the clients were told; bots live in bot modes only, and
\* players own them evenly up to one, those taken over by addai() apart, which
\* nothing counts.  The last human takes them all with him.
Settled ==
  LET owns(c) == {b \in Regular(ai) : ai.owner[b] = c} IN
  /\ clients = {} => ai.bots = {}
  /\ ~ai.dorefresh =>
    /\ \A b \in ai.bots : /\ ai.owner[b] # NoSlot
                          /\ ai.told[b] = ai.owner[b]
                          /\ botmode
    /\ \A c, d \in clients \ spectators : Cardinality(owns(c)) <= Cardinality(owns(d)) + 1

\* Who owns a bot may own it: a player, or a privileged spectator; or it is one
\* that addai() took over, which stays with whom it was given to.  A claim with
\* the admin password takes the privilege of such a spectator without
\* revokemaster(), so this is for servers without that password.
OwnersMayOwn ==
  ~adminpass =>
    \A b \in Regular(ai) : ai.owner[b] \in Valid(clients, spectators, master) \cup {NoSlot}

\* A bot without owner is taken over or removed, unless the game stands still.
OrphansGoAway ==
  \A b \in BotIds :
    (b \in ai.bots /\ b \notin Owned(ai)) ~> (b \notin ai.bots \/ b \in Owned(ai) \/ halted)

\* "either schedules a removal, or someone else to assign to": after
\* removeai() of a client that leaves, no bot names it as its owner.
RemovalLeavesNoOwner == \A b \in Owned(ai) : ai.owner[b] \in clients
=============================================================================
