------------------------------ MODULE Sessions ------------------------------
(***************************************************************************)
(* Who is on the server and who runs it: the slots of the network layer,   *)
(* the lists `connects` and `clients`, the privileges, the master mode     *)
(* with its guest list, the pause flag, spectators, bans, the blacklist    *)
(* and the mass-kick protection of src/fpsgame/server.cpp, on top of the   *)
(* slot table of src/engine/server.cpp.  Bots, lives and the match are     *)
(* other modules; the server is a STANDALONE build, so no client is local. *)
(***************************************************************************)
EXTENDS Integers, FiniteSets

CONSTANTS
  Slots,        \* client numbers of the slot table
  NoSlot,       \* currentmaster == -1
  Addrs,        \* peer addresses; a pattern of a ban list names one of them
  MaxClients,   \* maxclients
  MaxKicks,     \* maxkicks
  AdminPass,    \* is adminpass set?
  ServerPass,   \* is serverpass set?
  MasterMask,   \* the modes mastermask lets a plain master choose
  AutoApprove,  \* is MM_AUTOAPPROVE in mastermask?
  MasterLink,   \* is the server linked to the master server (auth, gbans)?
  Operator,     \* does somebody type commands with admin rights (console,
                \* IRC or HTTP login, or the `login` command)?
  ReachConnecting, \* do commands name slots that have not sent N_CONNECT yet?
  ListCommands  \* the list commands in use: a subset of ListNames

MM_OPEN == 0
MM_VETO == 1
MM_LOCKED == 2
MM_PRIVATE == 3
Modes == MM_OPEN .. MM_PRIVATE

PRIV_NONE == 0
PRIV_MASTER == 1
PRIV_ADMIN == 2
Privileges == PRIV_NONE .. PRIV_ADMIN

ListNames == {"ban", "pban", "gban", "blacklist"}

ASSUME SlotsAssumption == NoSlot \notin Slots /\ IsFiniteSet(Slots)
ASSUME LimitAssumption == MaxClients \in Nat /\ MaxKicks \in 0..128
ASSUME SwitchAssumption ==
  /\ {AdminPass, ServerPass, AutoApprove, MasterLink, Operator, ReachConnecting}
       \subseteq BOOLEAN
  /\ MasterMask \subseteq Modes
  /\ ListCommands \subseteq ListNames

VARIABLES
  connects,     \* slots in use whose client has not sent N_CONNECT
  clients,      \* slots of connected players
  addr,         \* address of the peer that last used the slot
  spectators,   \* slots in state CS_SPECTATOR
  authreq,      \* players with an outstanding auth request
  room,         \* what setmaster writes: [priv, mastermode, allowedips,
                \* currentmaster, gamepaused]
  lists,        \* [bannedips, pbans, gbans, blacklistips], sets of addresses
  recent,       \* players with totalmillis - lastkickmillis <= kickmillis
  nkicks,       \* attempts counted by the mass-kick protection
  multiplayer   \* m_mp(gamemode)

vars == <<connects, clients, addr, spectators, authreq, room, lists, recent,
          nkicks, multiplayer>>

-----------------------------------------------------------------------------
(* setmaster(), on the record of everything it writes.                     *)

Occupied == connects \cup clients
Reachable == IF ReachConnecting THEN Occupied ELSE clients

Rooms == [priv: [Slots -> Privileges], mastermode: Modes,
          allowedips: SUBSET Addrs, currentmaster: Slots \cup {NoSlot},
          gamepaused: BOOLEAN]

Privileged(r) == {c \in clients : r.priv[c] # PRIV_NONE}
Admins(r) == {c \in clients : r.priv[c] >= PRIV_ADMIN}

\* Mutants: the tail forgets the pause, or the guest list.
SettleStaysPaused(r, master) ==
  [r EXCEPT !.allowedips = {}, !.currentmaster = master]
SettleKeepsGuests(r, master) ==
  [r EXCEPT !.currentmaster = master, !.gamepaused = @ /\ Admins(r) # {}]

\* The tail every successful setmaster runs through: the guest list is
\* dropped and a pause survives only while an admin is left.
Settle(r, master) ==
  [r EXCEPT !.allowedips = {}, !.currentmaster = master,
            !.gamepaused = @ /\ Admins(r) # {}]

\* Mutant: the mode outlives the mastership.
RelinquishKeepsMode(r, c) ==
  IF r.priv[c] = PRIV_NONE THEN r
  ELSE Settle([r EXCEPT !.priv = [@ EXCEPT ![c] = PRIV_NONE]], NoSlot)

\* setmaster(ci, false)
Relinquish(r, c) ==
  IF r.priv[c] = PRIV_NONE THEN r
  ELSE Settle([r EXCEPT !.priv = [@ EXCEPT ![c] = PRIV_NONE],
                        !.mastermode = MM_OPEN], NoSlot)

\* May setmaster(ci, true, pass, authname) get past its early returns?
MayClaim(r, c, pass, auth) ==
  LET haspass == AdminPass /\ pass IN
  /\ IF r.priv[c] # PRIV_NONE
     THEN AdminPass /\ haspass # (r.priv[c] = PRIV_ADMIN)
     ELSE c \in spectators => haspass \/ auth
  /\ haspass \/ \A d \in Privileged(r) \ {c} : auth /\ r.priv[d] <= PRIV_MASTER
  /\ haspass \/ auth \/ AutoApprove \/ r.priv[c] # PRIV_NONE
  /\ haspass \/ addr[c] \notin lists.blacklistips

\* Mutants: a claim leaves the rank of the others alone; only a password
\* claim takes it.
ClaimedPrivKeepsOthers(r, c, haspass, auth) ==
  [r.priv EXCEPT ![c] = IF haspass THEN PRIV_ADMIN ELSE PRIV_MASTER]
ClaimedPrivSharesAuth(r, c, haspass, auth) ==
  [d \in Slots |-> IF d = c THEN IF haspass THEN PRIV_ADMIN ELSE PRIV_MASTER
                   ELSE IF d \in clients /\ haspass THEN PRIV_NONE ELSE r.priv[d]]

\* The privileges a claim leaves behind.
ClaimedPriv(r, c, haspass, auth) ==
  [d \in Slots |->
     IF d = c THEN IF haspass THEN PRIV_ADMIN ELSE PRIV_MASTER
     ELSE IF d \in clients /\ (haspass \/ (auth /\ r.priv[d] <= PRIV_MASTER))
          THEN PRIV_NONE ELSE r.priv[d]]

\* setmaster(ci, true, pass, authname, no_open)
Claim(r, c, pass, auth, noOpen) ==
  LET haspass == AdminPass /\ pass IN
  IF ~MayClaim(r, c, pass, auth) THEN r
  ELSE Settle([r EXCEPT !.priv = ClaimedPriv(r, c, haspass, auth),
                        !.mastermode = IF noOpen \/ haspass THEN @ ELSE MM_OPEN], c)

-----------------------------------------------------------------------------
(* Slots: what the engine and the game forget when a client goes.          *)

\* Mutant: the spectator state survives the client.
ForgetKeepsSpectators(S, rec, nk) ==
  /\ connects' = connects \ S
  /\ clients' = clients \ S
  /\ authreq' = authreq \ S
  /\ recent' = rec \ S
  /\ nkicks' = [c \in Slots |-> IF c \in S THEN 0 ELSE nk[c]]
  /\ UNCHANGED <<addr, spectators>>

\* deleteclientinfo() for the slots in S: nothing of the record survives.
\* What the handler had written to the kick protection is in rec and nk.
Forget(S, rec, nk) ==
  /\ connects' = connects \ S
  /\ clients' = clients \ S
  /\ spectators' = spectators \ S
  /\ authreq' = authreq \ S
  /\ recent' = rec \ S
  /\ nkicks' = [c \in Slots |-> IF c \in S THEN 0 ELSE nk[c]]
  /\ UNCHANGED addr

\* clientdisconnect() of every slot in S, one after the other: a player gives
\* its privilege up first, a client that is still connecting just vanishes.
Leave(r, S) ==
  LET leavers == {c \in S \cap clients : r.priv[c] # PRIV_NONE}
      without == [r EXCEPT !.priv = [c \in Slots |->
                                       IF c \in S THEN PRIV_NONE ELSE r.priv[c]]]
  IN IF leavers = {} THEN without
     ELSE Settle([without EXCEPT !.mastermode = MM_OPEN], NoSlot)

\* Mutant: the count is taken while the leaver is still listed.
BansAfterLeaveEarly(l, S) == IF clients = {} THEN [l EXCEPT !.bannedips = {}] ELSE l

\* noclients(): the temporary bans go with the last player.
BansAfterLeave(l, S) ==
  IF S \cap clients # {} /\ clients \subseteq S
  THEN [l EXCEPT !.bannedips = {}] ELSE l

DropSlots(r, l, S) ==
  /\ Forget(S, recent, nkicks)
  /\ room' = Leave(r, S)
  /\ lists' = BansAfterLeave(l, S)
  /\ UNCHANGED multiplayer

Disconnect(c) == c \in Occupied /\ DropSlots(room, lists, {c})

\* A peer takes an empty slot; outside multiplayer modes it is turned away.
Connect(c, a) ==
  /\ c \notin Occupied
  /\ multiplayer
  /\ connects' = connects \cup {c}
  /\ addr' = [addr EXCEPT ![c] = a]
  /\ UNCHANGED <<clients, spectators, authreq, room, lists, recent, nkicks,
                 multiplayer>>

\* allowconnect(): is the client let in with this password?
AllowConnect(c, pw) ==
  \/ ServerPass /\ pw = "server"
  \/ ~ServerPass /\ AdminPass /\ pw = "admin"
  \/ /\ ~ServerPass
     /\ Cardinality(clients) < MaxClients
     /\ addr[c] \notin lists.bannedips \cup lists.pbans \cup lists.gbans
     /\ room.mastermode >= MM_PRIVATE => addr[c] \in room.allowedips

\* N_CONNECT
Join(c, pw) ==
  /\ c \in connects
  /\ IF AllowConnect(c, pw)
     THEN /\ connects' = connects \ {c}
          /\ clients' = clients \cup {c}
          /\ spectators' = IF room.mastermode >= MM_LOCKED
                           THEN spectators \cup {c} ELSE spectators
          /\ UNCHANGED <<addr, authreq, room, lists, recent, nkicks, multiplayer>>
     ELSE DropSlots(room, lists, {c})

-----------------------------------------------------------------------------
(* Mastership.                                                             *)

RoomStep(r) ==
  /\ room' = r
  /\ UNCHANGED <<connects, clients, addr, spectators, lists, recent, nkicks,
                 multiplayer>>

\* N_SETMASTER
SetMaster(c, val, pass) ==
  /\ c \in clients
  /\ RoomStep(IF val THEN Claim(room, c, pass, FALSE, FALSE)
              ELSE Relinquish(room, c))
  /\ UNCHANGED authreq

\* N_AUTHTRY: the request is kept only when the master server is linked.
AuthTry(c) ==
  /\ c \in clients
  /\ MasterLink
  /\ authreq' = authreq \cup {c}
  /\ RoomStep(room)

\* authsucceeded() and authfailed(): the player is looked up by its request.
AuthSucceeded(c) ==
  /\ c \in authreq
  /\ authreq' = authreq \ {c}
  /\ RoomStep(Claim(room, c, FALSE, TRUE, FALSE))

AuthFailed(c) ==
  /\ c \in authreq
  /\ authreq' = authreq \ {c}
  /\ RoomStep(room)

\* Commands with admin rights: an operator, or an admin in the game.
Commanding == Operator \/ Admins(room) # {}

\* setmaster(currentmaster, 0), when that slot is in use.
DropCurrent(r) ==
  IF r.currentmaster \in Occupied THEN Relinquish(r, r.currentmaster) ELSE r

\* `givemaster cn`, allowed to every privileged player by stdlib.cfg.
GiveMaster(c) ==
  /\ Operator \/ Privileged(room) # {}
  /\ c \in Reachable
  /\ RoomStep(Claim(DropCurrent(room), c, FALSE, FALSE, TRUE))
  /\ UNCHANGED authreq

\* `takemaster`
TakeMaster ==
  /\ Commanding
  /\ RoomStep(DropCurrent(room))
  /\ UNCHANGED authreq

\* setmastermode(): entering private mode invites whoever is inside.
WithMode(r, mm) ==
  [r EXCEPT !.mastermode = mm,
            !.allowedips = IF mm >= MM_PRIVATE THEN {addr[d] : d \in clients} ELSE {}]

\* N_MASTERMODE
SetMasterMode(c, mm) ==
  /\ c \in Privileged(room)
  /\ room.priv[c] >= PRIV_ADMIN \/ mm \in MasterMask
  /\ RoomStep(WithMode(room, mm))
  /\ UNCHANGED authreq

\* `mastermode mm`.  The command takes any number: one below the modes counts as
\* MM_OPEN and one above them as MM_PRIVATE, since the server asks only whether
\* mastermode is at least one of them.
CommandMasterMode(mm) ==
  /\ Commanding
  /\ RoomStep(WithMode(room, mm))
  /\ UNCHANGED authreq

\* N_PAUSEGAME
PauseGame(c, val) ==
  /\ c \in Admins(room)
  /\ RoomStep([room EXCEPT !.gamepaused = val])
  /\ UNCHANGED authreq

-----------------------------------------------------------------------------
(* Spectators.                                                             *)

\* spectator(val, spectator)
SetSpectator(s, val) ==
  /\ (s \in spectators) # val
  /\ spectators' = IF val THEN spectators \cup {s} ELSE spectators \ {s}
  /\ UNCHANGED <<connects, clients, addr, authreq, room, lists, recent, nkicks,
                 multiplayer>>

\* May c move s? Itself always, but out of the stands only in an open room.
MaySpectate(c, s) ==
  \/ c \in Privileged(room)
  \/ s = c /\ (c \in spectators => room.mastermode < MM_LOCKED)

\* N_SPECTATOR
Spectate(c, s, val) ==
  /\ c \in clients
  /\ s \in Reachable
  /\ MaySpectate(c, s)
  /\ SetSpectator(s, val)

CommandSpectate(s, val) == Commanding /\ s \in Reachable /\ SetSpectator(s, val)

-----------------------------------------------------------------------------
(* Kicks, bans, the blacklist.                                             *)

\* The part of kick_client() that removes the victim: its address is banned
\* and leaves the guest list before the slot is closed.
Eject(r, l, v) ==
  DropSlots([r EXCEPT !.allowedips = @ \ {addr[v]}],
            [l EXCEPT !.bannedips = @ \cup {addr[v]}], {v})

\* Mutant: the interval is not looked at below the limit.
KickRefusedNever(m, v) ==
  /\ m \in recent
  /\ nkicks[m] + 1 < MaxKicks
  /\ Eject(room, lists, v)

\* A further kick inside the interval is refused and counted.
KickRefused(m, v) ==
  /\ m \in recent
  /\ nkicks[m] + 1 < MaxKicks
  /\ nkicks' = [nkicks EXCEPT ![m] = @ + 1]
  /\ UNCHANGED <<connects, clients, addr, spectators, authreq, room, lists,
                 recent, multiplayer>>

\* At the limit the kicker is blacklisted, every temporary ban is lifted and
\* the kicker is thrown out instead of the victim.
MassKick(m, v) ==
  /\ m \in recent
  /\ nkicks[m] + 1 >= MaxKicks
  /\ Eject(room, [lists EXCEPT !.blacklistips = @ \cup {addr[m]}, !.bannedips = {}], m)

\* The first kick of an interval goes through and restarts the count.
KickPlain(m, v) ==
  /\ m \notin recent
  /\ Forget({v}, recent \cup {m}, [nkicks EXCEPT ![m] = 0])
  /\ room' = Leave([room EXCEPT !.allowedips = @ \ {addr[v]}], {v})
  /\ lists' = BansAfterLeave([lists EXCEPT !.bannedips = @ \cup {addr[v]}], {v})
  /\ UNCHANGED multiplayer

\* N_KICK
Kick(m, v) ==
  /\ m \in Privileged(room)
  /\ v \in Reachable \ {m}
  /\ IF room.priv[m] < PRIV_ADMIN
     THEN KickRefused(m, v) \/ MassKick(m, v) \/ KickPlain(m, v)
     ELSE Eject(room, lists, v)

\* `kick cn`
CommandKick(v) == Commanding /\ v \in Reachable /\ Eject(room, lists, v)

\* kickmillis go by since m's last attempt.
KickIntervalPasses(m) ==
  /\ m \in recent
  /\ recent' = recent \ {m}
  /\ UNCHANGED <<connects, clients, addr, spectators, authreq, room, lists, nkicks,
                 multiplayer>>

ListStep(l) ==
  /\ lists' = l
  /\ UNCHANGED <<connects, clients, addr, spectators, authreq, room, recent,
                 nkicks, multiplayer>>

\* N_CLEARBANS and `clearbans`
ClearBans ==
  /\ Operator \/ Privileged(room) # {}
  /\ ListStep([lists EXCEPT !.bannedips = {}])

\* `ban`, `pban`, `unban`, `blacklist` and `unblacklist`
CommandBan(a) ==
  Commanding /\ "ban" \in ListCommands
             /\ ListStep([lists EXCEPT !.bannedips = @ \cup {a}])
CommandPban(a) ==
  Commanding /\ "pban" \in ListCommands
             /\ ListStep([lists EXCEPT !.pbans = @ \cup {a}])
CommandUnban(a) ==
  Commanding /\ {"ban", "pban"} \cap ListCommands # {}
             /\ ListStep([lists EXCEPT !.bannedips = @ \ {a}, !.pbans = @ \ {a}])
CommandBlacklist(a) ==
  Commanding /\ "blacklist" \in ListCommands
             /\ ListStep([lists EXCEPT !.blacklistips = @ \cup {a}])
CommandUnblacklist(a) ==
  Commanding /\ "blacklist" \in ListCommands
             /\ ListStep([lists EXCEPT !.blacklistips = @ \ {a}])

\* addgban from the master server: every player an entry covers goes, the
\* admins apart.
AddGban(a) ==
  /\ MasterLink /\ "gban" \in ListCommands
  /\ DropSlots(room, [lists EXCEPT !.gbans = @ \cup {a}],
               {c \in clients : /\ addr[c] \in lists.gbans \cup {a}
                                /\ room.priv[c] < PRIV_ADMIN})

ClearGbans ==
  MasterLink /\ "gban" \in ListCommands /\ ListStep([lists EXCEPT !.gbans = {}])

-----------------------------------------------------------------------------
(* changemap(): unpauses and resets the kick protection of every player; a *)
(* mode that is not a multiplayer mode empties the server.                 *)

\* Somebody whose vote counts, or a command.
MayChangeMap == (clients \ spectators) \cup Privileged(room) # {} \/ Operator

ChangeMap(mp) ==
  /\ IF mp THEN MayChangeMap ELSE Commanding
  /\ multiplayer' = mp
  /\ LET gone == IF mp THEN {} ELSE Occupied
     IN /\ Forget(gone, {}, [c \in Slots |-> 0])
        /\ room' = Leave([room EXCEPT !.gamepaused = FALSE], gone)
        /\ lists' = BansAfterLeave(lists, gone)

-----------------------------------------------------------------------------
Init ==
  /\ connects = {} /\ clients = {} /\ spectators = {} /\ authreq = {}
  /\ addr \in [Slots -> Addrs]
  /\ room = [priv |-> [c \in Slots |-> PRIV_NONE], mastermode |-> MM_OPEN,
             allowedips |-> {}, currentmaster |-> NoSlot, gamepaused |-> FALSE]
  /\ lists = [bannedips |-> {}, pbans |-> {}, gbans |-> {}, blacklistips |-> {}]
  /\ recent = {}
  /\ nkicks = [c \in Slots |-> 0]
  /\ multiplayer = TRUE

Next ==
  \/ \E c \in Slots, a \in Addrs : Connect(c, a)
  \/ \E c \in Slots, pw \in {"none", "server", "admin"} : Join(c, pw)
  \/ \E c \in Slots : Disconnect(c)
  \/ \E c \in Slots, val, pass \in BOOLEAN : SetMaster(c, val, pass)
  \/ \E c \in Slots : AuthTry(c) \/ AuthSucceeded(c) \/ AuthFailed(c)
  \/ \E c \in Slots : GiveMaster(c)
  \/ TakeMaster
  \/ \E c \in Slots, mm \in Modes : SetMasterMode(c, mm)
  \/ \E mm \in Modes : CommandMasterMode(mm)
  \/ \E c \in Slots, val \in BOOLEAN : PauseGame(c, val)
  \/ \E c, s \in Slots, val \in BOOLEAN : Spectate(c, s, val)
  \/ \E s \in Slots, val \in BOOLEAN : CommandSpectate(s, val)
  \/ \E m, v \in Slots : Kick(m, v)
  \/ \E v \in Slots : CommandKick(v)
  \/ \E m \in Slots : KickIntervalPasses(m)
  \/ ClearBans \/ ClearGbans
  \/ \E a \in Addrs : \/ CommandBan(a) \/ CommandPban(a) \/ CommandUnban(a)
                      \/ CommandBlacklist(a) \/ CommandUnblacklist(a)
                      \/ AddGban(a)
  \/ \E mp \in BOOLEAN : ChangeMap(mp)

Spec == Init /\ [][Next]_vars

-----------------------------------------------------------------------------
(* Properties.                                                             *)

\* Types, and what holds of the slot table: a slot is either connecting or
\* playing, and an empty slot carries nothing over to its next user.
TypeOK ==
  /\ connects \subseteq Slots /\ clients \subseteq Slots
  /\ connects \cap clients = {}
  /\ addr \in [Slots -> Addrs]
  /\ spectators \subseteq Occupied
  /\ authreq \subseteq clients /\ recent \subseteq clients
  /\ room \in Rooms
  /\ \A c \in Slots \ Occupied : room.priv[c] = PRIV_NONE
  /\ lists \in [bannedips: SUBSET Addrs, pbans: SUBSET Addrs,
                gbans: SUBSET Addrs, blacklistips: SUBSET Addrs]
  /\ nkicks \in [Slots -> 0..128]
  /\ multiplayer \in BOOLEAN

\* A paused match can be resumed: while the game is paused an admin is
\* playing (setmaster counts the admins, changemap unpauses).
PauseHasAdmin == room.gamepaused => Admins(room) # {}

\* There are never two admins, and a client that has not joined is no admin:
\* the password is the only way up and it takes every player's privilege.
OneAdmin ==
  /\ \A c, d \in Admins(room) : c = d
  /\ \A c \in connects : room.priv[c] < PRIV_ADMIN

\* When commands only name players, at most one player is privileged and
\* currentmaster, which every client is told, is that player.
SoleMaster ==
  ~ReachConnecting =>
    \A c \in Slots : room.priv[c] # PRIV_NONE <=> c = room.currentmaster

\* A mode that restricts the players has somebody who can lift it, unless an
\* operator without a slot in the game set it.
ModeHasHolder ==
  ~Operator => (room.mastermode > MM_OPEN => Privileged(room) # {})

\* The guest list of a private room does not outlive the room: a later
\* private room never inherits guests of an earlier one.
GuestListFresh == room.mastermode < MM_PRIVATE => room.allowedips = {}

\* When the last player leaves, by whatever way, no temporary ban is left.
BansClearWhenEmpty ==
  [][(clients # {} /\ clients' = {}) => lists'.bannedips = {}]_vars

\* Inside the kick interval a plain master removes nobody but itself: two
\* victims of one master are always an interval, or a map change, apart.
OneVictimPerInterval ==
  [][\A m \in recent, v \in Occupied :
       (room.priv[m] = PRIV_MASTER /\ Kick(m, v)) => v \in Occupied']_vars

\* The mastership the players see: the holder is currentmaster.
Abs == INSTANCE Mastership WITH
  Person <- Slots, Nobody <- NoSlot, players <- clients,
  holder <- room.currentmaster,
  rank <- IF room.currentmaster = NoSlot THEN PRIV_NONE
          ELSE room.priv[room.currentmaster],
  mode <- room.mastermode, frozen <- room.gamepaused

\* Sessions keeps the promises of Mastership: one holder at a time, who plays;
\* restrictions and pauses that never outlive the mastership they came from.
ImplementsMastership == Abs!AbsSpec
=============================================================================
