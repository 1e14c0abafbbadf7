--------------------------- MODULE SessionsProofs ---------------------------
(***************************************************************************)
(* Proofs about Sessions for every set of slots and addresses and every    *)
(* setting of the server.                                                  *)
(***************************************************************************)
EXTENDS Sessions, TLAPS

\* The room is sound for the players cs and the connecting clients con.
RoomSound(r, cs, con) ==
  /\ r \in Rooms
  /\ \A c \in Slots : c \notin cs \cup con => r.priv[c] = PRIV_NONE
  /\ \A c, d \in cs : r.priv[c] = PRIV_ADMIN /\ r.priv[d] = PRIV_ADMIN => c = d
  /\ \A c \in con : r.priv[c] # PRIV_ADMIN
  /\ r.gamepaused => \E c \in cs : r.priv[c] = PRIV_ADMIN

\* Everything else TypeOK says.
TablesOK ==
  /\ connects \subseteq Slots /\ clients \subseteq Slots
  /\ connects \cap clients = {}
  /\ addr \in [Slots -> Addrs]
  /\ spectators \subseteq Occupied
  /\ authreq \subseteq clients /\ recent \subseteq clients
  /\ lists \in [bannedips: SUBSET Addrs, pbans: SUBSET Addrs,
                gbans: SUBSET Addrs, blacklistips: SUBSET Addrs]
  /\ nkicks \in [Slots -> 0..128]
  /\ multiplayer \in BOOLEAN

\* The inductive invariant.
IInv == TablesOK /\ RoomSound(room, clients, connects)

USE DEF PRIV_NONE, PRIV_MASTER, PRIV_ADMIN, MM_OPEN, MM_VETO, MM_LOCKED, MM_PRIVATE

-----------------------------------------------------------------------------
(* The operators on the room.                                              *)

\* What Settle returns, field by field.
LEMMA SettleFields ==
  ASSUME NEW r \in Rooms, NEW m \in Slots \cup {NoSlot}
  PROVE  /\ Settle(r, m) \in Rooms
         /\ Settle(r, m).priv = r.priv
         /\ Settle(r, m).mastermode = r.mastermode
         /\ Settle(r, m).allowedips = {}
         /\ Settle(r, m).currentmaster = m
         /\ Settle(r, m).gamepaused <=> r.gamepaused /\ Admins(r) # {}
BY DEF Settle, Rooms

\* In a typed room the admins are the players of rank PRIV_ADMIN.
LEMMA AdminsAre ==
  ASSUME NEW r \in Rooms, clients \subseteq Slots
  PROVE  Admins(r) = {c \in clients : r.priv[c] = PRIV_ADMIN}
BY DEF Admins, Rooms, Privileges

\* Settling keeps a room sound, and whoever lost the last admin resumes.
LEMMA SettleSound ==
  ASSUME NEW r \in Rooms, NEW m \in Slots \cup {NoSlot}, clients \subseteq Slots,
         \A c \in Slots : c \notin clients \cup connects => r.priv[c] = PRIV_NONE,
         \A c, d \in clients : r.priv[c] = PRIV_ADMIN /\ r.priv[d] = PRIV_ADMIN => c = d,
         \A c \in connects : r.priv[c] # PRIV_ADMIN
  PROVE  RoomSound(Settle(r, m), clients, connects)
<1>1. Settle(r, m).gamepaused => \E c \in clients : r.priv[c] = PRIV_ADMIN
  BY SettleFields, AdminsAre
<1>2. Settle(r, m) \in Rooms /\ Settle(r, m).priv = r.priv
  BY SettleFields
<1> QED
  BY <1>1, <1>2 DEF RoomSound

LEMMA RelinquishSound ==
  ASSUME TablesOK, NEW r, RoomSound(r, clients, connects), NEW c \in Slots
  PROVE  RoomSound(Relinquish(r, c), clients, connects)
<1>1. CASE r.priv[c] = PRIV_NONE
  BY <1>1 DEF Relinquish
<1>2. CASE r.priv[c] # PRIV_NONE
  <2> DEFINE p == [r.priv EXCEPT ![c] = PRIV_NONE]
             q == [r EXCEPT !.priv = p, !.mastermode = MM_OPEN]
  <2>0. r \in Rooms /\ p \in [Slots -> Privileges] /\ MM_OPEN \in Modes
    BY DEF RoomSound, Rooms, Privileges, Modes
  <2>1. q \in Rooms /\ q.priv = p
    <3> HIDE DEF p
    <3> QED BY <2>0 DEF Rooms
  <2>3. \A d \in Slots : p[d] = IF d = c THEN PRIV_NONE ELSE r.priv[d]
    BY <2>0 DEF Rooms
  <2>2. RoomSound(Settle(q, NoSlot), clients, connects)
    <3>1. \A d \in Slots : d \notin clients \cup connects => q.priv[d] = PRIV_NONE
      BY <2>1, <2>3 DEF RoomSound
    <3>2. \A d, e \in clients : q.priv[d] = PRIV_ADMIN /\ q.priv[e] = PRIV_ADMIN => d = e
      BY <2>1, <2>3 DEF RoomSound, TablesOK
    <3>3. \A d \in connects : q.priv[d] # PRIV_ADMIN
      BY <2>1, <2>3 DEF RoomSound, TablesOK
    <3> HIDE DEF q, p
    <3> QED BY <3>1, <3>2, <3>3, <2>1, SettleSound DEF TablesOK
  <2> QED BY <1>2, <2>2 DEF Relinquish
<1> QED BY <1>1, <1>2

LEMMA ClaimSound ==
  ASSUME TablesOK, NEW r, RoomSound(r, clients, connects), NEW c \in Occupied,
         NEW pass \in BOOLEAN, NEW auth \in BOOLEAN, NEW noOpen \in BOOLEAN,
         c \in clients \/ ~pass
  PROVE  RoomSound(Claim(r, c, pass, auth, noOpen), clients, connects)
<1> DEFINE haspass == AdminPass /\ pass
           q == [r EXCEPT !.priv = ClaimedPriv(r, c, haspass, auth),
                          !.mastermode = IF noOpen \/ haspass THEN @ ELSE MM_OPEN]
<1>1. CASE ~MayClaim(r, c, pass, auth)
  BY <1>1 DEF Claim
<1>2. CASE MayClaim(r, c, pass, auth)
  <2>0. c \in Slots /\ r \in Rooms
    BY DEF Occupied, TablesOK, RoomSound
  <2>1. \A d \in Slots : ClaimedPriv(r, c, haspass, auth)[d] =
          IF d = c THEN IF haspass THEN PRIV_ADMIN ELSE PRIV_MASTER
          ELSE IF d \in clients /\ (haspass \/ (auth /\ r.priv[d] <= PRIV_MASTER))
               THEN PRIV_NONE ELSE r.priv[d]
    BY DEF ClaimedPriv
  <2>5. ClaimedPriv(r, c, haspass, auth) \in [Slots -> Privileges]
    BY <2>0 DEF Rooms, Privileges, ClaimedPriv
  <2>6. (IF noOpen \/ haspass THEN r.mastermode ELSE MM_OPEN) \in Modes
    BY <2>0 DEF Rooms, Modes
  <2>2. q \in Rooms /\ q.priv = ClaimedPriv(r, c, haspass, auth)
    <3> DEFINE p == ClaimedPriv(r, c, haspass, auth)
               mm == IF noOpen \/ haspass THEN r.mastermode ELSE MM_OPEN
    <3>1. q = [r EXCEPT !.priv = p, !.mastermode = mm]
      BY <2>0 DEF Rooms
    <3>2. p \in [Slots -> Privileges] /\ mm \in Modes
      BY <2>5, <2>6
    <3> HIDE DEF p, mm
    <3>3. [r EXCEPT !.priv = p, !.mastermode = mm] \in Rooms
      BY <3>2, <2>0 DEF Rooms
    <3>4. [r EXCEPT !.priv = p, !.mastermode = mm].priv = p
      BY <3>2, <2>0 DEF Rooms
    <3> QED BY <3>1, <3>3, <3>4 DEF p
  <2>3. haspass => c \in clients
    OBVIOUS
  <2>4. RoomSound(Settle(q, c), clients, connects)
    <3>1. \A d \in Slots : d \notin clients \cup connects => q.priv[d] = PRIV_NONE
      BY <2>1, <2>2 DEF RoomSound, Occupied
    <3>2. \A d, e \in clients : q.priv[d] = PRIV_ADMIN /\ q.priv[e] = PRIV_ADMIN => d = e
      BY <2>1, <2>2, <2>3 DEF RoomSound, TablesOK
    <3>3. \A d \in connects : q.priv[d] # PRIV_ADMIN
      BY <2>1, <2>2, <2>3 DEF RoomSound, TablesOK
    <3> HIDE DEF q
    <3> QED BY <3>1, <3>2, <3>3, <2>0, <2>2, SettleSound DEF TablesOK
  <2> QED BY <1>2, <2>4 DEF Claim
<1> QED BY <1>1, <1>2

\* Leaving: the ranks that are left, and the sound room of those who stay.
LEMMA LeaveSound ==
  ASSUME TablesOK, NEW r, RoomSound(r, clients, connects), NEW S \in SUBSET Slots
  PROVE  RoomSound(Leave(r, S), clients \ S, connects \ S)
<1> DEFINE p == [c \in Slots |-> IF c \in S THEN PRIV_NONE ELSE r.priv[c]]
           without == [r EXCEPT !.priv = p]
           open == [without EXCEPT !.mastermode = MM_OPEN]
           leavers == {c \in S \cap clients : r.priv[c] # PRIV_NONE}
<1>0. r \in Rooms /\ clients \subseteq Slots
  BY DEF RoomSound, TablesOK
<1>1. p \in [Slots -> Privileges]
  BY <1>0 DEF Rooms, Privileges
<1>2. \A c \in Slots : p[c] = IF c \in S THEN PRIV_NONE ELSE r.priv[c]
  OBVIOUS
<1> HIDE DEF p
<1>3. without \in Rooms /\ without.priv = p /\ (without.gamepaused <=> r.gamepaused)
  BY <1>0, <1>1 DEF Rooms
<1>4. open \in Rooms /\ open.priv = p
  <2> HIDE DEF without
  <2> QED BY <1>3 DEF Rooms, Modes
<1>5. /\ \A c \in Slots : c \notin (clients \ S) \cup (connects \ S) => p[c] = PRIV_NONE
      /\ \A c, d \in clients \ S : p[c] = PRIV_ADMIN /\ p[d] = PRIV_ADMIN => c = d
      /\ \A c \in connects \ S : p[c] # PRIV_ADMIN
  BY <1>2 DEF RoomSound, TablesOK
<1>6. CASE leavers = {}
  <2>1. Leave(r, S) = without
    BY <1>6 DEF Leave, p
  <2>2. r.gamepaused => \E c \in clients \ S : p[c] = PRIV_ADMIN
    BY <1>6, <1>2, <1>0 DEF RoomSound
  <2> HIDE DEF without
  <2> QED BY <2>1, <2>2, <1>3, <1>5 DEF RoomSound
<1>7. CASE leavers # {}
  <2>1. Leave(r, S) = Settle(open, NoSlot)
    BY <1>7 DEF Leave, p
  <2> HIDE DEF open
  <2>2. Settle(open, NoSlot).gamepaused => \E c \in clients : p[c] = PRIV_ADMIN
    BY <1>0, <1>4, SettleFields, AdminsAre
  <2>3. \A c \in clients : p[c] = PRIV_ADMIN => c \in clients \ S
    BY <1>0, <1>2
  <2>4. Settle(open, NoSlot) \in Rooms /\ Settle(open, NoSlot).priv = p
    BY <1>4, SettleFields
  <2> QED BY <2>1, <2>2, <2>3, <2>4, <1>5 DEF RoomSound
<1> QED BY <1>6, <1>7

-----------------------------------------------------------------------------
(* The inductive invariant.                                                *)

\* A handler that closes the slots of S, whatever it did before to the room,
\* the lists and the kick protection.
LEMMA DropSound ==
  ASSUME TablesOK, NEW r, RoomSound(r, clients, connects), NEW S \in SUBSET Slots,
         NEW rec \in SUBSET clients, NEW nk \in [Slots -> 0..128],
         NEW l \in [bannedips: SUBSET Addrs, pbans: SUBSET Addrs,
                    gbans: SUBSET Addrs, blacklistips: SUBSET Addrs],
         Forget(S, rec, nk), room' = Leave(r, S), lists' = BansAfterLeave(l, S),
         multiplayer' \in BOOLEAN
  PROVE  IInv'
<1>1. RoomSound(room', clients', connects')
  BY LeaveSound DEF Forget
<1>2. lists' \in [bannedips: SUBSET Addrs, pbans: SUBSET Addrs,
                 gbans: SUBSET Addrs, blacklistips: SUBSET Addrs]
  BY DEF BansAfterLeave
<1>3. nkicks' \in [Slots -> 0..128]
  BY DEF Forget
<1>4. /\ connects' \subseteq Slots /\ clients' \subseteq Slots
      /\ connects' \cap clients' = {}
      /\ addr' \in [Slots -> Addrs]
      /\ spectators' \subseteq connects' \cup clients'
      /\ authreq' \subseteq clients' /\ recent' \subseteq clients'
  BY DEF Forget, TablesOK, Occupied
<1> QED BY <1>1, <1>2, <1>3, <1>4 DEF IInv, TablesOK, Occupied, RoomSound

\* A step that writes only the room, and perhaps the auth requests.
LEMMA RoomStepSound ==
  ASSUME IInv, NEW r, RoomSound(r, clients, connects), RoomStep(r),
         authreq' \subseteq clients
  PROVE  IInv'
<1>1. RoomSound(room', clients', connects')
  BY DEF RoomStep
<1>2. TablesOK'
  BY DEF RoomStep, IInv, TablesOK, Occupied
<1> QED BY <1>1, <1>2 DEF IInv, RoomSound

LEMMA ListStepSound ==
  ASSUME IInv, NEW l \in [bannedips: SUBSET Addrs, pbans: SUBSET Addrs,
                          gbans: SUBSET Addrs, blacklistips: SUBSET Addrs],
         ListStep(l)
  PROVE  IInv'
BY DEF ListStep, IInv, TablesOK, Occupied, RoomSound

\* Throwing a client out, after a change of the ban lists.
LEMMA EjectSound ==
  ASSUME IInv, NEW v \in Slots,
         NEW l \in [bannedips: SUBSET Addrs, pbans: SUBSET Addrs,
                    gbans: SUBSET Addrs, blacklistips: SUBSET Addrs],
         Eject(room, l, v)
  PROVE  IInv'
<1> DEFINE r == [room EXCEPT !.allowedips = @ \ {addr[v]}]
           k == [l EXCEPT !.bannedips = @ \cup {addr[v]}]
<1>1. RoomSound(r, clients, connects)
  BY DEF IInv, RoomSound, Rooms
<1>2. k \in [bannedips: SUBSET Addrs, pbans: SUBSET Addrs,
             gbans: SUBSET Addrs, blacklistips: SUBSET Addrs]
  BY DEF IInv, TablesOK
<1>3. /\ Forget({v}, recent, nkicks) /\ room' = Leave(r, {v})
      /\ lists' = BansAfterLeave(k, {v}) /\ multiplayer' = multiplayer
  BY DEF Eject, DropSlots
<1> HIDE DEF r, k
<1> QED BY <1>1, <1>2, <1>3, DropSound DEF IInv, TablesOK

LEMMA InitInv == Init => IInv
BY DEF Init, IInv, TablesOK, RoomSound, Rooms, Privileges, Modes, Occupied

\* A kick, with the refusals and the punishment of the mass-kick protection.
LEMMA KickSound == ASSUME IInv, NEW m \in Slots, NEW v \in Slots, Kick(m, v) PROVE IInv'
<1>1. CASE KickRefused(m, v)
  BY <1>1, LimitAssumption DEF KickRefused, IInv, TablesOK, Occupied, RoomSound
<1>2. CASE MassKick(m, v)
  <2> DEFINE l == [lists EXCEPT !.blacklistips = @ \cup {addr[m]}, !.bannedips = {}]
  <2>1. l \in [bannedips: SUBSET Addrs, pbans: SUBSET Addrs,
               gbans: SUBSET Addrs, blacklistips: SUBSET Addrs]
    BY DEF IInv, TablesOK
  <2>2. Eject(room, l, m)
    BY <1>2 DEF MassKick
  <2> HIDE DEF l
  <2> QED BY <2>1, <2>2, EjectSound
<1>3. CASE KickPlain(m, v)
  <2> DEFINE r == [room EXCEPT !.allowedips = @ \ {addr[v]}]
             l == [lists EXCEPT !.bannedips = @ \cup {addr[v]}]
  <2>1. RoomSound(r, clients, connects)
    BY DEF IInv, RoomSound, Rooms
  <2>2. l \in [bannedips: SUBSET Addrs, pbans: SUBSET Addrs,
               gbans: SUBSET Addrs, blacklistips: SUBSET Addrs]
    BY DEF IInv, TablesOK
  <2>3. /\ Forget({v}, recent \cup {m}, [nkicks EXCEPT ![m] = 0])
        /\ room' = Leave(r, {v}) /\ lists' = BansAfterLeave(l, {v})
        /\ multiplayer' = multiplayer
    BY <1>3 DEF KickPlain
  <2>4. recent \cup {m} \in SUBSET clients /\ [nkicks EXCEPT ![m] = 0] \in [Slots -> 0..128]
    BY DEF Kick, Privileged, IInv, TablesOK
  <2> HIDE DEF r, l
  <2> QED BY <2>1, <2>2, <2>3, <2>4, DropSound DEF IInv, TablesOK
<1>4. CASE Eject(room, lists, v)
  BY <1>4, EjectSound DEF IInv, TablesOK
<1> QED BY <1>1, <1>2, <1>3, <1>4 DEF Kick

\* Every step preserves the invariant: one step per action.
LEMMA NextInv == IInv /\ [Next]_vars => IInv'
<1> SUFFICES ASSUME IInv, [Next]_vars PROVE IInv'
  OBVIOUS
<1>0. TablesOK /\ RoomSound(room, clients, connects) /\ room \in Rooms
  BY DEF IInv, RoomSound
<1>1. ASSUME NEW c \in Slots, NEW a \in Addrs, Connect(c, a) PROVE IInv'
  BY <1>1 DEF Connect, IInv, TablesOK, RoomSound, Occupied
<1>2. ASSUME NEW c \in Slots, NEW pw \in {"none", "server", "admin"}, Join(c, pw) PROVE IInv'
  <2>1. CASE AllowConnect(c, pw)
    BY <1>2, <2>1 DEF Join, IInv, TablesOK, RoomSound, Occupied
  <2>2. CASE ~AllowConnect(c, pw)
    BY <1>0, <1>2, <2>2, DropSound DEF Join, DropSlots, TablesOK
  <2> QED BY <2>1, <2>2
<1>3. ASSUME NEW c \in Slots, Disconnect(c) PROVE IInv'
  BY <1>0, <1>3, DropSound DEF Disconnect, DropSlots, TablesOK
<1>4. ASSUME NEW c \in Slots, NEW val \in BOOLEAN, NEW pass \in BOOLEAN, SetMaster(c, val, pass)
      PROVE IInv'
  <2>1. CASE val
    BY <1>0, <1>4, <2>1, ClaimSound, RoomStepSound DEF SetMaster, Occupied, TablesOK
  <2>2. CASE ~val
    BY <1>0, <1>4, <2>2, RelinquishSound, RoomStepSound DEF SetMaster, TablesOK
  <2> QED BY <2>1, <2>2
<1>5. ASSUME NEW c \in Slots, AuthTry(c) \/ AuthFailed(c) PROVE IInv'
  BY <1>0, <1>5, RoomStepSound DEF AuthTry, AuthFailed, TablesOK
<1>6. ASSUME NEW c \in Slots, AuthSucceeded(c) PROVE IInv'
  BY <1>0, <1>6, ClaimSound, RoomStepSound DEF AuthSucceeded, Occupied, TablesOK
<1>7. RoomSound(DropCurrent(room), clients, connects)
  BY <1>0, RelinquishSound DEF DropCurrent, Occupied, TablesOK
<1>8. ASSUME NEW c \in Slots, GiveMaster(c) PROVE IInv'
  BY <1>0, <1>7, <1>8, ClaimSound, RoomStepSound DEF GiveMaster, Reachable, Occupied, TablesOK
<1>9. ASSUME TakeMaster PROVE IInv'
  BY <1>0, <1>7, <1>9, RoomStepSound DEF TakeMaster, TablesOK
<1>10. ASSUME NEW mm \in Modes PROVE RoomSound(WithMode(room, mm), clients, connects)
  <2> DEFINE g == IF mm >= MM_PRIVATE THEN {addr[d] : d \in clients} ELSE {}
  <2>1. g \in SUBSET Addrs
    BY <1>0 DEF TablesOK
  <2>2. WithMode(room, mm) = [room EXCEPT !.mastermode = mm, !.allowedips = g]
    BY DEF WithMode
  <2> HIDE DEF g
  <2> QED BY <1>0, <2>1, <2>2 DEF RoomSound, Rooms
<1>11. ASSUME NEW c \in Slots, NEW mm \in Modes, SetMasterMode(c, mm) PROVE IInv'
  BY <1>0, <1>10, <1>11, RoomStepSound DEF SetMasterMode, TablesOK
<1>12. ASSUME NEW mm \in Modes, CommandMasterMode(mm) PROVE IInv'
  BY <1>0, <1>10, <1>12, RoomStepSound DEF CommandMasterMode, TablesOK
<1>13. ASSUME NEW c \in Slots, NEW val \in BOOLEAN, PauseGame(c, val) PROVE IInv'
  <2> DEFINE r == [room EXCEPT !.gamepaused = val]
  <2>1. r \in Rooms /\ r.priv = room.priv
    BY <1>0 DEF Rooms
  <2>2. \E d \in clients : room.priv[d] = PRIV_ADMIN
    BY <1>0, <1>13, AdminsAre DEF PauseGame, TablesOK
  <2>3. RoomSound(r, clients, connects)
    <3> HIDE DEF r
    <3> QED BY <1>0, <2>1, <2>2 DEF RoomSound
  <2> QED BY <1>0, <1>13, <2>3, RoomStepSound DEF PauseGame, TablesOK
<1>14. ASSUME NEW s \in Slots, NEW val \in BOOLEAN, s \in Occupied, SetSpectator(s, val)
       PROVE IInv'
  BY <1>14 DEF SetSpectator, IInv, TablesOK, RoomSound, Occupied
<1>15. ASSUME NEW c \in Slots, NEW s \in Slots, NEW val \in BOOLEAN, Spectate(c, s, val)
       PROVE IInv'
  BY <1>14, <1>15 DEF Spectate, Reachable, Occupied
<1>16. ASSUME NEW s \in Slots, NEW val \in BOOLEAN, CommandSpectate(s, val) PROVE IInv'
  BY <1>14, <1>16 DEF CommandSpectate, Reachable, Occupied
<1>17. ASSUME NEW v \in Slots, CommandKick(v) PROVE IInv'
  BY <1>0, <1>17, EjectSound DEF CommandKick, TablesOK
<1>18. ASSUME NEW m \in Slots, KickIntervalPasses(m) PROVE IInv'
  BY <1>18 DEF KickIntervalPasses, IInv, TablesOK, RoomSound, Occupied
<1>19. ASSUME ClearBans \/ ClearGbans PROVE IInv'
  BY <1>0, <1>19, ListStepSound DEF ClearBans, ClearGbans, TablesOK
<1>20. ASSUME NEW a \in Addrs,
              \/ CommandBan(a) \/ CommandPban(a) \/ CommandUnban(a)
              \/ CommandBlacklist(a) \/ CommandUnblacklist(a)
       PROVE IInv'
  BY <1>0, <1>20, ListStepSound
     DEF CommandBan, CommandPban, CommandUnban, CommandBlacklist, CommandUnblacklist, TablesOK
<1>21. ASSUME NEW a \in Addrs, AddGban(a) PROVE IInv'
  <2> DEFINE S == {c \in clients : /\ addr[c] \in lists.gbans \cup {a}
                                   /\ room.priv[c] < PRIV_ADMIN}
             l == [lists EXCEPT !.gbans = @ \cup {a}]
  <2>1. S \in SUBSET Slots
    BY <1>0 DEF TablesOK
  <2>2. l \in [bannedips: SUBSET Addrs, pbans: SUBSET Addrs,
               gbans: SUBSET Addrs, blacklistips: SUBSET Addrs]
    BY <1>0 DEF TablesOK
  <2>3. Forget(S, recent, nkicks) /\ room' = Leave(room, S)
        /\ lists' = BansAfterLeave(l, S) /\ multiplayer' = multiplayer
    BY <1>21 DEF AddGban, DropSlots
  <2> HIDE DEF S, l
  <2> QED BY <1>0, <2>1, <2>2, <2>3, DropSound DEF TablesOK
<1>22. ASSUME NEW mp \in BOOLEAN, ChangeMap(mp) PROVE IInv'
  <2> DEFINE gone == IF mp THEN {} ELSE Occupied
             r == [room EXCEPT !.gamepaused = FALSE]
  <2>1. gone \in SUBSET Slots
    BY <1>0 DEF TablesOK, Occupied
  <2>2. RoomSound(r, clients, connects)
    BY <1>0 DEF RoomSound, Rooms
  <2>3. Forget(gone, {}, [c \in Slots |-> 0]) /\ room' = Leave(r, gone)
        /\ lists' = BansAfterLeave(lists, gone) /\ multiplayer' = mp
    BY <1>22 DEF ChangeMap
  <2> HIDE DEF gone, r
  <2> QED BY <1>0, <2>1, <2>2, <2>3, DropSound DEF TablesOK
<1>23. CASE UNCHANGED vars
  BY <1>23 DEF vars, IInv, TablesOK, RoomSound, Occupied
<1> QED
  BY <1>1, <1>2, <1>3, <1>4, <1>5, <1>6, <1>8, <1>9, <1>11, <1>12, <1>13, <1>15, <1>16,
     <1>17, <1>18, <1>19, <1>20, <1>21, <1>22, <1>23, KickSound DEF Next

LEMMA InvHolds == Spec => []IInv
BY InitInv, NextInv, PTL DEF Spec

-----------------------------------------------------------------------------
(* The theorems.                                                           *)

\* The slot tables of the engine and the game stay consistent.
THEOREM TypeCorrect == Spec => []TypeOK
<1>1. IInv => TypeOK
  BY DEF IInv, TablesOK, RoomSound, TypeOK, Occupied
<1> QED BY <1>1, InvHolds, PTL

\* A pause always has an admin who can lift it.
THEOREM PauseCanBeLifted == Spec => []PauseHasAdmin
<1>1. IInv => PauseHasAdmin
  BY AdminsAre DEF IInv, TablesOK, RoomSound, PauseHasAdmin
<1> QED BY <1>1, InvHolds, PTL

\* There is at most one admin, and none among the clients still connecting.
THEOREM AdminIsUnique == Spec => []OneAdmin
<1>1. IInv => OneAdmin
  BY AdminsAre DEF IInv, TablesOK, RoomSound, OneAdmin, Rooms, Privileges
<1> QED BY <1>1, InvHolds, PTL

-----------------------------------------------------------------------------
(* One master, and no restriction without a holder.                        *)

\* currentmaster is the one privileged slot, and it belongs to a player.
Sole(r, cs) ==
  \A c \in Slots : /\ r.priv[c] # PRIV_NONE <=> c = r.currentmaster
                   /\ c = r.currentmaster => c \in cs

Held(r, cs) == r.mastermode > MM_OPEN => \E c \in cs : r.priv[c] # PRIV_NONE

Governed(r, cs) == (~ReachConnecting => Sole(r, cs)) /\ (~Operator => Held(r, cs))

GInv == IInv /\ Governed(room, clients)

\* Governed looks at three fields only.
LEMMA GovernedFields ==
  ASSUME NEW r, NEW q, NEW cs, Governed(r, cs), q.priv = r.priv,
         q.mastermode = r.mastermode, q.currentmaster = r.currentmaster
  PROVE  Governed(q, cs)
BY DEF Governed, Sole, Held

\* What Relinquish returns when there is something to give up.
LEMMA RelinquishFields ==
  ASSUME NEW r \in Rooms, NEW c \in Slots, r.priv[c] # PRIV_NONE
  PROVE  /\ Relinquish(r, c).priv = [r.priv EXCEPT ![c] = PRIV_NONE]
         /\ Relinquish(r, c).mastermode = MM_OPEN
         /\ Relinquish(r, c).currentmaster = NoSlot
<1> DEFINE p == [r.priv EXCEPT ![c] = PRIV_NONE]
           q == [r EXCEPT !.priv = p, !.mastermode = MM_OPEN]
<1>1. p \in [Slots -> Privileges] /\ MM_OPEN \in Modes
  BY DEF Rooms, Privileges, Modes
<1>2. Relinquish(r, c) = Settle(q, NoSlot)
  BY DEF Relinquish
<1> HIDE DEF p
<1>3. q \in Rooms /\ q.priv = p /\ q.mastermode = MM_OPEN
  BY <1>1 DEF Rooms
<1> HIDE DEF q
<1> QED BY <1>2, <1>3, SettleFields DEF p

LEMMA RelinquishGoverned ==
  ASSUME TablesOK, NEW r \in Rooms, Governed(r, clients), NEW c \in Slots
  PROVE  Governed(Relinquish(r, c), clients)
<1>1. CASE r.priv[c] = PRIV_NONE
  BY <1>1 DEF Relinquish
<1>2. CASE r.priv[c] # PRIV_NONE
  <2> DEFINE q == Relinquish(r, c)
  <2>1. /\ q.priv = [r.priv EXCEPT ![c] = PRIV_NONE]
        /\ q.mastermode = MM_OPEN /\ q.currentmaster = NoSlot
    BY <1>2, RelinquishFields
  <2>2. \A d \in Slots : q.priv[d] = IF d = c THEN PRIV_NONE ELSE r.priv[d]
    BY <2>1 DEF Rooms
  <2> HIDE DEF q
  <2>3. ~ReachConnecting => Sole(q, clients)
    BY <1>2, <2>1, <2>2, SlotsAssumption DEF Governed, Sole
  <2>4. Held(q, clients)
    BY <2>1 DEF Held
  <2> QED BY <2>3, <2>4 DEF Governed, q
<1> QED BY <1>1, <1>2

\* What a successful claim returns.
LEMMA ClaimFields ==
  ASSUME NEW r \in Rooms, NEW c \in Slots, NEW pass \in BOOLEAN, NEW auth \in BOOLEAN,
         NEW noOpen \in BOOLEAN, MayClaim(r, c, pass, auth)
  PROVE  LET q == Claim(r, c, pass, auth, noOpen)
             haspass == AdminPass /\ pass
         IN /\ q.priv = ClaimedPriv(r, c, haspass, auth)
            /\ q.mastermode = IF noOpen \/ haspass THEN r.mastermode ELSE MM_OPEN
            /\ q.currentmaster = c
<1> DEFINE haspass == AdminPass /\ pass
           p == ClaimedPriv(r, c, haspass, auth)
           mm == IF noOpen \/ haspass THEN r.mastermode ELSE MM_OPEN
           q == [r EXCEPT !.priv = p, !.mastermode = mm]
<1>1. p \in [Slots -> Privileges] /\ mm \in Modes
  BY DEF Rooms, Privileges, Modes, ClaimedPriv
<1>2. Claim(r, c, pass, auth, noOpen) = Settle(q, c)
  BY DEF Claim
<1> HIDE DEF p, mm
<1>3. q \in Rooms /\ q.priv = p /\ q.mastermode = mm
  BY <1>1 DEF Rooms
<1> HIDE DEF q
<1> QED BY <1>2, <1>3, SettleFields DEF p, mm

\* A claim leaves one holder: everybody else had no rank, or loses it.
LEMMA ClaimGoverned ==
  ASSUME TablesOK, NEW r \in Rooms, Governed(r, clients), NEW c \in Reachable,
         NEW pass \in BOOLEAN, NEW auth \in BOOLEAN, NEW noOpen \in BOOLEAN,
         c \in clients \/ (~pass /\ ~auth)
  PROVE  Governed(Claim(r, c, pass, auth, noOpen), clients)
<1>1. CASE ~MayClaim(r, c, pass, auth)
  BY <1>1 DEF Claim
<1>2. CASE MayClaim(r, c, pass, auth)
  <2> DEFINE haspass == AdminPass /\ pass
             q == Claim(r, c, pass, auth, noOpen)
  <2>0. c \in Slots /\ clients \subseteq Slots
    BY DEF Reachable, Occupied, TablesOK
  <2>1. /\ q.priv = ClaimedPriv(r, c, haspass, auth)
        /\ q.mastermode = IF noOpen \/ haspass THEN r.mastermode ELSE MM_OPEN
        /\ q.currentmaster = c
    BY <1>2, <2>0, ClaimFields
  <2> HIDE DEF q
  <2>2. \A d \in Slots : q.priv[d] =
          IF d = c THEN IF haspass THEN PRIV_ADMIN ELSE PRIV_MASTER
          ELSE IF d \in clients /\ (haspass \/ (auth /\ r.priv[d] <= PRIV_MASTER))
               THEN PRIV_NONE ELSE r.priv[d]
    BY <2>1 DEF ClaimedPriv
  <2>3. haspass \/ \A d \in clients \ {c} : r.priv[d] # PRIV_NONE => auth /\ r.priv[d] <= PRIV_MASTER
    BY <1>2 DEF MayClaim, Privileged
  <2>4. ~ReachConnecting => Sole(q, clients)
    <3> SUFFICES ASSUME ~ReachConnecting PROVE Sole(q, clients)
      OBVIOUS
    <3>1. c \in clients
      BY DEF Reachable
    <3>2. \A d \in Slots : r.priv[d] # PRIV_NONE => d \in clients
      BY DEF Governed, Sole
    <3>3. \A d \in Slots \ {c} : q.priv[d] = PRIV_NONE
      BY <2>0, <2>2, <2>3, <3>2
    <3>4. q.priv[c] # PRIV_NONE
      BY <2>0, <2>2
    <3> QED BY <2>1, <3>1, <3>3, <3>4 DEF Sole
  <2>5. ~Operator => Held(q, clients)
    <3>1. CASE c \in clients
      <4>1. q.priv[c] # PRIV_NONE
        BY <2>0, <2>2
      <4> QED BY <3>1, <4>1 DEF Held
    <3>2. CASE c \notin clients
      <4>1. \A d \in clients : r.priv[d] = PRIV_NONE
        BY <2>3, <3>2
      <4>2. ~Operator => ~(r.mastermode > MM_OPEN)
        BY <4>1 DEF Governed, Held
      <4>3. q.mastermode = r.mastermode \/ q.mastermode = MM_OPEN
        BY <2>1
      <4> QED BY <4>2, <4>3 DEF Held
    <3> QED BY <3>1, <3>2
  <2> QED BY <2>4, <2>5 DEF Governed, q
<1> QED BY <1>1, <1>2

\* When the leavers hold nothing, the room stays as it is; otherwise it opens.
LEMMA LeaveGoverned ==
  ASSUME TablesOK, NEW r \in Rooms, Governed(r, clients), NEW S \in SUBSET Slots
  PROVE  Governed(Leave(r, S), clients \ S)
<1> DEFINE p == [c \in Slots |-> IF c \in S THEN PRIV_NONE ELSE r.priv[c]]
           without == [r EXCEPT !.priv = p]
           open == [without EXCEPT !.mastermode = MM_OPEN]
           leavers == {c \in S \cap clients : r.priv[c] # PRIV_NONE}
<1>1. p \in [Slots -> Privileges]
  BY DEF Rooms, Privileges
<1>2. \A c \in Slots : p[c] = IF c \in S THEN PRIV_NONE ELSE r.priv[c]
  OBVIOUS
<1> HIDE DEF p
<1>3. /\ without \in Rooms /\ without.priv = p
      /\ without.mastermode = r.mastermode /\ without.currentmaster = r.currentmaster
  BY <1>1 DEF Rooms
<1>4. open \in Rooms /\ open.priv = p /\ open.mastermode = MM_OPEN
  <2> HIDE DEF without
  <2> QED BY <1>3 DEF Rooms, Modes
<1>5. CASE leavers = {}
  <2>1. Leave(r, S) = without
    BY <1>5 DEF Leave, p
  <2> HIDE DEF without
  <2>2. ~ReachConnecting => Sole(without, clients \ S)
    BY <1>5, <1>2, <1>3 DEF Governed, Sole
  <2>3. ~Operator => Held(without, clients \ S)
    BY <1>5, <1>2, <1>3 DEF Governed, Held, TablesOK
  <2> QED BY <2>1, <2>2, <2>3 DEF Governed
<1>6. CASE leavers # {}
  <2>1. Leave(r, S) = Settle(open, NoSlot)
    BY <1>6 DEF Leave, p
  <2> HIDE DEF open
  <2> DEFINE q == Settle(open, NoSlot)
  <2>2. q.priv = p /\ q.mastermode = MM_OPEN /\ q.currentmaster = NoSlot
    BY <1>4, SettleFields
  <2> HIDE DEF q
  <2>3. ~ReachConnecting => Sole(q, clients \ S)
    BY <1>6, <1>2, <2>2, SlotsAssumption DEF Governed, Sole
  <2>4. Held(q, clients \ S)
    BY <2>2 DEF Held
  <2> QED BY <2>1, <2>3, <2>4 DEF Governed, q
<1> QED BY <1>5, <1>6

\* Taking an address off the guest list, or resuming, changes no rank.
LEMMA SameGovernor ==
  ASSUME NEW r \in Rooms, NEW g, NEW b, NEW cs, Governed(r, cs)
  PROVE  /\ Governed([r EXCEPT !.allowedips = g], cs)
         /\ Governed([r EXCEPT !.gamepaused = b], cs)
         /\ [r EXCEPT !.allowedips = g].priv = r.priv
BY GovernedFields DEF Rooms

LEMMA EjectGoverned ==
  ASSUME GInv, NEW v \in Slots, NEW l, Eject(room, l, v)
  PROVE  Governed(room, clients)'
<1> DEFINE r == [room EXCEPT !.allowedips = @ \ {addr[v]}]
<1>1. r \in Rooms /\ Governed(r, clients)
  BY SameGovernor DEF GInv, IInv, RoomSound, Rooms
<1>2. room' = Leave(r, {v}) /\ clients' = clients \ {v}
  BY DEF Eject, DropSlots, Forget
<1> HIDE DEF r
<1>3. Governed(room', clients')
  BY <1>1, <1>2, LeaveGoverned DEF GInv, IInv
<1> QED BY <1>3 DEF Governed, Sole, Held

\* Every step preserves the government: the steps that write neither the room
\* nor the players are grouped.
LEMMA NextGoverned == GInv /\ [Next]_vars => Governed(room, clients)'
<1> SUFFICES ASSUME GInv, [Next]_vars PROVE Governed(room', clients')
  BY DEF Governed, Sole, Held
<1>0. TablesOK /\ room \in Rooms /\ Governed(room, clients) /\ IInv
  BY DEF GInv, IInv, RoomSound
<1>1. CASE room' = room /\ clients' = clients
  BY <1>0, <1>1
<1>2. ASSUME NEW S \in SUBSET Slots, NEW l, DropSlots(room, l, S) PROVE Governed(room', clients')
  BY <1>0, <1>2, LeaveGoverned DEF DropSlots, Forget
<1>3. ASSUME NEW c \in Slots, NEW pw \in {"none", "server", "admin"}, Join(c, pw)
      PROVE Governed(room', clients')
  <2>1. CASE AllowConnect(c, pw)
    <3>1. room' = room /\ clients' = clients \cup {c}
      BY <1>3, <2>1 DEF Join
    <3> QED BY <1>0, <3>1 DEF Governed, Sole, Held
  <2>2. CASE ~AllowConnect(c, pw)
    BY <1>2, <1>3, <2>2 DEF Join
  <2> QED BY <2>1, <2>2
<1>4. ASSUME NEW r, RoomStep(r), Governed(r, clients) PROVE Governed(room', clients')
  BY <1>4 DEF RoomStep
<1>5. ASSUME NEW c \in Slots, NEW val \in BOOLEAN, NEW pass \in BOOLEAN, SetMaster(c, val, pass)
      PROVE Governed(room', clients')
  <2>0. c \in Reachable
    BY <1>5 DEF SetMaster, Reachable, Occupied
  <2>1. CASE val
    BY <1>0, <1>4, <1>5, <2>0, <2>1, ClaimGoverned DEF SetMaster
  <2>2. CASE ~val
    BY <1>0, <1>4, <1>5, <2>2, RelinquishGoverned DEF SetMaster
  <2> QED BY <2>1, <2>2
<1>6. ASSUME NEW c \in Slots, AuthTry(c) \/ AuthFailed(c) PROVE Governed(room', clients')
  BY <1>0, <1>4, <1>6 DEF AuthTry, AuthFailed
<1>7. ASSUME NEW c \in Slots, AuthSucceeded(c) PROVE Governed(room', clients')
  BY <1>0, <1>4, <1>7, ClaimGoverned DEF AuthSucceeded, Reachable, Occupied, TablesOK
<1>8. DropCurrent(room) \in Rooms /\ Governed(DropCurrent(room), clients)
  BY <1>0, RelinquishGoverned, RelinquishSound DEF DropCurrent, Occupied, TablesOK, IInv, RoomSound
<1>9. ASSUME NEW c \in Slots, GiveMaster(c) PROVE Governed(room', clients')
  BY <1>0, <1>4, <1>8, <1>9, ClaimGoverned DEF GiveMaster
<1>10. ASSUME TakeMaster PROVE Governed(room', clients')
  BY <1>4, <1>8, <1>10 DEF TakeMaster
<1>11. ASSUME NEW mm \in Modes, Operator \/ \E d \in clients : room.priv[d] # PRIV_NONE
       PROVE Governed(WithMode(room, mm), clients)
  <2> DEFINE g == IF mm >= MM_PRIVATE THEN {addr[d] : d \in clients} ELSE {}
             q == [room EXCEPT !.mastermode = mm, !.allowedips = g]
  <2>1. WithMode(room, mm) = q
    BY DEF WithMode
  <2> HIDE DEF g
  <2>2. q.priv = room.priv /\ q.currentmaster = room.currentmaster
    BY <1>0 DEF Rooms
  <2> HIDE DEF q
  <2> QED BY <1>0, <1>11, <2>1, <2>2 DEF Governed, Sole, Held
<1>12. ASSUME NEW c \in Slots, NEW mm \in Modes, SetMasterMode(c, mm) PROVE Governed(room', clients')
  BY <1>4, <1>11, <1>12 DEF SetMasterMode, Privileged
<1>13. ASSUME NEW mm \in Modes, CommandMasterMode(mm) PROVE Governed(room', clients')
  <2>1. Operator \/ \E d \in clients : room.priv[d] # PRIV_NONE
    BY <1>13 DEF CommandMasterMode, Commanding, Admins
  <2> QED BY <1>4, <1>11, <1>13, <2>1 DEF CommandMasterMode
<1>14. ASSUME NEW c \in Slots, NEW val \in BOOLEAN, PauseGame(c, val) PROVE Governed(room', clients')
  BY <1>0, <1>4, <1>14, SameGovernor DEF PauseGame
<1>15. ASSUME NEW m \in Slots, NEW v \in Slots, Kick(m, v) PROVE Governed(room', clients')
  <2>1. CASE KickRefused(m, v)
    BY <1>1, <2>1 DEF KickRefused
  <2>2. CASE MassKick(m, v)
    BY <2>2, EjectGoverned DEF MassKick, Governed, Sole, Held
  <2>3. CASE KickPlain(m, v)
    <3> DEFINE r == [room EXCEPT !.allowedips = @ \ {addr[v]}]
    <3>1. r \in Rooms /\ Governed(r, clients)
      BY <1>0, SameGovernor DEF Rooms
    <3>2. room' = Leave(r, {v}) /\ clients' = clients \ {v}
      BY <2>3 DEF KickPlain, Forget
    <3> HIDE DEF r
    <3> QED BY <1>0, <3>1, <3>2, LeaveGoverned
  <2>4. CASE Eject(room, lists, v)
    BY <2>4, EjectGoverned DEF Governed, Sole, Held
  <2> QED BY <1>15, <2>1, <2>2, <2>3, <2>4 DEF Kick
<1>16. ASSUME NEW v \in Slots, CommandKick(v) PROVE Governed(room', clients')
  BY <1>16, EjectGoverned DEF CommandKick, Governed, Sole, Held
<1>17. ASSUME NEW a \in Addrs, AddGban(a) PROVE Governed(room', clients')
  <2> DEFINE S == {c \in clients : /\ addr[c] \in lists.gbans \cup {a}
                                   /\ room.priv[c] < PRIV_ADMIN}
  <2>1. S \in SUBSET Slots
    BY <1>0 DEF TablesOK
  <2> HIDE DEF S
  <2> QED BY <1>2, <1>17, <2>1 DEF AddGban, S
<1>18. ASSUME NEW mp \in BOOLEAN, ChangeMap(mp) PROVE Governed(room', clients')
  <2> DEFINE gone == IF mp THEN {} ELSE Occupied
             r == [room EXCEPT !.gamepaused = FALSE]
  <2>1. gone \in SUBSET Slots
    BY <1>0 DEF TablesOK, Occupied
  <2>2. r \in Rooms /\ Governed(r, clients)
    BY <1>0, SameGovernor DEF Rooms
  <2>3. room' = Leave(r, gone) /\ clients' = clients \ gone
    BY <1>18 DEF ChangeMap, Forget
  <2> HIDE DEF gone, r
  <2> QED BY <1>0, <2>1, <2>2, <2>3, LeaveGoverned
<1>19. ASSUME NEW c \in Slots, Disconnect(c) PROVE Governed(room', clients')
  BY <1>2, <1>19 DEF Disconnect
<1>21. ASSUME NEW s \in Slots, NEW val \in BOOLEAN, SetSpectator(s, val) PROVE Governed(room', clients')
  BY <1>1, <1>21 DEF SetSpectator
<1>22. ASSUME ClearBans \/ ClearGbans \/ UNCHANGED vars \/ \E m \in Slots : KickIntervalPasses(m)
       PROVE Governed(room', clients')
  BY <1>1, <1>22 DEF ClearBans, ClearGbans, ListStep, vars, KickIntervalPasses
<1>23. ASSUME NEW c \in Slots, NEW s \in Slots, NEW val \in BOOLEAN,
              Spectate(c, s, val) \/ CommandSpectate(s, val)
       PROVE Governed(room', clients')
  BY <1>21, <1>23 DEF Spectate, CommandSpectate
<1>24. ASSUME NEW a \in Addrs, NEW c \in Slots, Connect(c, a) PROVE Governed(room', clients')
  BY <1>1, <1>24 DEF Connect
<1>25. ASSUME NEW a \in Addrs,
              \/ CommandBan(a) \/ CommandPban(a) \/ CommandUnban(a)
              \/ CommandBlacklist(a) \/ CommandUnblacklist(a)
       PROVE Governed(room', clients')
  BY <1>1, <1>25
     DEF CommandBan, CommandPban, CommandUnban, CommandBlacklist, CommandUnblacklist, ListStep
<1> QED
  BY <1>3, <1>5, <1>6, <1>7, <1>9, <1>10, <1>12, <1>13, <1>14, <1>15, <1>16, <1>17, <1>18,
     <1>19, <1>22, <1>23, <1>24, <1>25 DEF Next

LEMMA GovernmentHolds == Spec => []GInv
<1>1. Init => GInv
  BY InitInv, SlotsAssumption DEF Init, GInv, Governed, Sole, Held
<1>2. GInv /\ [Next]_vars => GInv'
  BY NextInv, NextGoverned DEF GInv
<1> QED BY <1>1, <1>2, PTL DEF Spec

\* When commands only name players, currentmaster is the one privileged slot.
THEOREM MasterIsSole == Spec => []SoleMaster
<1>1. GInv => SoleMaster
  BY DEF GInv, Governed, Sole, SoleMaster
<1> QED BY <1>1, GovernmentHolds, PTL

\* Without an operator, a mode that restricts the players has a holder.
THEOREM RestrictionHasHolder == Spec => []ModeHasHolder
<1>1. GInv => ModeHasHolder
  BY DEF GInv, IInv, TablesOK, Governed, Held, ModeHasHolder, Privileged
<1> QED BY <1>1, GovernmentHolds, PTL

\* The guest list is empty outside private mode.
THEOREM GuestsStayFresh == Spec => []GuestListFresh
<1> DEFINE Fresh(r) == r.mastermode < MM_PRIVATE => r.allowedips = {}
<1>1. Init => GuestListFresh
  BY DEF Init, GuestListFresh
<1>2. IInv /\ GuestListFresh /\ [Next]_vars => GuestListFresh'
  <2> SUFFICES ASSUME IInv, Fresh(room), [Next]_vars PROVE Fresh(room')
    BY DEF GuestListFresh
  <2>0. TablesOK /\ room \in Rooms
    BY DEF IInv, RoomSound
  <2>1. ASSUME NEW r \in Rooms, NEW m \in Slots \cup {NoSlot} PROVE Fresh(Settle(r, m))
    BY <2>1, SettleFields
  <2>2. ASSUME NEW r \in Rooms, NEW c \in Slots, Fresh(r) PROVE Fresh(Relinquish(r, c))
    <3>1. CASE r.priv[c] = PRIV_NONE
      BY <2>2, <3>1 DEF Relinquish
    <3>2. CASE r.priv[c] # PRIV_NONE
      <4> DEFINE p == [r.priv EXCEPT ![c] = PRIV_NONE]
                 q == [r EXCEPT !.priv = p, !.mastermode = MM_OPEN]
      <4>1. p \in [Slots -> Privileges] /\ MM_OPEN \in Modes
        BY DEF Rooms, Privileges, Modes
      <4>2. Relinquish(r, c) = Settle(q, NoSlot)
        BY <3>2 DEF Relinquish
      <4> HIDE DEF p
      <4>3. q \in Rooms
        BY <4>1 DEF Rooms
      <4> HIDE DEF q
      <4> QED BY <2>1, <4>2, <4>3
    <3> QED BY <3>1, <3>2
  <2>3. ASSUME NEW r \in Rooms, NEW c \in Slots, NEW pass \in BOOLEAN, NEW auth \in BOOLEAN,
               NEW noOpen \in BOOLEAN, Fresh(r)
        PROVE Fresh(Claim(r, c, pass, auth, noOpen))
    <3>1. CASE ~MayClaim(r, c, pass, auth)
      BY <2>3, <3>1 DEF Claim
    <3>2. CASE MayClaim(r, c, pass, auth)
      <4> DEFINE haspass == AdminPass /\ pass
                 p == ClaimedPriv(r, c, haspass, auth)
                 mm == IF noOpen \/ haspass THEN r.mastermode ELSE MM_OPEN
                 q == [r EXCEPT !.priv = p, !.mastermode = mm]
      <4>1. p \in [Slots -> Privileges] /\ mm \in Modes
        BY DEF Rooms, Privileges, Modes, ClaimedPriv
      <4>2. Claim(r, c, pass, auth, noOpen) = Settle(q, c)
        BY <3>2 DEF Claim
      <4> HIDE DEF p, mm
      <4>3. q \in Rooms
        BY <4>1 DEF Rooms
      <4> HIDE DEF q
      <4> QED BY <2>1, <4>2, <4>3
    <3> QED BY <3>1, <3>2
  <2>4. ASSUME NEW r \in Rooms, NEW S \in SUBSET Slots, Fresh(r) PROVE Fresh(Leave(r, S))
    <3> DEFINE p == [c \in Slots |-> IF c \in S THEN PRIV_NONE ELSE r.priv[c]]
               without == [r EXCEPT !.priv = p]
               open == [without EXCEPT !.mastermode = MM_OPEN]
    <3>1. p \in [Slots -> Privileges]
      BY DEF Rooms, Privileges
    <3>2. Leave(r, S) = without \/ Leave(r, S) = Settle(open, NoSlot)
      BY DEF Leave
    <3> HIDE DEF p
    <3>3. /\ without \in Rooms /\ without.mastermode = r.mastermode
          /\ without.allowedips = r.allowedips
      BY <3>1 DEF Rooms
    <3> HIDE DEF without
    <3>4. open \in Rooms
      BY <3>3 DEF Rooms, Modes
    <3> HIDE DEF open
    <3> QED BY <2>1, <2>4, <3>2, <3>3, <3>4
  <2>5. ASSUME NEW r \in Rooms, NEW g \in SUBSET Addrs, Fresh(r)
        PROVE  /\ Fresh([r EXCEPT !.allowedips = @ \ g]) /\ [r EXCEPT !.allowedips = @ \ g] \in Rooms
    BY <2>5 DEF Rooms
  <2>6. ASSUME NEW r, RoomStep(r), Fresh(r) PROVE Fresh(room')
    BY <2>6 DEF RoomStep
  <2>7. ASSUME NEW v \in Slots, NEW l, Eject(room, l, v) PROVE Fresh(room')
    <3> DEFINE r == [room EXCEPT !.allowedips = @ \ {addr[v]}]
    <3>1. Fresh(r) /\ r \in Rooms
      BY <2>0 DEF TablesOK, Rooms
    <3>2. room' = Leave(r, {v})
      BY <2>7 DEF Eject, DropSlots
    <3> HIDE DEF r
    <3> QED BY <2>4, <3>1, <3>2
  <2>8. ASSUME NEW S \in SUBSET Slots, NEW l, DropSlots(room, l, S) PROVE Fresh(room')
    BY <2>0, <2>4, <2>8 DEF DropSlots
  <2>9. CASE room' = room
    BY <2>9
  <2>10. ASSUME NEW c \in Slots, NEW pw \in {"none", "server", "admin"}, Join(c, pw) PROVE Fresh(room')
    BY <2>8, <2>9, <2>10 DEF Join
  <2>11. ASSUME NEW c \in Slots, NEW val \in BOOLEAN, NEW pass \in BOOLEAN, SetMaster(c, val, pass)
         PROVE Fresh(room')
    <3>1. CASE val
      BY <2>0, <2>3, <2>6, <2>11, <3>1 DEF SetMaster
    <3>2. CASE ~val
      BY <2>0, <2>2, <2>6, <2>11, <3>2 DEF SetMaster
    <3> QED BY <3>1, <3>2
  <2>12. ASSUME NEW c \in Slots, AuthTry(c) \/ AuthFailed(c) \/ AuthSucceeded(c) PROVE Fresh(room')
    BY <2>0, <2>3, <2>6, <2>9, <2>12 DEF AuthTry, AuthFailed, AuthSucceeded, RoomStep
  <2>13. DropCurrent(room) \in Rooms /\ Fresh(DropCurrent(room))
    BY <2>0, <2>2, RelinquishSound DEF DropCurrent, Occupied, TablesOK, IInv, RoomSound
  <2>14. ASSUME NEW c \in Slots, GiveMaster(c) PROVE Fresh(room')
    BY <2>3, <2>6, <2>13, <2>14 DEF GiveMaster
  <2>15. ASSUME TakeMaster PROVE Fresh(room')
    BY <2>6, <2>13, <2>15 DEF TakeMaster
  <2>16. ASSUME NEW mm \in Modes PROVE Fresh(WithMode(room, mm))
    <3> DEFINE g == IF mm >= MM_PRIVATE THEN {addr[d] : d \in clients} ELSE {}
               q == [room EXCEPT !.mastermode = mm, !.allowedips = g]
    <3>1. mm < MM_PRIVATE => g = {}
      BY DEF Modes
    <3>2. WithMode(room, mm) = q
      BY DEF WithMode
    <3> HIDE DEF g
    <3>3. q.mastermode = mm /\ q.allowedips = g
      BY <2>0 DEF Rooms
    <3> QED BY <3>1, <3>2, <3>3
  <2>17. ASSUME NEW mm \in Modes, CommandMasterMode(mm) \/ \E c \in Slots : SetMasterMode(c, mm)
         PROVE Fresh(room')
    BY <2>6, <2>16, <2>17 DEF SetMasterMode, CommandMasterMode
  <2>18. ASSUME NEW c \in Slots, NEW val \in BOOLEAN, PauseGame(c, val) PROVE Fresh(room')
    BY <2>0, <2>18 DEF PauseGame, RoomStep, Rooms
  <2>19. ASSUME NEW m \in Slots, NEW v \in Slots, Kick(m, v) PROVE Fresh(room')
    <3>1. CASE KickPlain(m, v)
      <4> DEFINE r == [room EXCEPT !.allowedips = @ \ {addr[v]}]
      <4>1. Fresh(r) /\ r \in Rooms
        BY <2>0 DEF TablesOK, Rooms
      <4>2. room' = Leave(r, {v})
        BY <3>1 DEF KickPlain
      <4> HIDE DEF r
      <4> QED BY <2>4, <4>1, <4>2
    <3>2. CASE ~KickPlain(m, v)
      BY <2>7, <2>9, <2>19, <3>2 DEF Kick, KickRefused, MassKick
    <3> QED BY <3>1, <3>2
  <2>20. ASSUME NEW v \in Slots, CommandKick(v) \/ Disconnect(v) PROVE Fresh(room')
    BY <2>7, <2>8, <2>20 DEF CommandKick, Disconnect
  <2>21. ASSUME NEW a \in Addrs, AddGban(a) PROVE Fresh(room')
    <3> DEFINE S == {c \in clients : /\ addr[c] \in lists.gbans \cup {a}
                                     /\ room.priv[c] < PRIV_ADMIN}
    <3>1. S \in SUBSET Slots
      BY <2>0 DEF TablesOK
    <3> HIDE DEF S
    <3> QED BY <2>8, <2>21, <3>1 DEF AddGban, S
  <2>22. ASSUME NEW mp \in BOOLEAN, ChangeMap(mp) PROVE Fresh(room')
    <3> DEFINE gone == IF mp THEN {} ELSE Occupied
               r == [room EXCEPT !.gamepaused = FALSE]
    <3>1. gone \in SUBSET Slots
      BY <2>0 DEF TablesOK, Occupied
    <3>2. r \in Rooms /\ Fresh(r)
      BY <2>0 DEF Rooms
    <3>3. room' = Leave(r, gone)
      BY <2>22 DEF ChangeMap
    <3> HIDE DEF gone, r
    <3> QED BY <2>4, <3>1, <3>2, <3>3
  <2>23. ASSUME NEW c \in Slots, NEW a \in Addrs, Connect(c, a) PROVE Fresh(room')
    BY <2>9, <2>23 DEF Connect
  <2>24. ASSUME NEW c \in Slots, NEW s \in Slots, NEW val \in BOOLEAN,
                Spectate(c, s, val) \/ CommandSpectate(s, val)
         PROVE Fresh(room')
    BY <2>9, <2>24 DEF Spectate, CommandSpectate, SetSpectator
  <2>26. ASSUME NEW m \in Slots, KickIntervalPasses(m) PROVE Fresh(room')
    BY <2>9, <2>26 DEF KickIntervalPasses
  <2>27. ASSUME ClearBans \/ ClearGbans \/ UNCHANGED vars PROVE Fresh(room')
    BY <2>9, <2>27 DEF ClearBans, ClearGbans, ListStep, vars
  <2>25. ASSUME NEW a \in Addrs, \/ CommandBan(a) \/ CommandPban(a) \/ CommandUnban(a)
                                 \/ CommandBlacklist(a) \/ CommandUnblacklist(a)
         PROVE Fresh(room')
    <3>1. room' = room
      BY <2>25
         DEF CommandBan, CommandPban, CommandUnban, CommandBlacklist, CommandUnblacklist, ListStep
    <3> QED BY <2>9, <3>1
  <2> QED
    BY <2>10, <2>11, <2>12, <2>14, <2>15, <2>17, <2>18, <2>19, <2>20, <2>21, <2>22, <2>23, <2>24,
       <2>25, <2>26, <2>27 DEF Next
<1> QED BY <1>1, <1>2, InvHolds, PTL DEF Spec

-----------------------------------------------------------------------------
(* What single steps do to the players.                                    *)

BanLists == [bannedips: SUBSET Addrs, pbans: SUBSET Addrs,
             gbans: SUBSET Addrs, blacklistips: SUBSET Addrs]

\* Two rooms with the same ranks, master and mode.
SameRule(q, r) ==
  /\ q \in Rooms /\ q.priv = r.priv
  /\ q.mastermode = r.mastermode /\ q.currentmaster = r.currentmaster

\* The slots of S are closed; before that the lists got or lost entries and
\* the room lost guests, or the pause, which goes only when nobody leaves or
\* everybody does.
Closes(S) ==
  \E q \in Rooms, l \in BanLists :
    /\ SameRule(q, room)
    /\ q.gamepaused = room.gamepaused \/ (q.gamepaused = FALSE /\ S \in {{}, Occupied})
    /\ clients' = clients \ S
    /\ room' = Leave(q, S)
    /\ lists' = BansAfterLeave(l, S)

LEMMA DropCloses ==
  ASSUME IInv, NEW l \in BanLists, NEW S, DropSlots(room, l, S)
  PROVE  Closes(S)
BY DEF DropSlots, Forget, Closes, SameRule, IInv, RoomSound

LEMMA EjectCloses ==
  ASSUME IInv, NEW l \in BanLists, NEW v \in Slots, Eject(room, l, v)
  PROVE  Closes({v})
<1> DEFINE q == [room EXCEPT !.allowedips = @ \ {addr[v]}]
           k == [l EXCEPT !.bannedips = @ \cup {addr[v]}]
<1>1. SameRule(q, room) /\ q.gamepaused = room.gamepaused
  BY DEF IInv, RoomSound, Rooms, SameRule
<1>2. k \in BanLists
  BY DEF IInv, TablesOK, BanLists
<1>3. clients' = clients \ {v} /\ room' = Leave(q, {v}) /\ lists' = BansAfterLeave(k, {v})
  BY DEF Eject, DropSlots, Forget
<1> HIDE DEF q, k
<1> QED BY <1>1, <1>2, <1>3 DEF Closes, SameRule

LEMMA KickCloses ==
  ASSUME IInv, NEW m \in Slots, NEW v \in Slots, Kick(m, v)
  PROVE  (clients' = clients /\ room' = room) \/ \E S \in SUBSET Slots : Closes(S)
<1>0. lists \in BanLists
  BY DEF IInv, TablesOK, BanLists
<1>1. CASE KickRefused(m, v)
  BY <1>1 DEF KickRefused
<1>2. CASE MassKick(m, v)
  <2>1. [lists EXCEPT !.blacklistips = @ \cup {addr[m]}, !.bannedips = {}] \in BanLists
    BY DEF IInv, TablesOK, BanLists
  <2> QED BY <1>2, <2>1, EjectCloses DEF MassKick
<1>3. CASE KickPlain(m, v)
  <2> DEFINE q == [room EXCEPT !.allowedips = @ \ {addr[v]}]
             k == [lists EXCEPT !.bannedips = @ \cup {addr[v]}]
  <2>1. SameRule(q, room) /\ q.gamepaused = room.gamepaused
    BY DEF IInv, RoomSound, Rooms, SameRule
  <2>2. k \in BanLists
    BY DEF IInv, TablesOK, BanLists
  <2>3. clients' = clients \ {v} /\ room' = Leave(q, {v}) /\ lists' = BansAfterLeave(k, {v})
    BY <1>3 DEF KickPlain, Forget
  <2> HIDE DEF q, k
  <2>4. Closes({v})
    BY <2>1, <2>2, <2>3 DEF Closes, SameRule
  <2> QED BY <2>4
<1>4. CASE Eject(room, lists, v)
  BY <1>0, <1>4, EjectCloses
<1> QED BY <1>1, <1>2, <1>3, <1>4 DEF Kick

LEMMA GbanCloses ==
  ASSUME IInv, NEW a \in Addrs, AddGban(a)
  PROVE  \E S \in SUBSET Slots : Closes(S)
<1> DEFINE S == {c \in clients : /\ addr[c] \in lists.gbans \cup {a}
                                 /\ room.priv[c] < PRIV_ADMIN}
           l == [lists EXCEPT !.gbans = @ \cup {a}]
<1>1. l \in BanLists /\ S \in SUBSET Slots
  BY DEF IInv, TablesOK, BanLists
<1>2. DropSlots(room, l, S)
  BY DEF AddGban
<1> HIDE DEF S, l
<1> QED BY <1>1, <1>2, DropCloses

LEMMA ChangeMapCloses ==
  ASSUME IInv, NEW mp \in BOOLEAN, ChangeMap(mp)
  PROVE  \E S \in SUBSET Slots : Closes(S)
<1> DEFINE gone == IF mp THEN {} ELSE Occupied
           q == [room EXCEPT !.gamepaused = FALSE]
<1>1. SameRule(q, room) /\ q.gamepaused = FALSE
  BY DEF IInv, RoomSound, Rooms, SameRule
<1>2. gone \in SUBSET Slots /\ gone \in {{}, Occupied} /\ lists \in BanLists
  BY DEF IInv, TablesOK, BanLists, Occupied
<1>3. clients' = clients \ gone /\ room' = Leave(q, gone) /\ lists' = BansAfterLeave(lists, gone)
  BY DEF ChangeMap, Forget
<1> HIDE DEF q, gone
<1>4. Closes(gone)
  BY <1>1, <1>2, <1>3 DEF Closes, SameRule
<1> QED BY <1>2, <1>4

\* Players come one at a time and go by the slots that are closed; in every
\* other step they stay.
LEMMA PlayersComeAndGo ==
  IInv /\ [Next]_vars =>
    \/ clients' = clients
    \/ \E c \in Slots : clients' = clients \cup {c} /\ room' = room
    \/ \E S \in SUBSET Slots : Closes(S)
<1> DEFINE Goal == \/ clients' = clients
                   \/ \E c \in Slots : clients' = clients \cup {c} /\ room' = room
                   \/ \E S \in SUBSET Slots : Closes(S)
<1> SUFFICES ASSUME IInv, [Next]_vars PROVE Goal
  OBVIOUS
<1>0. lists \in BanLists
  BY DEF IInv, TablesOK, BanLists
<1>1. ASSUME NEW c \in Slots, NEW pw \in {"none", "server", "admin"}, Join(c, pw) PROVE Goal
  BY <1>0, <1>1, DropCloses DEF Join
<1>2. ASSUME NEW c \in Slots, Disconnect(c) PROVE Goal
  BY <1>0, <1>2, DropCloses DEF Disconnect
<1>3. ASSUME NEW m \in Slots, NEW v \in Slots, Kick(m, v) PROVE Goal
  BY <1>3, KickCloses
<1>4. ASSUME NEW v \in Slots, CommandKick(v) PROVE Goal
  BY <1>0, <1>4, EjectCloses DEF CommandKick
<1>5. ASSUME NEW a \in Addrs, AddGban(a) PROVE Goal
  BY <1>5, GbanCloses
<1>6. ASSUME NEW mp \in BOOLEAN, ChangeMap(mp) PROVE Goal
  BY <1>6, ChangeMapCloses
<1>7. ASSUME NEW c \in Slots, NEW val \in BOOLEAN, NEW pass \in BOOLEAN, SetMaster(c, val, pass)
      PROVE Goal
  BY <1>7 DEF SetMaster, RoomStep
<1>8. ASSUME NEW c \in Slots, AuthTry(c) \/ AuthSucceeded(c) \/ AuthFailed(c) \/ GiveMaster(c)
      PROVE Goal
  BY <1>8 DEF AuthTry, AuthSucceeded, AuthFailed, GiveMaster, RoomStep
<1>9. ASSUME NEW mm \in Modes, CommandMasterMode(mm) \/ \E c \in Slots : SetMasterMode(c, mm)
      PROVE Goal
  BY <1>9 DEF SetMasterMode, CommandMasterMode, RoomStep
<1>10. ASSUME NEW c \in Slots, NEW val \in BOOLEAN, PauseGame(c, val) PROVE Goal
  BY <1>10 DEF PauseGame, RoomStep
<1>11. ASSUME NEW s \in Slots, NEW val \in BOOLEAN,
              CommandSpectate(s, val) \/ \E c \in Slots : Spectate(c, s, val)
       PROVE Goal
  BY <1>11 DEF Spectate, CommandSpectate, SetSpectator
<1>12. ASSUME NEW a \in Addrs, \/ CommandBan(a) \/ CommandPban(a) \/ CommandUnban(a)
                               \/ CommandBlacklist(a) \/ CommandUnblacklist(a)
                               \/ \E c \in Slots : Connect(c, a)
       PROVE Goal
  BY <1>12 DEF CommandBan, CommandPban, CommandUnban, CommandBlacklist, CommandUnblacklist,
               Connect, ListStep
<1>13. ASSUME \/ TakeMaster \/ ClearBans \/ ClearGbans \/ UNCHANGED vars
              \/ \E m \in Slots : KickIntervalPasses(m)
       PROVE Goal
  BY <1>13 DEF TakeMaster, ClearBans, ClearGbans, ListStep, RoomStep, KickIntervalPasses, vars
<1> HIDE DEF Goal
<1> QED BY <1>1, <1>2, <1>3, <1>4, <1>5, <1>6, <1>7, <1>8, <1>9, <1>10, <1>11, <1>12, <1>13 DEF Next

\* The last player who leaves, thrown out or not, takes the bans along.
THEOREM EmptyServerHasNoBans == Spec => BansClearWhenEmpty
<1>1. IInv /\ [Next]_vars =>
        [(clients # {} /\ clients' = {}) => lists'.bannedips = {}]_vars
  <2> SUFFICES ASSUME IInv, [Next]_vars, clients # {}, clients' = {} PROVE lists'.bannedips = {}
    OBVIOUS
  <2>1. PICK S \in SUBSET Slots : Closes(S)
    BY PlayersComeAndGo
  <2> QED BY <2>1 DEF Closes, BansAfterLeave, BanLists
<1> QED BY <1>1, InvHolds, PTL DEF Spec, BansClearWhenEmpty

\* A plain master inside his interval never gets rid of another player: the
\* kick is refused, or it is he who goes.
THEOREM OneVictimAtATime == Spec => OneVictimPerInterval
<1>1. [Next]_vars =>
        [\A m \in recent, v \in Occupied :
           (room.priv[m] = PRIV_MASTER /\ Kick(m, v)) => v \in Occupied']_vars
  <2> SUFFICES ASSUME NEW m \in recent, NEW v \in Occupied, room.priv[m] = PRIV_MASTER, Kick(m, v)
               PROVE  v \in Occupied'
    OBVIOUS
  <2>1. v # m /\ (KickRefused(m, v) \/ MassKick(m, v))
    BY DEF Kick, KickPlain
  <2>2. CASE KickRefused(m, v)
    BY <2>2 DEF KickRefused, Occupied
  <2>3. CASE MassKick(m, v)
    BY <2>1, <2>3 DEF MassKick, Eject, DropSlots, Forget, Occupied
  <2> QED BY <2>1, <2>2, <2>3
<1> QED BY <1>1, PTL DEF Spec, OneVictimPerInterval

-----------------------------------------------------------------------------
(* Sessions implements Mastership, when nobody commands from outside the   *)
(* game and commands name players only.                                    *)

\* Nobody holds the room, and everybody sees that.
Vacated(r) ==
  /\ r.currentmaster = NoSlot /\ r.mastermode = MM_OPEN /\ r.gamepaused = FALSE
  /\ \A d \in Slots : r.priv[d] = PRIV_NONE

\* The holder gives up: nothing of his rule is left.
LEMMA RelinquishVacates ==
  ASSUME TablesOK, NEW r \in Rooms, Sole(r, clients), NEW c \in Slots, r.priv[c] # PRIV_NONE
  PROVE  Vacated(Relinquish(r, c))
<1> DEFINE p == [r.priv EXCEPT ![c] = PRIV_NONE]
           q == [r EXCEPT !.priv = p, !.mastermode = MM_OPEN]
<1>1. /\ p \in [Slots -> Privileges] /\ \A d \in Slots : p[d] = PRIV_NONE
      /\ MM_OPEN \in Modes
  BY DEF Rooms, Privileges, Modes, Sole
<1>2. Relinquish(r, c) = Settle(q, NoSlot)
  BY DEF Relinquish
<1> HIDE DEF p
<1>3. q \in Rooms /\ q.priv = p /\ q.mastermode = MM_OPEN
  BY <1>1 DEF Rooms
<1> HIDE DEF q
<1>4. Admins(q) = {}
  BY <1>1, <1>3, AdminsAre DEF TablesOK
<1>5. Settle(q, NoSlot).gamepaused = FALSE
  BY <1>3, <1>4, SettleFields DEF Rooms
<1> QED BY <1>1, <1>2, <1>3, <1>5, SettleFields DEF Vacated

\* When the holder leaves, by himself or with others, the room is vacated.
LEMMA LeaveVacates ==
  ASSUME TablesOK, NEW r \in Rooms, Sole(r, clients), NEW S \in SUBSET Slots,
         r.currentmaster \in S
  PROVE  Vacated(Leave(r, S))
<1> DEFINE p == [c \in Slots |-> IF c \in S THEN PRIV_NONE ELSE r.priv[c]]
           without == [r EXCEPT !.priv = p]
           q == [without EXCEPT !.mastermode = MM_OPEN]
<1>1. p \in [Slots -> Privileges] /\ \A d \in Slots : p[d] = PRIV_NONE
  BY DEF Rooms, Privileges, Sole
<1>2. Leave(r, S) = Settle(q, NoSlot)
  BY DEF Leave, Sole
<1> HIDE DEF p
<1>3. without \in Rooms /\ without.priv = p
  BY <1>1 DEF Rooms
<1> HIDE DEF without
<1>4. q \in Rooms /\ q.priv = p /\ q.mastermode = MM_OPEN
  BY <1>3 DEF Rooms, Modes
<1> HIDE DEF q
<1>5. Admins(q) = {}
  BY <1>1, <1>4, AdminsAre DEF TablesOK
<1>6. Settle(q, NoSlot).gamepaused = FALSE
  BY <1>4, <1>5, SettleFields DEF Rooms
<1> QED BY <1>1, <1>2, <1>4, <1>6, SettleFields DEF Vacated

\* When others leave, the room stays as it is.
LEMMA LeaveKeeps ==
  ASSUME NEW r \in Rooms, Sole(r, clients), NEW S \in SUBSET Slots, r.currentmaster \notin S
  PROVE  Leave(r, S) = r
<1> DEFINE p == [c \in Slots |-> IF c \in S THEN PRIV_NONE ELSE r.priv[c]]
<1>1. p = r.priv
  BY DEF Rooms, Sole
<1>2. Leave(r, S) = [r EXCEPT !.priv = p]
  BY DEF Leave, Sole
<1> HIDE DEF p
<1> QED BY <1>1, <1>2 DEF Rooms

\* What is left of the pause after a successful claim.
LEMMA ClaimPause ==
  ASSUME TablesOK, NEW r \in Rooms, Sole(r, clients), NEW c \in clients,
         NEW pass \in BOOLEAN, NEW auth \in BOOLEAN, NEW noOpen \in BOOLEAN,
         MayClaim(r, c, pass, auth)
  PROVE  LET q == Claim(r, c, pass, auth, noOpen)
         IN /\ AdminPass /\ pass => q.priv[c] = PRIV_ADMIN /\ q.gamepaused = r.gamepaused
            /\ ~(AdminPass /\ pass) => q.priv[c] = PRIV_MASTER /\ q.gamepaused = FALSE
<1> DEFINE haspass == AdminPass /\ pass
           p == ClaimedPriv(r, c, haspass, auth)
           mm == IF noOpen \/ haspass THEN r.mastermode ELSE MM_OPEN
           q == [r EXCEPT !.priv = p, !.mastermode = mm]
<1>0. c \in Slots /\ clients \subseteq Slots
  BY DEF TablesOK
<1>1. p \in [Slots -> Privileges] /\ mm \in Modes
  BY DEF Rooms, Privileges, Modes, ClaimedPriv
<1>2. Claim(r, c, pass, auth, noOpen) = Settle(q, c)
  BY DEF Claim
<1>3. p[c] = IF haspass THEN PRIV_ADMIN ELSE PRIV_MASTER
  BY <1>0 DEF ClaimedPriv
<1>4. \A d \in clients \ {c} : p[d] = PRIV_NONE
  <2>1. haspass \/ \A d \in clients \ {c} : r.priv[d] # PRIV_NONE => auth /\ r.priv[d] <= PRIV_MASTER
    BY DEF MayClaim, Privileged
  <2> QED BY <1>0, <2>1 DEF ClaimedPriv
<1> HIDE DEF p, mm
<1>5. q \in Rooms /\ q.priv = p /\ q.gamepaused = r.gamepaused
  BY <1>1 DEF Rooms
<1> HIDE DEF q
<1>6. Admins(q) # {} <=> haspass
  BY <1>0, <1>3, <1>4, <1>5, AdminsAre
<1>7. Settle(q, c).gamepaused \in BOOLEAN /\ Settle(q, c).priv = p
  BY <1>0, <1>5, SettleFields DEF Rooms
<1>8. Settle(q, c).gamepaused <=> q.gamepaused /\ haspass
  BY <1>0, <1>5, <1>6, SettleFields
<1>9. q.gamepaused \in BOOLEAN
  BY <1>5 DEF Rooms
<1> QED BY <1>2, <1>3, <1>5, <1>7, <1>8, <1>9

\* A claim of c, or no change.
LEMMA ClaimMaps ==
  ASSUME GInv, ~ReachConnecting, NEW c \in clients,
         NEW pass \in BOOLEAN, NEW auth \in BOOLEAN,
         room' = Claim(room, c, pass, auth, FALSE), clients' = clients
  PROVE  Abs!TakeAdmin(c) \/ Abs!TakeMaster(c) \/ UNCHANGED Abs!absvars
<1>0. TablesOK /\ room \in Rooms /\ Sole(room, clients) /\ c \in Slots /\ c # NoSlot
  BY SlotsAssumption DEF GInv, IInv, RoomSound, Governed, TablesOK
<1>1. CASE ~MayClaim(room, c, pass, auth)
  <2>1. room' = room
    BY <1>1 DEF Claim
  <2> QED BY <2>1 DEF Abs!absvars
<1>2. CASE MayClaim(room, c, pass, auth)
  <2> DEFINE q == Claim(room, c, pass, auth, FALSE)
  <2>1. /\ q.currentmaster = c
        /\ AdminPass /\ pass => q.mastermode = room.mastermode
        /\ ~(AdminPass /\ pass) => q.mastermode = MM_OPEN
    <3>1. ASSUME NEW noOpen \in BOOLEAN
          PROVE LET k == Claim(room, c, pass, auth, noOpen)
                IN /\ k.currentmaster = c
                   /\ k.mastermode = IF noOpen \/ (AdminPass /\ pass)
                                     THEN room.mastermode ELSE MM_OPEN
      BY <1>0, <1>2, ClaimFields
    <3> QED BY <3>1
  <2>2. /\ AdminPass /\ pass => q.priv[c] = PRIV_ADMIN /\ q.gamepaused = room.gamepaused
        /\ ~(AdminPass /\ pass) => q.priv[c] = PRIV_MASTER /\ q.gamepaused = FALSE
    BY <1>0, <1>2, ClaimPause
  <2>0. room' = q
    OBVIOUS
  <2> HIDE DEF q
  <2>3. CASE AdminPass /\ pass
    BY <1>0, <2>0, <2>1, <2>2, <2>3 DEF Abs!TakeAdmin, Abs!Admin
  <2>4. CASE ~(AdminPass /\ pass)
    BY <1>0, <2>0, <2>1, <2>2, <2>4 DEF Abs!TakeMaster, Abs!Master, Abs!Open
  <2> QED BY <2>3, <2>4
<1> QED BY <1>1, <1>2

\* A vacated room, seen from outside.
LEMMA VacatedMaps ==
  ASSUME Vacated(room')
  PROVE  Abs!Vacant
BY DEF Vacated, Abs!Vacant, Abs!Open, Abs!None

\* setmaster(currentmaster, 0) vacates the room, or it was vacated before.
LEMMA DropCurrentVacates ==
  ASSUME GInv, ~ReachConnecting, ~Operator
  PROVE  /\ DropCurrent(room) \in Rooms /\ Vacated(DropCurrent(room))
         /\ room.currentmaster = NoSlot => DropCurrent(room) = room
<1>0. TablesOK /\ room \in Rooms /\ Sole(room, clients) /\ Held(room, clients)
  BY DEF GInv, IInv, RoomSound, Governed
<1>1. CASE room.currentmaster = NoSlot
  <2>1. DropCurrent(room) = room
    BY <1>0, <1>1, SlotsAssumption DEF DropCurrent, Occupied, TablesOK
  <2>2. \A d \in Slots : room.priv[d] = PRIV_NONE
    BY <1>0, <1>1, SlotsAssumption DEF Sole
  <2>3. room.mastermode = MM_OPEN
    BY <1>0, <2>2 DEF Held, Rooms, Modes, TablesOK
  <2>4. room.gamepaused = FALSE
    BY <1>0, <2>2 DEF GInv, IInv, RoomSound, TablesOK, Rooms
  <2> QED BY <1>0, <1>1, <2>1, <2>2, <2>3, <2>4 DEF Vacated
<1>2. CASE room.currentmaster # NoSlot
  <2>1. /\ room.currentmaster \in Slots /\ room.priv[room.currentmaster] # PRIV_NONE
        /\ room.currentmaster \in Occupied
    BY <1>0, <1>2 DEF Sole, Rooms, Occupied
  <2>2. DropCurrent(room) = Relinquish(room, room.currentmaster)
    BY <2>1 DEF DropCurrent
  <2>3. Relinquish(room, room.currentmaster) \in Rooms
    BY <1>0, <2>1, RelinquishSound DEF GInv, IInv, RoomSound
  <2> QED BY <1>0, <1>2, <2>1, <2>2, <2>3, RelinquishVacates
<1> QED BY <1>1, <1>2

\* givemaster: the old holder goes and c follows, or nobody.
LEMMA GiveMasterMaps ==
  ASSUME GInv, ~ReachConnecting, ~Operator, NEW c \in Slots, GiveMaster(c)
  PROVE  Abs!TakeMaster(c) \/ Abs!Release \/ UNCHANGED Abs!absvars
<1> DEFINE r == DropCurrent(room)
<1>0. /\ TablesOK /\ c \in clients /\ c # NoSlot /\ clients' = clients
      /\ room' = Claim(r, c, FALSE, FALSE, TRUE)
  BY SlotsAssumption DEF GInv, IInv, GiveMaster, RoomStep, Reachable
<1>1. r \in Rooms /\ Vacated(r) /\ (room.currentmaster = NoSlot => r = room)
  BY DropCurrentVacates
<1> HIDE DEF r
<1>2. Sole(r, clients)
  BY <1>1, SlotsAssumption DEF Vacated, Sole
<1>3. CASE MayClaim(r, c, FALSE, FALSE)
  <2>1. room'.currentmaster = c /\ room'.mastermode = MM_OPEN
    BY <1>0, <1>1, <1>3, ClaimFields DEF Vacated
  <2>2. room'.priv[c] = PRIV_MASTER /\ room'.gamepaused = FALSE
    BY <1>0, <1>1, <1>2, <1>3, ClaimPause
  <2> QED BY <1>0, <2>1, <2>2 DEF Abs!TakeMaster, Abs!Master, Abs!Open
<1>4. CASE ~MayClaim(r, c, FALSE, FALSE)
  <2>1. room' = r
    BY <1>0, <1>4 DEF Claim
  <2>2. CASE room.currentmaster = NoSlot
    BY <1>0, <1>1, <2>1, <2>2 DEF Abs!absvars
  <2>3. CASE room.currentmaster # NoSlot
    BY <1>0, <1>1, <2>1, <2>3, VacatedMaps DEF Abs!Release
  <2> QED BY <2>2, <2>3
<1> QED BY <1>3, <1>4

\* Closing slots: the holder is among those who go, or the room stays; with a
\* new map the match resumes.
LEMMA ClosesMaps ==
  ASSUME GInv, ~ReachConnecting, ~Operator, NEW S \in SUBSET Slots, Closes(S)
  PROVE  Abs!Go(S) \/ Abs!Freeze(FALSE)
<1>0. TablesOK /\ room \in Rooms /\ Sole(room, clients)
  BY DEF GInv, IInv, RoomSound, Governed
<1>1. PICK q \in Rooms : /\ SameRule(q, room)
                         /\ q.gamepaused = room.gamepaused
                              \/ (q.gamepaused = FALSE /\ S \in {{}, Occupied})
                         /\ clients' = clients \ S /\ room' = Leave(q, S)
  BY DEF Closes
<1>2. Sole(q, clients)
  BY <1>0, <1>1 DEF Sole, SameRule
<1>3. CASE room.currentmaster \in S
  <2>1. Vacated(room')
    BY <1>0, <1>1, <1>2, <1>3, LeaveVacates DEF SameRule
  <2> QED BY <1>1, <1>3, <2>1, VacatedMaps DEF Abs!Go
<1>4. CASE room.currentmaster \notin S
  <2>1. room' = q
    BY <1>1, <1>2, <1>4, LeaveKeeps DEF SameRule
  <2>2. CASE q.gamepaused = room.gamepaused
    BY <1>1, <1>4, <2>1, <2>2 DEF Abs!Go, SameRule
  <2>3. CASE q.gamepaused = FALSE /\ S = {}
    BY <1>1, <2>1, <2>3 DEF Abs!Freeze, SameRule
  <2>4. CASE q.gamepaused = FALSE /\ S = Occupied /\ q.gamepaused # room.gamepaused
    <3>1. \E c \in clients : room.priv[c] = PRIV_ADMIN
      BY <1>0, <2>4 DEF GInv, IInv, RoomSound, Rooms
    <3>2. room.currentmaster \in Occupied
      BY <1>0, <3>1 DEF Sole, TablesOK, Occupied
    <3> QED BY <1>4, <2>4, <3>2
  <2> QED BY <1>1, <2>2, <2>3, <2>4
<1> QED BY <1>3, <1>4

\* Every step of Sessions is a step of Mastership or none.
LEMMA NextMaps ==
  ASSUME ~Operator, ~ReachConnecting
  PROVE  GInv /\ [Next]_vars => [Abs!AbsNext]_Abs!absvars
<1> DEFINE Goal == Abs!AbsNext \/ UNCHANGED Abs!absvars
<1> SUFFICES ASSUME GInv, [Next]_vars PROVE Goal
  OBVIOUS
<1>0. TablesOK /\ room \in Rooms /\ Sole(room, clients) /\ IInv /\ lists \in BanLists
  BY DEF GInv, IInv, RoomSound, Governed, TablesOK, BanLists
<1>1. ASSUME clients' = clients, room' = room PROVE Goal
  BY <1>1 DEF Abs!absvars
<1>2. ASSUME NEW c \in Slots, clients' = clients \cup {c}, room' = room PROVE Goal
  BY <1>2 DEF Abs!AbsNext, Abs!Enter
<1>3. ASSUME NEW S \in SUBSET Slots, Closes(S) PROVE Goal
  BY <1>3, ClosesMaps DEF Abs!AbsNext
<1>4. ASSUME NEW c \in Slots, Abs!TakeAdmin(c) \/ Abs!TakeMaster(c) PROVE Goal
  BY <1>4 DEF Abs!AbsNext
<1>5. ASSUME Abs!Release PROVE Goal
  BY <1>5 DEF Abs!AbsNext
<1>6. ASSUME NEW c \in Slots, NEW val \in BOOLEAN, NEW pass \in BOOLEAN, SetMaster(c, val, pass)
      PROVE Goal
  <2>1. c \in clients /\ clients' = clients
    BY <1>6 DEF SetMaster, RoomStep
  <2>2. CASE val
    <3>1. room' = Claim(room, c, pass, FALSE, FALSE)
      BY <1>6, <2>2 DEF SetMaster, RoomStep
    <3> QED BY <1>4, <2>1, <3>1, ClaimMaps DEF Goal
  <2>3. CASE ~val /\ room.priv[c] = PRIV_NONE
    BY <1>1, <1>6, <2>3 DEF SetMaster, RoomStep, Relinquish
  <2>4. CASE ~val /\ room.priv[c] # PRIV_NONE
    <3>1. room' = Relinquish(room, c)
      BY <1>6, <2>4 DEF SetMaster, RoomStep
    <3>2. room.currentmaster # NoSlot
      BY <1>0, <2>4, SlotsAssumption DEF Sole
    <3>3. Abs!Release
      BY <1>0, <2>1, <2>4, <3>1, <3>2, RelinquishVacates, VacatedMaps DEF Abs!Release
    <3> QED BY <1>5, <3>3
  <2> QED BY <2>2, <2>3, <2>4
<1>7. ASSUME NEW c \in Slots, AuthTry(c) \/ AuthFailed(c) PROVE Goal
  BY <1>1, <1>7 DEF AuthTry, AuthFailed, RoomStep
<1>8. ASSUME NEW c \in Slots, AuthSucceeded(c) PROVE Goal
  <2>1. c \in clients /\ clients' = clients /\ room' = Claim(room, c, FALSE, TRUE, FALSE)
    BY <1>0, <1>8 DEF AuthSucceeded, RoomStep, TablesOK
  <2> QED BY <1>4, <2>1, ClaimMaps DEF Goal
<1>9. ASSUME NEW c \in Slots, GiveMaster(c) PROVE Goal
  BY <1>4, <1>5, <1>9, GiveMasterMaps DEF Goal
<1>10. ASSUME TakeMaster PROVE Goal
  <2>1. clients' = clients /\ room' = DropCurrent(room)
    BY <1>10 DEF TakeMaster, RoomStep
  <2>2. CASE room.currentmaster = NoSlot
    BY <1>1, <2>1, <2>2, DropCurrentVacates
  <2>3. CASE room.currentmaster # NoSlot
    BY <1>5, <2>1, <2>3, DropCurrentVacates, VacatedMaps DEF Abs!Release
  <2> QED BY <2>2, <2>3
<1>11. ASSUME NEW mm \in Modes, clients' = clients, room' = WithMode(room, mm),
              \E d \in clients : room.priv[d] # PRIV_NONE
       PROVE  Goal
  <2>1. /\ room'.priv = room.priv /\ room'.currentmaster = room.currentmaster
        /\ room'.mastermode = mm /\ room'.gamepaused = room.gamepaused
    <3> DEFINE g == IF mm >= MM_PRIVATE THEN {addr[d] : d \in clients} ELSE {}
    <3>1. room' = [room EXCEPT !.mastermode = mm, !.allowedips = g]
      BY <1>11 DEF WithMode
    <3> HIDE DEF g
    <3> QED BY <1>0, <3>1 DEF Rooms
  <2>2. room.currentmaster # NoSlot
    BY <1>0, <1>11, SlotsAssumption DEF Sole, TablesOK
  <2>3. Abs!Restrict(mm)
    BY <1>11, <2>1, <2>2 DEF Abs!Restrict
  <2> QED BY <2>3 DEF Abs!AbsNext, Abs!Modes, Modes
<1>12. ASSUME NEW mm \in Modes, CommandMasterMode(mm) \/ \E c \in Slots : SetMasterMode(c, mm)
       PROVE Goal
  <2>1. clients' = clients /\ room' = WithMode(room, mm)
    BY <1>12 DEF CommandMasterMode, SetMasterMode, RoomStep
  <2>2. \E d \in clients : room.priv[d] # PRIV_NONE
    BY <1>12 DEF CommandMasterMode, SetMasterMode, Commanding, Admins, Privileged
  <2> QED BY <1>11, <2>1, <2>2
<1>13. ASSUME NEW c \in Slots, NEW val \in BOOLEAN, PauseGame(c, val) PROVE Goal
  <2>1. /\ clients' = clients /\ room'.gamepaused = val /\ room'.priv = room.priv
        /\ room'.mastermode = room.mastermode /\ room'.currentmaster = room.currentmaster
    BY <1>0, <1>13 DEF PauseGame, RoomStep, Rooms
  <2>2. room.currentmaster = c /\ c # NoSlot /\ room.priv[c] = PRIV_ADMIN
    BY <1>0, <1>13, AdminsAre, SlotsAssumption DEF PauseGame, Sole, TablesOK
  <2>3. Abs!Freeze(val)
    BY <2>1, <2>2 DEF Abs!Freeze, Abs!Admin
  <2> QED BY <2>3 DEF Abs!AbsNext
<1>14. ASSUME NEW s \in Slots, NEW val \in BOOLEAN,
              CommandSpectate(s, val) \/ \E c \in Slots : Spectate(c, s, val)
       PROVE Goal
  BY <1>1, <1>14 DEF Spectate, CommandSpectate, SetSpectator
<1>15. ASSUME NEW a \in Addrs, \/ CommandBan(a) \/ CommandPban(a) \/ CommandUnban(a)
                               \/ CommandBlacklist(a) \/ CommandUnblacklist(a)
                               \/ \E c \in Slots : Connect(c, a)
       PROVE Goal
  BY <1>1, <1>15 DEF CommandBan, CommandPban, CommandUnban, CommandBlacklist,
               CommandUnblacklist, Connect, ListStep
<1>16. ASSUME \/ ClearBans \/ ClearGbans \/ UNCHANGED vars
              \/ \E m \in Slots : KickIntervalPasses(m)
       PROVE Goal
  BY <1>1, <1>16 DEF ClearBans, ClearGbans, ListStep, KickIntervalPasses, vars
<1>17. ASSUME NEW c \in Slots, NEW pw \in {"none", "server", "admin"}, Join(c, pw) PROVE Goal
  BY <1>0, <1>2, <1>3, <1>17, DropCloses DEF Join
<1>18. ASSUME NEW c \in Slots, Disconnect(c) PROVE Goal
  BY <1>0, <1>3, <1>18, DropCloses DEF Disconnect
<1>19. ASSUME NEW m \in Slots, NEW v \in Slots, Kick(m, v) PROVE Goal
  BY <1>0, <1>1, <1>3, <1>19, KickCloses
<1>20. ASSUME NEW v \in Slots, CommandKick(v) PROVE Goal
  BY <1>0, <1>3, <1>20, EjectCloses DEF CommandKick
<1>21. ASSUME NEW a \in Addrs, AddGban(a) PROVE Goal
  BY <1>0, <1>3, <1>21, GbanCloses
<1>22. ASSUME NEW mp \in BOOLEAN, ChangeMap(mp) PROVE Goal
  BY <1>0, <1>3, <1>22, ChangeMapCloses
<1> HIDE DEF Goal
<1> QED BY <1>6, <1>7, <1>8, <1>9, <1>10, <1>12, <1>13, <1>14, <1>15, <1>16, <1>17, <1>18,
           <1>19, <1>20, <1>21, <1>22 DEF Next

\* What the players may rely on: one holder at a time, who plays, and neither
\* restriction nor pause outlives his mastership.
THEOREM KeepsMastership ==
  ASSUME ~Operator, ~ReachConnecting
  PROVE  Spec => ImplementsMastership
<1>1. Init => Abs!AbsInit
  BY DEF Init, Abs!AbsInit, Abs!None, Abs!Open
<1>2. GInv /\ [Next]_vars => [Abs!AbsNext]_Abs!absvars
  BY NextMaps
<1> QED BY <1>1, <1>2, GovernmentHolds, PTL DEF Spec, ImplementsMastership, Abs!AbsSpec
=============================================================================
