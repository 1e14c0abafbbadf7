------------------------------ MODULE Spawning ------------------------------
(***************************************************************************)
(* How one player gets his lives, src/fpsgame/server.cpp.  The server      *)
(* sends N_SPAWNSTATE with a new lifesequence to the client that plays him *)
(* and brings him to life when that client answers N_SPAWN.  The player is *)
(* a human, who is played by himself, or a bot, whose owner may change     *)
(* while messages travel.  The messages are reliable and ordered in each   *)
(* direction (channel 1 of ENet); what the client program does with them   *)
(* is external to the repository and kept to the replies the server needs. *)
(***************************************************************************)
EXTENDS Integers, Sequences

CONSTANTS
  Owners,    \* clients that may play the player
  LifeMod,   \* lifesequence is counted modulo this number, 128 in the code; no
             \* message stays on its way for as many lives
  MaxChanges \* bound: deaths, map changes, spectating and handovers in a
             \* behaviour

VARIABLES
  isbot,   \* is he a bot?
  player,  \* what the server keeps, see Players
  owner,   \* ownernum; a human's own client
  reinit,  \* aireinit == 2: the owner has not been told yet
  down,    \* messages on the way to each owner
  up,      \* messages on the way from each owner
  plays,   \* what each owner believes: "no", "dead", "alive"
  changes  \* counts against MaxChanges

vars == <<isbot, player, owner, reinit, down, up, plays, changes>>

Players == [state: {"alive", "dead", "spectator"},
            lastdeath: BOOLEAN,     \* lastdeath != 0
            lastspawn: BOOLEAN,     \* lastspawn >= 0: N_SPAWN is expected
            lifesequence: 0 .. LifeMod - 1,
            known: BOOLEAN]         \* have others been sent lifesequence?

\* A message carries the lifesequence it is about; `latest` marks the last
\* N_SPAWNSTATE sent and the answer to it.
Message(kind, ls, latest) == [kind |-> kind, ls |-> ls, latest |-> latest]
Notice(kind) == Message(kind, 0, FALSE)
Messages == [kind: {"SPAWNSTATE", "DIED", "INITAI", "GIVEN"},
             ls: 0 .. LifeMod - 1, latest: BOOLEAN]
Replies == [kind: {"SPAWN", "TRYSPAWN"}, ls: 0 .. LifeMod - 1, latest: BOOLEAN]

TypeOK ==
  /\ isbot \in BOOLEAN /\ player \in Players /\ owner \in Owners /\ reinit \in BOOLEAN
  /\ down \in [Owners -> Seq(Messages)] /\ up \in [Owners -> Seq(Replies)]
  /\ plays \in [Owners -> {"no", "dead", "alive"}]
  /\ changes \in 0..MaxChanges

-----------------------------------------------------------------------------
(* Helpers of the server.                                                  *)

\* Mutant: a spawn that was never answered is still expected.
RespawnedStillExpects(p) == [p EXCEPT !.lastdeath = FALSE]

\* gamestate::respawn()
Respawned(p) == [p EXCEPT !.lastdeath = FALSE, !.lastspawn = FALSE]

\* spawnstate() and the end of sendspawn()
WithSpawn(p) ==
  [p EXCEPT !.lifesequence = (@ + 1) % LifeMod, !.lastspawn = TRUE, !.known = FALSE]

Aged(queue) == [i \in DOMAIN queue |-> [queue[i] EXCEPT !.latest = FALSE]]

\* sendspawn() to the owner o, after the notices that precede it, while the
\* replies are on their way.
SendSpawn(p, o, notices, replies) ==
  /\ player' = WithSpawn(p)
  /\ up' = [c \in Owners |-> Aged(replies[c])]
  /\ down' = [c \in Owners |->
       IF c # o THEN Aged(down[c]) \o notices[c]
       ELSE Aged(down[c]) \o notices[c]
              \o <<Message("SPAWNSTATE", WithSpawn(p).lifesequence, TRUE)>>]

NoNotices == [c \in Owners |-> <<>>]

\* Everybody is told, but only who may play him needs to know.
Speakers == IF isbot THEN Owners ELSE {owner}
Announce(kind) ==
  down' = [c \in Owners |-> IF c \in Speakers THEN Append(down[c], Notice(kind))
                            ELSE down[c]]

Change == changes < MaxChanges /\ changes' = changes + 1

\* A human is welcomed with a spawn state, a bot begins with its announcement.
Init ==
  /\ isbot \in BOOLEAN
  /\ owner \in Owners
  /\ reinit = isbot
  /\ LET fresh == [state |-> "dead", lastdeath |-> FALSE,
                   lastspawn |-> FALSE, lifesequence |-> 0, known |-> FALSE] IN
     /\ player = IF isbot THEN fresh ELSE WithSpawn(fresh)
     /\ down = [c \in Owners |->
          IF isbot \/ c # owner THEN <<>>
          ELSE <<Message("SPAWNSTATE", WithSpawn(fresh).lifesequence, TRUE)>>]
  /\ up = [c \in Owners |-> <<>>]
  /\ plays = [c \in Owners |-> IF ~isbot /\ c = owner THEN "dead" ELSE "no"]
  /\ changes = 0

-----------------------------------------------------------------------------
(* Messages reach the server.                                              *)

Arrives(o, kind) == up[o] # <<>> /\ Head(up[o]).kind = kind

\* Mutant: the sequence number is not looked at.
HonoursAny(o, m) ==
  o = owner /\ player.state \in {"alive", "dead"} /\ player.lastspawn

\* The guard of N_SPAWN; N_FROMAI lets only the owner speak for a bot.
Honours(o, m) ==
  /\ o = owner
  /\ player.state \in {"alive", "dead"}
  /\ m.ls = player.lifesequence
  /\ player.lastspawn

\* N_SPAWN
RecvSpawn(o) ==
  /\ Arrives(o, "SPAWN")
  /\ up' = [up EXCEPT ![o] = Tail(@)]
  /\ player' = IF Honours(o, Head(up[o]))
               THEN [player EXCEPT !.lastspawn = FALSE, !.state = "alive", !.known = TRUE]
               ELSE player
  /\ UNCHANGED <<isbot, owner, reinit, down, plays, changes>>

\* N_TRYSPAWN; cleartimedevents() is in the module of the events.
RecvTrySpawn(o) ==
  /\ Arrives(o, "TRYSPAWN")
  /\ LET rest == [up EXCEPT ![o] = Tail(@)] IN
     IF o = owner /\ player.state = "dead" /\ ~player.lastspawn
     THEN SendSpawn(IF player.lastdeath THEN Respawned(player) ELSE player, o,
                    NoNotices, rest)
     ELSE up' = rest /\ UNCHANGED <<player, down>>
  /\ UNCHANGED <<isbot, owner, reinit, plays, changes>>

-----------------------------------------------------------------------------
(* Other events of the server.                                             *)

\* dodamage() with a deadly outcome.  A hit names the life it is meant for,
\* so the shooter must have been told of this life.  respawn() is left to
\* N_TRYSPAWN.
Kill ==
  /\ Change
  /\ player.state = "alive" /\ player.known
  /\ player' = [player EXCEPT !.state = "dead", !.lastdeath = TRUE]
  /\ Announce("DIED")
  /\ UNCHANGED <<isbot, owner, reinit, up, plays>>

\* suicide()
Suicide ==
  /\ Change
  /\ player.state = "alive"
  /\ player' = Respawned([player EXCEPT !.state = "dead"])
  /\ Announce("DIED")
  /\ UNCHANGED <<isbot, owner, reinit, up, plays>>

\* spectator(1, ...): the living commit suicide first.
Spectate ==
  /\ ~isbot /\ Change
  /\ player.state # "spectator"
  /\ player' = [IF player.state = "alive" THEN Respawned(player) ELSE player
                  EXCEPT !.state = "spectator"]
  /\ UNCHANGED <<isbot, owner, reinit, down, up, plays>>

\* spectator(0, ...)
Unspectate ==
  /\ player.state = "spectator"
  /\ player' = Respawned([player EXCEPT !.state = "dead"])
  /\ Announce("DIED")
  /\ UNCHANGED <<isbot, owner, reinit, up, plays, changes>>

\* changemap() for a human: mapchange() and sendspawn().  Bots are deleted.
MapChange ==
  /\ ~isbot /\ Change
  /\ IF player.state = "spectator"
     THEN player' = Respawned(player) /\ UNCHANGED <<down, up>>
     ELSE SendSpawn(Respawned([player EXCEPT !.state = "dead"]), owner, NoNotices, up)
  /\ UNCHANGED <<isbot, owner, reinit, plays>>

\* shiftai(): from now on another client speaks for the bot.
Shift(o) ==
  /\ isbot /\ Change
  /\ o # owner
  /\ owner' = o
  /\ reinit' = TRUE
  /\ UNCHANGED <<isbot, player, down, up, plays>>

\* reinitai(): all are told of the owner, and the bot starts over: alive with
\* a new spawn state, dead with N_RESUME.
Reinit ==
  /\ reinit
  /\ reinit' = FALSE
  /\ LET told == [c \in Owners |->
                    <<Notice(IF c = owner THEN "GIVEN" ELSE "INITAI")>>] IN
     IF player.state = "alive" THEN SendSpawn(Respawned(player), owner, told, up)
     ELSE /\ player' = Respawned(player)
          /\ down' = [c \in Owners |-> down[c] \o told[c]]
          /\ UNCHANGED up
  /\ UNCHANGED <<isbot, owner, plays, changes>>

\* A client connects: N_RESUME tells it the lifesequence of everybody.
Welcome ==
  /\ ~player.known
  /\ player' = [player EXCEPT !.known = TRUE]
  /\ UNCHANGED <<isbot, owner, reinit, down, up, plays, changes>>

-----------------------------------------------------------------------------
(* The client program.                                                     *)

\* It answers every N_SPAWNSTATE, and knows whom it plays and who is dead.
Read(o) ==
  /\ down[o] # <<>>
  /\ LET m == Head(down[o]) IN
     /\ plays' = [plays EXCEPT ![o] =
          CASE m.kind = "SPAWNSTATE" -> "alive"
            [] m.kind = "INITAI"     -> "no"
            [] m.kind = "GIVEN"      -> "dead"
            [] m.kind = "DIED"       -> IF @ = "no" THEN "no" ELSE "dead"]
     /\ up' = IF m.kind = "SPAWNSTATE"
              THEN [up EXCEPT ![o] = Append(@, Message("SPAWN", m.ls, m.latest))] ELSE up
  /\ down' = [down EXCEPT ![o] = Tail(@)]
  /\ UNCHANGED <<isbot, player, owner, reinit, changes>>

\* It asks for a life while the player is dead, one question at a time.
Ask(o) ==
  /\ plays[o] = "dead"
  /\ up[o] = <<>>
  /\ up' = [up EXCEPT ![o] = <<Notice("TRYSPAWN")>>]
  /\ UNCHANGED <<isbot, player, owner, reinit, down, plays, changes>>

OwnerStep(o) == RecvSpawn(o) \/ RecvTrySpawn(o) \/ Read(o) \/ Ask(o)

Next ==
  \/ \E o \in Owners : OwnerStep(o) \/ Shift(o)
  \/ Kill \/ Suicide \/ Spectate \/ Unspectate \/ MapChange \/ Reinit \/ Welcome

Spec == Init /\ [][Next]_vars

\* ENet delivers reliable messages, checkai() announces owners, and a client
\* that plays somebody dead asks again.
Fairness ==
  /\ WF_vars(Reinit)
  /\ \A o \in Owners : /\ WF_vars(RecvSpawn(o) \/ RecvTrySpawn(o))
                       /\ WF_vars(Read(o)) /\ WF_vars(Ask(o))
FairSpec == Spec /\ Fairness

-----------------------------------------------------------------------------
(* Properties.                                                             *)

\* An N_SPAWN that is honoured answers the last N_SPAWNSTATE, not one from
\* before a map change, a handover or an earlier life.
OldAnswersAreRefused ==
  /\ TypeOK
  /\ \A o \in Owners : Arrives(o, "SPAWN") /\ Honours(o, Head(up[o])) => Head(up[o]).latest

Expected(queue) == \E i \in DOMAIN queue : queue[i].latest

\* While the server refuses N_TRYSPAWN to a dead player because it waits for
\* his N_SPAWN, that answer or the question to it is on the way.
WaitsForSomething ==
  player.state = "dead" /\ player.lastspawn /\ ~reinit =>
    Expected(down[owner]) \/ Expected(up[owner])

\* "don't issue respawn yet until DEATHMILLIS has elapsed", says dodamage():
\* who was killed does not come back before respawn() cleared lastdeath.
RespawnWaits ==
  [][player.state = "dead" /\ player.lastdeath => player'.state # "alive"]_vars

\* Whoever is dead and stays in the game gets to play again.
TheDeadComeBack == player.state = "dead" ~> player.state # "dead"
=============================================================================
