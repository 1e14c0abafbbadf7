------------------------------- MODULE Events -------------------------------
(***************************************************************************)
(* The queue of game events of one client, src/fpsgame/server.cpp: shots,  *)
(* explosions and suicides wait in clientinfo::events, timed ones until    *)
(* the game clock reaches the time the client's own clock gives them.      *)
(* Projectiles are rockets; grenades are kept in the same way.  Pickups,   *)
(* which need the items of the map, and coop edit are left out.            *)
(***************************************************************************)
EXTENDS Integers, Sequences, SequencesExt

CONSTANTS
  QueueLimit,  \* 100: addevent() drops an event beyond it
  ListSize,    \* 8: projectilestate<8>
  Delay,       \* attackdelay of each gun
  DEATHMILLIS, \* how long the dead go on shooting
  GameLimit,   \* gamelimit of a timed mode
  MaxTime,     \* bound: gamemillis, whose unit is coarser than a millisecond
  MaxStamp,    \* bound: a client's time
  MaxLives     \* bound: spawn states sent on one map

Guns == {"fist", "rocket"}

ASSUME SizeAssumption == QueueLimit \in Nat /\ ListSize \in Nat \ {0}
ASSUME TimeAssumption ==
  /\ Delay \in [Guns -> Nat \ {0}] /\ DEATHMILLIS \in Nat /\ GameLimit \in Nat
  /\ MaxTime \in Nat /\ MaxStamp \in Nat /\ MaxLives \in Nat \ {0}

VARIABLES
  now,     \* gamemillis
  player,  \* clientinfo and its gamestate, see Players
  clock,   \* the client's own time as of its last message
  loading  \* the client has not read the last N_MAPCHANGE

vars == <<now, player, clock, loading>>

Stamps == 0 .. MaxStamp

\* gameoffset while timesync is FALSE and nothing reads it
Unsynced == MaxTime + 1

\* History: `life` is the lifesequence the player had when the event came.
Shot(gun, id, millis, life) ==
  [kind |-> "shot", gun |-> gun, id |-> id, millis |-> millis, life |-> life]
Explosion(id, millis) == [kind |-> "explode", id |-> id, millis |-> millis]
Suicide(life) == [kind |-> "suicide", life |-> life]

Timed(e) == e.kind \in {"shot", "explode"}

Events == {Shot(g, id, t, l) : g \in Guns, id \in Stamps,
                               t \in -MaxStamp .. MaxTime + MaxStamp, l \in 0 .. MaxLives}
     \cup {Explosion(id, t) : id \in Stamps, t \in -MaxStamp .. MaxTime + MaxStamp}
     \cup {Suicide(l) : l \in 0 .. MaxLives}

States == {"alive", "dead", "spectator"}

\* The last two are history: the rockets launched on this map less those that
\* blew up, by id; and when the last spawn state was sent, put off by the delay
\* of each rocket launched since.
Players ==
  [state: States, lastdeath: 0 .. MaxTime,
   expected: BOOLEAN,           \* lastspawn >= 0
   life: 0 .. MaxLives,         \* lifesequence
   events: {q \in Seq(Events) : Len(q) <= QueueLimit + 1},
   gameoffset: -MaxStamp .. Unsynced,
   lastevent: Nat, lastshot: Nat,
   gunwait: Nat,
   armed: BOOLEAN,              \* ammunition for rockets
   rockets: {q \in Seq(Stamps) : Len(q) <= ListSize},
   air: [Stamps -> Int], due: Nat]

TypeOK ==
  /\ now \in 0 .. MaxTime
  /\ player \in Players
  /\ clock \in Stamps /\ loading \in BOOLEAN

-----------------------------------------------------------------------------
(* Lives.                                                                  *)

\* gamestate::respawn()
Respawned(p) ==
  [p EXCEPT !.lastdeath = 0, !.expected = FALSE, !.lastshot = 0, !.gunwait = 0,
            !.armed = FALSE]

\* sendspawn() at time t: ammunition comes with the spawn state, and the
\* modes modelled are those in which items add none for the launcher.
WithSpawn(p, t) ==
  [p EXCEPT !.life = @ + 1, !.armed = TRUE, !.expected = TRUE, !.due = t]

\* suicide()
Suicided(p) == IF p.state = "alive" THEN Respawned([p EXCEPT !.state = "dead"]) ELSE p

\* gamestate::isalive()
IsAlive(p, t) ==
  \/ p.state = "alive"
  \/ p.state = "dead" /\ t - p.lastdeath <= DEATHMILLIS

\* gamestate::waitexpired()
WaitExpired(p, t) == t - p.lastshot >= p.gunwait

-----------------------------------------------------------------------------
(* projectilestate                                                         *)

AddRocket(list, id) == IF Len(list) >= ListSize THEN <<id>> ELSE Append(list, id)

\* Mutant: what exploded stays in the list.
RemoveRocketNever(list, id) == list

\* The last of the list takes the place of the first that has this id.
RemoveRocket(list, id) ==
  LET i == SelectInSeq(list, LAMBDA r : r = id) IN
  Front([list EXCEPT ![i] = Last(list)])

-----------------------------------------------------------------------------
(* Events are processed at time t.                                         *)

\* The conditions of shotevent::process()
MayFire(p, e, t) ==
  /\ IsAlive(p, t)
  /\ e.millis - p.lastshot >= p.gunwait
  /\ e.gun = "rocket" => p.armed

\* shotevent::process(); there are more rockets than a life can fire.
Fired(p, e, t) ==
  IF ~MayFire(p, e, t) THEN p
  ELSE LET q == [p EXCEPT !.lastshot = e.millis, !.gunwait = Delay[e.gun]] IN
       IF e.gun = "fist" THEN q
       ELSE [q EXCEPT !.rockets = AddRocket(@, e.id), !.air[e.id] = q.air[e.id] + 1,
                      !.due = @ + Delay[e.gun]]

\* explodeevent::process(); whom it kills is left to Kill.
Exploded(p, e) ==
  IF ~Contains(p.rockets, e.id) THEN p
  ELSE [p EXCEPT !.rockets = RemoveRocket(@, e.id), !.air[e.id] = p.air[e.id] - 1]

\* process() of each kind
Processed(p, e, t) ==
  CASE e.kind = "shot"    -> Fired(p, e, t)
    [] e.kind = "explode" -> Exploded(p, e)
    [] e.kind = "suicide" -> Suicided(p)

\* timedevent::flush() and gameevent::flush(): a timed event that is older
\* than one before it is not processed.
Flush(p, e, t) ==
  IF ~Timed(e) THEN Processed(p, e, t)
  ELSE IF e.millis < p.lastevent THEN p
  ELSE Processed([p EXCEPT !.lastevent = e.millis], e, t)

Waits(e, fmillis) == Timed(e) /\ e.millis > fmillis

\* The player when the first n of his events were flushed
Flushed(p, n, t) ==
  LET after[k \in 0 .. n] == IF k = 0 THEN p ELSE Flush(after[k - 1], p.events[k], t)
  IN  after[n]

\* flushevents(): in order, up to the first event that has to wait.
FlushEvents(p, fmillis, t) ==
  LET first == SelectInSeq(p.events, LAMBDA e : Waits(e, fmillis))
      n     == IF first = 0 THEN Len(p.events) ELSE first - 1
  IN  [Flushed(p, n, t) EXCEPT !.events = SubSeq(p.events, n + 1, Len(p.events))]

\* The events of q that are keepable()
Keepable(q) ==
  LET kept[k \in 0 .. Len(q)] ==
        IF k = 0 THEN <<>>
        ELSE IF q[k].kind = "explode" THEN Append(kept[k - 1], q[k]) ELSE kept[k - 1]
  IN  kept[Len(q)]

\* Mutants: the offset survives into the next life; so do shots.
ClearTimedKeepsSync(p) == [p EXCEPT !.events = Keepable(@)]
ClearNothing(p) == [p EXCEPT !.gameoffset = Unsynced]

\* cleartimedevents(): explosions stay.
ClearTimedEvents(p) == [p EXCEPT !.events = Keepable(@), !.gameoffset = Unsynced]

-----------------------------------------------------------------------------
(* Events arrive.                                                          *)

\* clientinfo::addevent()
AddEvent(p, e) ==
  IF p.state = "spectator" \/ Len(p.events) > QueueLimit THEN p
  ELSE [p EXCEPT !.events = Append(@, e)]

MustSync(p) == p.gameoffset = Unsynced \/ (p.events = <<>> /\ WaitExpired(p, now))

\* geteventmillis(): the player it leaves, and the time it gives a stamp.
Synced(p, stamp) ==
  IF MustSync(p) THEN [p EXCEPT !.gameoffset = now - stamp] ELSE p
EventMillis(p, stamp) == Synced(p, stamp).gameoffset + stamp

\* A client's time does not run backwards before it loads the next map.
Stamp(c) == clock <= c /\ clock' = c

\* N_SHOOT; the id of a shot is its stamp.
Shoot(g, c) ==
  /\ Stamp(c)
  /\ player' = AddEvent(Synced(player, c), Shot(g, c, EventMillis(player, c), player.life))
  /\ UNCHANGED <<now, loading>>

\* N_EXPLODE
Explode(id, c) ==
  /\ Stamp(c)
  /\ player' = AddEvent(Synced(player, c), Explosion(id, EventMillis(player, c)))
  /\ UNCHANGED <<now, loading>>

\* N_SUICIDE
SendSuicide ==
  /\ player' = AddEvent(player, Suicide(player.life))
  /\ UNCHANGED <<now, clock, loading>>

-----------------------------------------------------------------------------
(* Lives begin and end.  A client asks for a life, and answers that it has *)
(* one, when it has read the map it is for.                                *)

\* N_TRYSPAWN: events are processed as if the time of dying were over.
TrySpawned(p) ==
  WithSpawn(ClearTimedEvents(
    IF p.lastdeath # 0 THEN Respawned(FlushEvents(p, p.lastdeath + DEATHMILLIS, now)) ELSE p),
    now)

TrySpawn ==
  /\ ~loading
  /\ player.state = "dead" /\ ~player.expected
  /\ player.life < MaxLives
  /\ player' = TrySpawned(player)
  /\ UNCHANGED <<now, clock, loading>>

\* N_SPAWN with the right lifesequence
Spawn ==
  /\ ~loading
  /\ player.state \in {"alive", "dead"} /\ player.expected
  /\ player' = [player EXCEPT !.expected = FALSE, !.state = "alive"]
  /\ UNCHANGED <<now, clock, loading>>

\* dodamage() with a deadly outcome: a shot or a blast hits him
Kill ==
  /\ player.state = "alive"
  /\ player' = [player EXCEPT !.state = "dead", !.lastdeath = now]
  /\ UNCHANGED <<now, clock, loading>>

\* spectator(1, ...): the queue stays.
Spectate ==
  /\ player.state # "spectator"
  /\ player' = [Suicided(player) EXCEPT !.state = "spectator"]
  /\ UNCHANGED <<now, clock, loading>>

\* spectator(0, ...)
Unspectate ==
  /\ player.state = "spectator"
  /\ player' = Respawned([player EXCEPT !.state = "dead"])
  /\ UNCHANGED <<now, clock, loading>>

\* clientinfo::mapchange() with gamestate::reset(); lives are counted anew.
MapChanged(p) ==
  [Respawned(p) EXCEPT !.state = IF @ = "spectator" THEN @ ELSE "dead",
     !.rockets = <<>>, !.events = <<>>, !.gameoffset = Unsynced, !.lastevent = 0,
     !.life = 0, !.air = [id \in Stamps |-> 0], !.due = 0]

\* changemap()
MapChange ==
  /\ now' = 0
  /\ player' = LET p == MapChanged(player) IN
               IF p.state = "spectator" THEN p ELSE WithSpawn(p, 0)
  /\ loading' = TRUE
  /\ UNCHANGED clock

\* The client reads N_MAPCHANGE: its time restarts with the map.
Load ==
  /\ loading /\ loading' = FALSE
  /\ clock' = 0
  /\ UNCHANGED <<now, player>>

\* serverupdate(): a frame in which the clock moves, or not.
Frame(curtime) ==
  /\ now + curtime <= MaxTime
  /\ now' = now + curtime
  /\ player' = IF now + curtime < GameLimit
               THEN FlushEvents(player, now + curtime, now + curtime) ELSE player
  /\ UNCHANGED <<clock, loading>>

Fresh == [state |-> "dead", lastdeath |-> 0, expected |-> FALSE,
          life |-> 0, events |-> <<>>, gameoffset |-> Unsynced,
          lastevent |-> 0, lastshot |-> 0, gunwait |-> 0, armed |-> FALSE,
          rockets |-> <<>>, air |-> [id \in Stamps |-> 0], due |-> 0]

\* A client that has been welcomed when the map begins.
Init ==
  /\ now = 0 /\ player = WithSpawn(Fresh, 0)
  /\ clock = 0 /\ loading = FALSE

Next ==
  \/ \E c \in Stamps : \/ \E g \in Guns : Shoot(g, c)
                       \/ \E id \in Stamps : Explode(id, c)
  \/ SendSuicide \/ TrySpawn \/ Spawn \/ Kill \/ Spectate \/ Unspectate \/ MapChange \/ Load
  \/ \E curtime \in {0, 1} : Frame(curtime)

Spec == Init /\ [][Next]_vars

-----------------------------------------------------------------------------
(* Properties.                                                             *)

\* What waits in the queue came in the life the server now has the player in;
\* only explosions outlive the shooter, and a shot of the last life is not
\* fired with the ammunition of the next.
QueueOfThisLife ==
  /\ TypeOK
  /\ \A i \in DOMAIN player.events :
       player.events[i].kind # "explode" => player.events[i].life = player.life

\* However the clock of the client runs, and however often geteventmillis()
\* brings it together with the server's, a life launches rockets no faster than
\* the attackdelay of the launcher allows.
RateOfFire == player.due <= now + Delay["rocket"]

\* A rocket that was launched on this map explodes at most once, whatever
\* explosions the client reports, and nothing explodes that was not launched.
OneBlastPerRocket == \A id \in Stamps : player.air[id] >= 0
=============================================================================
