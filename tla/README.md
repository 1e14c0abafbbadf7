# A verification project for the frogmod-justice game server

frogmod-justice is a dedicated Sauerbraten server: one process, one thread, an
event loop (libevent) around a packet library (ENet).  The modules in this
directory describe how it keeps players, privileges, teams, bots, lives, flags,
bases and matches, how clients hear of each other, and the connections it does
this over: ENet, the master server, IRC.  TLC checks them on small instances,
and TLAPS proves the most important properties for every instance.  References
of the form `server.cpp:2590` are to `src/fpsgame/server.cpp`,
`engine/server.cpp` to the one in `src/engine`.

## 1. The system

### Components, their state and their operations

| component | source | state | operations |
|---|---|---|---|
| slots and sessions | `engine/server.cpp` 349-510, 755-811; `server.cpp` 223-345, 2577-2740, 3176-3240 | slot table of the engine, `connects`, `clients`, a `clientinfo` for each slot | connect, join (`allowconnect`), leave, `disconnect_client` |
| privileges and room | `server.cpp` 1563-1643, 2928-3016 | `privilege`, `currentmaster`, `mastermode`, `allowedips`, `gamepaused` | `setmaster`, auth answers, `givemaster`, `setmastermode`, pause, spectate |
| bans | `server.cpp` 368-378, 2609-2716, 2944-3004 | `bannedips`, `blacklistips`, `gbans`, kick times | kick, ban commands, global bans, expiry |
| bots | `aiman.h` | `bots`, `ownernum`, the vector `bots` of each client, `aireinit`, `dorefresh`, limits | add, delete, shift, reassign, announce |
| teams | `server.cpp` 1255-1345, `aiman.h` 8-62 | `team` of each client, scores of teams | choose by rank, choose the worst, balance with bots, switch |
| lives | `server.cpp` 129-180, 1849-1870, 2213-2280, 3384-3425 | `state`, `lifesequence`, `lastspawn`, `lastdeath`, health | spawn request and answer, damage, suicide, spectating, map change, change of owner |
| events and weapons | `server.cpp` 34-130, 246-262, 2281-2425, 3433-3490 | queue of events, time offset, live rockets and grenades | queue, flush, clear, shot, explosion, pickup |
| match cycle | `server.cpp` 2054-2211, 2429-2481 | map, mode, clock, `interm`, `mapreload`, votes | vote, force, intermission, change of map |
| demos | `server.cpp` 1347-1540 | recording, list of demos, playback | record, stop, clear, send, play |
| flags | `ctf.h` 1-404, 1174-1191 | flags, scores of teams | take, drop, return, score, reset, team changes |
| bases | `capture.h` 1-245, 793-1075 | owner, enemy, counters and progress of bases | enter, leave, move, update |
| items | `server.cpp` 1200-1262 | spawned items and their timers | pickup, respawn |
| world state | `server.cpp` 1700-1836 | buffers shared by packets, their use counts | build, send, free |
| scores | `server.cpp` 183-217, 1646-1680, 2002-2030 | scores of those who left | save, find, restore |
| master link | `engine/server.cpp` 540-683; `server.cpp` 2740-2815 | socket, input and output lines, auth requests | register, request, challenge, answer |
| commands | `server.cpp` 3042-3168, `engine/command.cpp`, `stdlib.cfg` | permitted commands, aliases | parse, permit, run |
| IRC | `src/shared/evirc.cpp`, `server.cpp` 1051-1137 | connections, channels, peers | connect, reconnect, quit, relay |
| HTTP and hooks | `server.cpp` 518-800, `src/web`, `src/hook` | log, pages | serve, post |
| ENet (vendored) | `src/enet/peer.c`, `protocol.c` | queues, windows, data in transit, packets that came too early | queue, send, resend, acknowledge, deliver, give up |
| libevent (vendored) | `src/libevent2` | | |

### How they interact

Everything happens on one thread in four kinds of step: a packet
(`parsepacket` handles its messages one after another), an ENet connection or
disconnection, the timer that runs `serverupdate()` and `sendpackets()` every
5 ms, and callbacks of the master link, IRC, HTTP and the console.  A handler
runs to its end, so an action of a module is a handler.  Components call each
other directly and share `clients`: `clientdisconnect` reaches privileges,
flags, scores, bots and, when the last human goes, bans; `setmaster` reaches
the pause and the bots; `changemap` reaches all.

### What is hard

There are no threads.  The hard part is the order of handlers:

* numbers of clients are used again as soon as a slot is free
  (`disconnect_client` frees at once), and tables, bots, flags and answers may
  still name the old user;
* privileges are reached and lost by about a dozen ways, and modes, guest
  lists, pauses and bots must follow each of them;
* messages are answers to questions of the past: a spawn, a flag request, an
  auth answer may concern an earlier life, drop or privilege;
* two records of one fact: `ownernum` and `bots`, `currentmaster` and
  `privilege`, the slot tables of engine and game;
* ends that must come: bots without owner, flags on the ground, dead players,
  finished matches, pauses without an admin.

`PROJECT.json` lists these under "hazards", each at its line, with the
properties that cover it or the reason why none does yet.

### What makes each component correct

* Sessions: one privileged player, known to all; restrictions and pauses end
  with the mastership; nothing of a client remains in a free slot.
* Bots: the two directions of ownership agree; bots go with the last human; a
  bot without owner is adopted or removed; players share the bots evenly.  Bots
  that `addai()` takes over are the exception to the first and the last.
* Lives: an answer counts for the life it is about; the dead get to play again.
* Match cycle: each match is followed by one; votes and demos belong to one
  match.
* Flags: in one place at a time; carriers can carry; old requests are told
  apart; flags return.
* Bases: the counters are those of the players who are there; nobody who left
  captures.  Game-clip material and living bots that are handed over break this
  in the code.
* Teams: those the server makes are fair, and bots do not make them unfair.
* Events: a rocket is launched at its rate and explodes once; shots do not pass
  from one life to the next.
* World states: a client is told what the others in a list did, once, and never
  its own; a buffer lives as long as its packets.
* Master link: an answer is that of the request it names, whoever has the client
  number by now.
* ENet: packets arrive whole, once, in order, or the peer is given up.
* IRC: the client and the network agree on the channels; a quit that is given
  time ends.

## 2. The modules

| module | what it is | run |
|---|---|---|
| `Sessions` | slots, privileges, room, bans, kicks; the core of the project | `lobby`, `room` |
| `Mastership` | what players may rely on about the mastership; `Sessions` implements it | `room` |
| `BotTables` | the tables of `aiman.h` and the functions that rewrite them | |
| `Bots` | those tables under the events of the server | `bots`, `bots_stale_owner` |
| `BotLoops` | the loops of `removeai()` and `reassignai()` turn by turn | `lobby` |
| `Teams` | `autoteam()`, `balanceteams()` turn by turn, and every other change of teams | `lobby` |
| `Spawning` | lives of one player, with messages in flight | `match`, `respawn_waits` |
| `MatchCycle` | votes, matches, intermissions, demos | `match` |
| `CtfFlags` | flags, in the modes ctf, protect and hold | `modes` |
| `Custody` | what a flag may do; `CtfFlags` implements it | `modes` |
| `CaptureBases` | the bases of the mode capture | `modes`, `capture_ghost` |
| `GameModes` | the modes as the server composes them, with the changes between them | `modes` |
| `Events` | the queue of events of one client, with its clock and its rockets | `events` |
| `WorldStates` | the broadcast and its shared buffers | `room` |
| `MasterServer` | requests and answers on the connection to the master server | `room` |
| `EnetChannel` | one direction of a reliable ENet channel over a bad network | `links`, `enet_stall` |
| `Pipe` | what such a channel promises; `EnetChannel` implements it | `links` |
| `IrcLink` | connections to IRC servers from `connect` to the end of the program | `links`, `irc_shutdown` |
| `MC...` | constants for TLC, and sums of components | |
| `SessionsProofs`, `BotsProofs`, `GameModesProofs`, `EventsProofs` | theorems about those modules | |
| `LobbyProofs`, `RoomProofs`, `MatchProofs`, `LinksProofs` | theorems about `Teams` and `BotLoops`, `MasterServer` and `WorldStates`, `MatchCycle` and `Spawning`, `IrcLink` and `EnetChannel`, as parts of the sums (`MatchCycle` by itself) | |

Components that act on common state are composed: `GameModes` runs `CtfFlags`
and `CaptureBases` over the same players, teams, clock and pause, as `smode`
selects one of them; `Bots` and `BotLoops` share `BotTables`; the abstract
specifications are instances with a refinement mapping.  The assumptions on
constants of `CtfFlags` and `CaptureBases` are stated in `GameModes`.

`MCLobby`, `MCRoom`, `MCMatch` and `MCLinks` are sums and no compositions: a
variable `part` names the component a behaviour is about, the others stay in
an initial state, and every component keeps its own specification, fairness
included (an initial state is one in which no fairness owes a step).  What TLC
finds for the sum it would find for the components one by one.  The other
modules each give the neighbours they need in outline: in `Bots` and
`MatchCycle` a privileged player comes and goes as `Sessions` allows.

Each module has one type invariant; where it is `TypeOK` of another module than
`Sessions` it is a conjunct of an invariant of that module, so that a run
checks it.

### Sessions

`connects` and `clients` are the vectors of the same names, `addr` is the
address of the peer that last used a slot.  `room` is the record of everything
`setmaster()` writes (`privilege` of all, `mastermode`, `allowedips`,
`currentmaster`, `gamepaused`), so that `Claim`, `Relinquish` and their common
tail `Settle` are functions that compose as the calls do, e.g. `givemaster` is
a relinquish and then a claim that may be refused.  `lists` are the ban lists.
An action is a message (`Join`, `SetMaster`, `Kick`, ...), a command
(`CommandKick`, `GiveMaster`, ...), an answer of the master server or an ENet
event.  Abstractions:

* A pattern of a ban or blacklist stands for one address.  Patterns that match
  names or many addresses are combinations of those.
* `recent` holds the players inside their kick interval, `nkicks` their
  count; `KickIntervalPasses` is the clock.
* `Operator` says whether somebody types commands from the console, IRC or
  HTTP, `ReachConnecting` whether commands name slots that have not joined
  (`getclientinfo` does not ask), `ListCommands` which ban commands are used.
* A kick that ends in the kicker's own removal forgets the rest of his packet:
  `parsepacket` returns to a freed `clientinfo` there (`server.cpp:2956`).
* The local client does not exist in a dedicated server.
* The command `mastermode` takes any number (`server.cpp:3015`).  The mode is
  compared by `>=` only, so a number below the list acts as `MM_OPEN` and one
  above it as `MM_PRIVATE`, and the model takes the four modes.

### Bots, BotLoops

`ai.owner` is `ownernum`, `ai.listed` the vectors `bots` of the humans, and
they are written separately as in the code, which is why they can disagree:
`addai()` gives a bot that waits for its removal an `ownernum` and no list
(`aiman.h:105`).  `ai.taken` is history, the bots this was done to; `Regular`
are the others.  A bot taken over stays with its number until it is deleted:
removals and `reassignai()` walk lists, and `findaiclient()` measures them, so
such bots are owned unevenly, by spectators, or by who left.  The properties on
shares and on who may own are therefore about regular bots, `ListsAgree`
says what the lists hold exactly, and the run `bots_stale_owner` shows the rest.
`told` is the owner clients were last told.  Loops over bots are stated by
what they leave behind (`Released`, `Rebalanced`), for every order of
`clients`; `BotLoops` checks those statements against the loops themselves,
call after call.

### Teams

`team` is a function on `clients`, `bots` counts the bots of a team, `call` holds
the local variables of the function that runs: `autoteam()` picks one player
a step, `balanceteams()` moves one bot a step, and nothing else happens
meanwhile.  Names of teams are numbers in the order of `strcmp()`, 1 is
"evil", 2 "good".  A rank is effectiveness per time played on a scale of a
few steps.  `Calcteams` and `Shift` keep the order of the list, because
`balanceteams()` holds a reference to its last place while it sorts.

A place of that list holds no name: `teamscore.team` points into the `team` of
the first member of that team in `clients` (`game.h:583`, `aiman.h:18`).  If
that is a bot and the bot is moved, `copystring()` at `aiman.h:57` renames the
place, and the loop goes on with its bots, or members, under the new name.
`says` is what each place points to; `ofbots` are the places that point to a bot
not moved yet, any that may (`OfBots`), since `bots` counts and does not order
them.

`changemap()` calls `autoteam()` before it sets `smode` (`server.cpp:2079-2083`),
so whether frags are hidden there is that of the mode that ends (`call.hides`):
a change from teamplay to a flag mode makes teams by rank, with numbers that
may be uneven, and the reverse makes them by number.

### Spawning

One player and the clients that may play him.  `down` and `up` are the
reliable channels.  `Read` and `Ask` are the client program, which is not in
the repository: it answers every `N_SPAWNSTATE` and asks for a life while its
player is dead.  `latest` in messages and `known` are history: the answer to
the last spawn state, and whether other clients have been sent the
`lifesequence` of this life (only then can they hit in it).

### MatchCycle

`clock` is `gamemillis` against `gamelimit` and `interm`.  `holder` is the
privileged player, `veto` stands for `mastermode >= MM_VETO`.  `stale` and the
tags of `demos` are history.  Equal votes are decided by `rnd(2)`, here by
`\E`.  Modes that cannot be played over the network are in `Sessions` and
`Bots` and left out here.

### CtfFlags, Custody

`flags` is the vector of the server; a map lays one of `Layouts`, and in hold
mode there is one flag.  Where flags lie and how long is not modelled: a
request may come at any time with any version, and the resets of `update()`
may come as soon as their condition is met.  Scores saturate at `FlagLimit` and
`LowScore`, where they have no further effect.  `Custody` says where a flag
may be, who may move it there, and that it gets a new number when it is taken,
dropped or returned.

### CaptureBases

`at` is the base whose radius the last reported position is in, `gameclip` the
flag of that report.  `bases` is the vector with `owner`, `enemy`, the
counters `owners` and `enemies` and `converted` in units of a second.
`Update` runs the whole of `update()` for a second, and `endcheck()`.
`HandOver` is `reinitai()` of a bot that lives: `reassign()` puts it nowhere
(`server.cpp:169`) and tells no base, and the answer of its new owner is an
`N_SPAWN` of the living, which enters the base it has reported since
(`server.cpp:3413`).  `awaited` are the bots whose answer is due, `handovers` is
history, bounded by `MaxHandOvers`.  A new map deletes the bots (`clearai()`).

### Events

`player` has the fields of `clientinfo` and `gamestate` that the queue reads
and writes, `now` is `gamemillis`, `clock` the time the client stamps on its
shots and explosions.  `gameoffset` is `Unsynced` while `timesync` is false.
A flush folds over the events before the first that has to wait.  `life` in
events, `air` and `due` are history.  Abstractions:

* A client's time does not run backwards, except that it restarts when the
  client reads `N_MAPCHANGE`; messages of the last map may still arrive after
  the server has changed.  The ids of explosions are arbitrary.
* The launcher stands for the guns that need ammunition, in modes where items
  give none for it; there is always enough.  Grenades have the same list.
* Whom a shot or a blast hits is left to `Kill`, so damage and the test of
  `lifesequence` in hits are not in the model; nor are pickups.
* A client asks for a life (`N_TRYSPAWN`) after it has read the map it asks
  for.  One that was made a spectator and player again by others around a map
  change, with that question on its way, would be an exception.

### WorldStates

`clients` are the humans, in their order; `said` counts the units of position
and message data that wait for each client, `bots` keeps the order of each
owner's bots, since a client's own part and that of its bots are cut out as
one piece. `Gathered` builds the doubled buffer, `Cut` is the window a
client's packet reads. `uses` counts the packets of each buffer; `packets` are
those ENet has not freed, in any order (`Acknowledged`, `Flushed`, `PeerDies`
are ENet's). `buildworldstate()` passes over bots in `clients` and comes to
them through the lists of humans (`server.cpp:1754-1757`). So `orphans`, bots
without owner, and `taken`, those `addai()` saved from that, are nowhere in a
buffer: what their players send for a bot taken over is kept and never sent,
and `OthersAreHeard` says so. `RemoveAI`, `LoseBots` and `Play` hand bots on
in every way, also where `findaiclient()` would choose one.

### MasterServer

`out` and `pos` are `masterout` and how much of it was sent, in half lines, so
that a line can break in the middle.  `master` is the other end: the line it has
the beginning of, the lines it may answer, the answers under way.  It answers
what it has heard late, in any order or never.  `asked`
and `claim` are history: who made a request and who was let in by the last
answer.

### EnetChannel, Pipe

A command is its place in the stream of commands; the code sees its sequence
number, which starts over after `Windows * WindowSize`, sixteen windows of 4096
scaled down.  `outgoing` and `sent` are the two queues of the sender, `windows`
its counters, `transit` the unsigned `reliableDataInTransit`; `arrived` is the
receiver's list of commands that came too early, with the fragments they have.
The network holds copies of commands and of answers, which may come again, late
and in any order, but not later than `MaxAge` commands.  Clocks are replaced by
the order they produce: what was sent first is due first, and the peer is given
up after `Patience` rounds of resending without an answer.  The peers are
connected from the beginning, and bandwidth limits change the window at any
time.

### IrcLink

`link` is `Server` with its connection, timer and channels, `net` the end of the
network with lines under way.  A callback of libevent is an action.  A
registration may be refused (433) and tried again; a connection may break in
every state.  `Shutdown` is `quitsig()`, `exited` the exit in `ircemptycb()`, and
`QuitSecs` are the values of `ircquitsecs` it may find: 0, or 1 for any other.
For 0 libevent sets no timeout (`libevent2/bufferevent.c:824`), and `Quit` none.

## 3. What the runs check

| run | instance | shows |
|---|---|---|
| `lobby` | `Sessions`: 2 slots, 1 address, an operator, all lists, commands that reach connecting clients | `TypeOK`, `PauseHasAdmin`, `OneAdmin` hold whatever is typed |
| | `BotLoops`: 3 humans, 4 bots, every distribution | the loops make progress (`LoopsEnd`) and stop where `BotTables` says (`LoopsAgree`) |
| | `Teams`: 3 humans, 3 bots, 3 names of teams, ranks up to 2 | `AutoteamIsFair` by the mode that ends; `BotsEvenTeams`: even unless a bot renamed its place |
| `room` | `Sessions`: 3 slots, 1 address, no operator | `SoleMaster`, `ModeHasHolder`, `GuestListFresh`, `BansClearWhenEmpty`, `OneVictimPerInterval`, and `Sessions` implements `Mastership` |
| | `WorldStates`: 3 humans, 1 bot, 2 units waiting, 2 buffers alive | `OthersAreHeard`, for everyone in a list |
| | `MasterServer`: 2 clients, 2 names, 2 requests | `AuthFitsRequest` |
| `bots` | 2 humans, 2 bots, with and without admin password, every limit | `ListsAgree`, `Settled`, `OwnersMayOwn`, and `OrphansGoAway`, the first three but for bots taken over |
| `bots_stale_owner` | as `bots` | the finding on `addai()` |
| `respawn_waits` | as `Spawning` in `match` | the finding on `N_SPAWN` |
| `modes` | flags: 2 players, one of them a bot, two flags of two teams or of one; bases: 3 players, 2 bases, one of them visited, one living bot handed over in a match | `CarrierFits`, `BarredStillLives`, `GroundIsTemporary`, `CtfFlags` implements `Custody`; `CountsFit`, `EnemyFades` |
| `match` | `MatchCycle`: 3 humans, one of whom may be master, 1 map, a timed mode and coop edit, 1 demo | `ClosedAsksForMap`, `OneDemoPerMatch`, and `MatchesFollow` |
| | `Spawning`: one player, 2 possible owners, 3 disturbances, `lifesequence` modulo 5 | `OldAnswersAreRefused`, `WaitsForSomething`, and `TheDeadComeBack` |
| `events` | one client, a fist and a launcher, queue of 2, 2 rockets in flight | `QueueOfThisLife`, `RateOfFire`, `OneBlastPerRocket` |
| `links` | `EnetChannel`: 4 packets, 5 commands, 6 windows of 2, half of them free, a numbering that starts over | `AnsweredWasTaken`, `WindowsCount`, `EnetChannel` implements `Pipe`, and `PacketsArrive` |
| | `IrcLink`: 1 host, 2 channels, `ircquitsecs` 0 or not | `ChannelsInStep`, and `QuitEnds` for a quit that is given seconds |
| `enet_stall` | 3 packets, a socket that may refuse to send | the finding on the data in transit |
| `capture_ghost` | 3 players, 1 base, game-clip material | the finding on stolen bases |
| `irc_shutdown` | 1 host, 1 channel, `ircquitsecs` not 0 | the finding on the end of the program |

Each property has a mutant in its module, an operator with the change a bug
would make (a dropped reset, a limit off by one, a loop that runs the wrong
way), under which the run finds it violated; a mutant stands before the
operator it changes and is not used.

### Findings

* `bots_stale_owner`: a bot taken over from its removal is not in its owner's
  list and keeps his number when he leaves.  The same line makes bots
  nobody hears (`OthersAreHeard`), that spectators keep (`OwnersMayOwn`), and
  that are owned unevenly (`Settled`).
* `respawn_waits`: a bot handed over alive and then killed comes back by the
  late answer of its new owner, without health.
* `enet_stall`: a command that timed out and is acknowledged before it was sent
  again is taken twice from the data in transit.  The counter wraps around or
  falls short, and with a smaller window or a socket that refuses to send the
  next packet waits for ever while nothing is under way that could time out.
  `PacketsArrive` is what remains: packets arrive while the counter is right.
* `capture_ghost`: who stands at a base in game-clip material is counted when
  the base is stolen, and not when he goes; the base then falls, or is held,
  without anybody there.  `CountsFit` and `EnemyFades` are checked on maps
  without such material; there a living bot that is handed over does the same
  to the counters, and the slack of `CountsFit`, two for each, is that: with
  one for each TLC finds it violated.  In `capture_ghost` no bot is handed over
  (`MaxHandOvers` 0), so what it shows is the material's doing alone.
* `irc_shutdown`: a link that waits to reconnect is not told to quit, and a late
  001 makes a link that quits active; the program waits for both for ever.
  `QuitEnds` is what remains.

Some disagreements between text and code, or intent and code, were met that no
run checks:

* `maxkicks` is commented as the number of kicks that trigger the protection
  (`server.cpp:222`), but from the second on every kick inside the interval is
  refused, whatever it is (`server.cpp:2950`).
* The alias `kickmaster` (`src/stdlib.cfg:39`) passes an address to `kick`, which
  reads its first octet as a client number.
* "force disconnect after quitsecs seconds" (`evirc.h:80`) is not so for
  `ircquitsecs` 0, which the variable allows (`engine/server.cpp:1063`): the link
  then waits for the network, for ever if that is silent.
* `autoteam()` deals for the mode that ends (see Teams).
* `balanceteams()` takes a renamed place for the team of the new name: of
  a human who watches, three bots in evil and a human in evil, in the order of
  `clients`, it makes three of evil, two of them bots, and one of good, and
  stops there, uneven by two.  `BotsEvenTeams` says what it still keeps.

### Bounds and why they are enough

* Two slots in `lobby`: every rule of `setmaster` relates the caller to one
  other.  Three in `room`: a master, a victim and a third who claims.
  The proofs of section 4 have no such bounds.  One address: a ban either
  hits or does not; lists over two addresses are independent.  `MaxKicks` 2 is
  the default.
* Two humans and two bots let bots be handed over, orphaned, taken over and
  uneven; `BotLoops` has three and four, so that hand-overs must be spread.
* Three people, three bots, three teams: a team can be empty, uneven by two, or
  passed over by a bot.  `BotsEvenTeams` promises evenness for two teams only:
  with three, sizes 5, 1 and 1 become 3, 3 and 1, since a bot may join another
  team than the one its point was given to (`aiman.h:40`); the spread does not
  grow.  Four teams with six bots, and four people, were checked as well.
* `MaxChanges` 3 lets a death, a hand-over and another death or a map change
  overlap (4 in `respawn_waits`); `LifeMod` is greater, as 128 is greater than
  the number of lives a reliable message can outlast.
* Two flags of different teams let one score, two of the same let one player
  come to two.  `Versions` 2 tells a version from its successor.  `FlagLimit`
  1 and `LowScore` 0 let a match be won and a score be lost.
* Three players at a base: two of one team and one of the other, so that one can
  leave while the rest stays.  `MaxHandOvers` 1 in `modes`: one hand-over lets a
  bot be counted where it stood and again where it spawns, as `CountsFit`
  allows; the theorem has any number.  Two seconds to take a neutral base, three to
  take an enemy's.  A second base that nobody visits keeps the match going.
* Three voters: a majority of two, a minority and a tie.  `MaxDemos` 1 is the
  limit at which the oldest demo goes.  `Rulers`: one human may become master;
  which one makes no difference.
* In `events`, `QueueLimit` 1 and `ListSize` 2 let queue and list be full and
  overflow; two lives, two delays of the launcher and a frame after the end of
  the match fit into `MaxTime` 4.  Two stamps let a later stamp be synchronised
  before an earlier one.
* Three humans and a bot: a client with a bot, one between and one behind it in
  the buffer; and the bot without an owner, or taken over.  `MaxWorlds` 2 and
  `MaxLate` 1: a packet outlives the buffer made after its own.
* Two requests to the master server let one be superseded, by the same client
  or the next under his number.
* Five commands from number 9 of 12 on pass the point where numbers start over
  with a fragmented packet across it; with three of six windows free the
  sender comes to a used one.  `UintRange` 16 stands for 2^32, `Limits` for
  windows of less and of more than two commands.
* Two channels let a join and a part be under way together.  `QuitSecs` {0, 1}:
  whether there is a timeout is all that is modelled of it.

`CHECK_DEADLOCK FALSE` is set where a component really stops: `Sessions` in
`room` (after a change to a local mode with nobody outside to change it back,
the server refuses everybody) and `MasterServer` there (its requests are
bounded); `Spawning` in `match` and `respawn_waits` (the disturbances are
bounded); `EnetChannel` in `links` and `enet_stall` (all packets delivered, or
the peer given up).

### Fairness

* `Bots`, `MatchCycle`, `CtfFlags`, `CaptureBases`: `serverupdate()` runs from a
  timer that re-arms itself first thing (`engine/server.cpp:932`), so what
  waits for time alone happens (`CheckAI`, `TimePasses`, `ResetPresent`,
  `BeginSecond`).  The conditions fail while the game is paused or over, hence
  weak fairness and properties that exempt those states.
  `WF(TimePasses)` also says that maps are not forced for ever before a match
  can end.
* `Spawning`: ENet delivers reliable packets of a live connection, and the
  client of a dead player asks again.  Both are external.
* `EnetChannel`: `serverslice()` serves every peer again and again (`Flush`,
  `Resend`, `GiveUp`).  The network is unreliable and not dead: a copy that
  somebody waits for and that is sent again and again is received at last
  (strong fairness), and a copy nobody waits for vanishes some day.
* `IrcLink`: libevent reports what arrived, ends of connections and timers that
  ran out.  Nothing is assumed of the network.
* Nothing is assumed of players, masters or operators.

## 4. What is proved

tlapm checks every step of the theorems below, for every set of slots, players,
owners, channels or requests and every value of the limits, under the
assumptions on constants named in the modules.  An invariant of a run is seldom
inductive; each table is followed by the invariant that is, and what it adds.
TLC found no counterexample to those invariants on small instances before they
were proved.

### Sessions

| theorem of `SessionsProofs` | states |
|---|---|
| `TypeCorrect` | `Spec => []TypeOK` |
| `PauseCanBeLifted` | `Spec => []PauseHasAdmin` |
| `AdminIsUnique` | `Spec => []OneAdmin` |
| `MasterIsSole` | `Spec => []SoleMaster` |
| `RestrictionHasHolder` | `Spec => []ModeHasHolder` |
| `GuestsStayFresh` | `Spec => []GuestListFresh` |
| `EmptyServerHasNoBans` | `Spec => BansClearWhenEmpty`, an action property |
| `OneVictimAtATime` | `Spec => OneVictimPerInterval`, an action property |
| `KeepsMastership` | without an operator, and when commands only name players, `Spec => ImplementsMastership` |

Assumed: finitely many slots, none of them `NoSlot`; limits that are numbers.

The first three follow from `IInv`: `TablesOK`, the part of `TypeOK` about the
tables, and `RoomSound` of the room, the players and the connecting clients:
free slots have no privilege, at most one player is admin, no connecting
client is, a pause has an admin.  `OneAdmin` alone is not inductive: an admin
among connecting clients, or left in a free slot, would become a second one by
joining.  The room is changed by functions, so the argument has a lemma for
each (`RelinquishSound`, `ClaimSound`, `LeaveSound`, `EjectSound`,
`DropSound`), and `NextInv` cites them action by action.

The next three follow from `GInv`, which adds `Governed`: with commands that
name players, `currentmaster` is the one privileged slot; without an operator
a restriction has a holder; a guest list means a private mode.  `Governed`
needs `RoomSound` in the steps where a claim is refused after a relinquish.

The refinement goes action by action under `GInv`, which names the holder: a
master who is kicked or resigns takes mode, guests and pause along in the same
step, and a `givemaster` that is refused is a `Release`.  Its two hypotheses are
the setting of the run `room`: an operator may pause or restrict a room nobody
holds, and commands that name connecting clients may make one of them master.

### Bots

| theorem of `BotsProofs` | states |
|---|---|
| `TablesAgree` | `Spec => []ListsAgree` |
| `SpectatorsOwnNothing` | `Spec => []OwnersMayOwn` |
| `RefreshSettles` | `Spec => []Settled` |

`Agree` is the exact statement: a bot is in a client's list if and only if it
was not taken over and names that client. `IInv` adds that a bot that has an
owner clients were not told of is marked for announcement (`Marked`), whatever
shifts it, and that nobody has a list who is gone or, without an admin
password, may not own bots (`Holders`). The theorems on shares and owners
follow from the lists by `Agree`, so they are about regular bots and no
others; without the mark `checkai()` could leave a bot that settles
unannounced. The loops over bots enter by what they leave behind
(`ReleasedKeeps`, `RebalancedKeeps`); that the loops leave that behind is the
next theorem.

| theorem of `LobbyProofs` | states |
|---|---|
| `LoopsLeaveFairShares` | `LobbySpec => []LoopsAgree` |
| `LoopsAlwaysEnd` | `LobbySpec => LoopsEnd`, an action property |

Assumed: finitely many clients, none of them `NoSlot`.

`LoopInv` relates the tables of a turn to those the loop began with.  In
`removeai()` (`Removes`) only the client that leaves has given, and whoever
took a bot has at most one more than anybody else.  In `reassignai()`
(`Shares`) who gave has only given, and is at most one below the others, who
took has only taken, and is at most one above them.
When a loop stops, loads differ by one at most, and as few bots have changed
hands as can be: the takers, or the givers, are as many as the final shares
require, which two sums over the clients show.  That it stops: each turn of
`removeai()` leaves the leaving client one bot less, and each of `reassignai()`
moves a bot between clients two or more apart, so the sum of the squares of
the loads falls.

### Flags and bases

| theorem of `GameModesProofs` | states |
|---|---|
| `CarrierAlwaysFits` | `Spec => []CarrierFits` |
| `BarEndsWithLife` | `Spec => []BarredStillLives` |
| `OneFlagEach` | nobody carries two flags |
| `FlagsInCustody` | `Spec => ImplementsCustody` |
| `BasesCountWhoStands` | where no map has game-clip material (`Clips = {FALSE}`), `Spec => []CountsFit` |

Assumed: finitely many players, a flag of a map belongs to team 1 or 2 or, in
the maps of hold mode, to none, versions are at least two, a base is captured
from an enemy no faster than from nobody, and players stand at bases of a map.

`FInv` needs `OneEach`: `dropflag()` and `scoreflag()` act on the flag they find
for a player, and the rule of who may carry it survives only if it is the one
flag he has.  So does the refinement: a death lets go of everything a player
carries, and is a step of `Custody` because that is one flag.  `BInv` adds
`BasesOK`, who can be at which base, and counts people per team and base
(`Crowd`): a step moves one player, and `EnterFits`, `LeaveFits`, `StealFits` and
`SecondFits` say what that and a second on the clock do to the counters.  The
hypothesis on clips is needed: the finding `capture_ghost` is its failure.
Hand-overs of living bots enter by `Slack`, which the crowd of every base has on
top: two for each hand-over, less one for each bot whose `N_SPAWN` is due, since
a hand-over leaves one behind at once and brings the other when the bot spawns.
`HandedOK` keeps those due no more than the hand-overs, and `MoreKeeps` says that
a counter that fitted still fits when the crowd has only grown.

### Matches and lives

| theorem of `MatchProofs` | states |
|---|---|
| `ClosedMeansAsked` | `Spec => []ClosedAsksForMap` |
| `OneDemo` | `Spec => []OneDemoPerMatch` |
| `OldAnswers` | `MatchSpec => []OldAnswersAreRefused` |
| `NeverWaitsInVain` | `MatchSpec => []WaitsForSomething` |

Assumed: a demo can be kept; and `LifeAssumption`, that `lifesequence` does not
come round while a message about an old life can be on its way.  That is what
128 numbers and reliable channels are for, and it is a hypothesis of the code
as well: nothing in it enforces it.

`LInv` counts lives: `n` were sent, and with those that can be asked for at once
they are two more than the changes at most (a bot may have two before its first
change).  Messages about the last life carry its number, the others one of an
earlier life, so an answer that fits is the last.  The proof of `WaitsForSomething`
also showed how long a spawn state is the last word: a bot that is handed to
another client is asked for afresh, and the mark `latest` must leave the
messages of the client who had it at that moment and no earlier.

### Events

| theorem of `EventsProofs` | states |
|---|---|
| `ShotsDieWithTheLife` | `Spec => []QueueOfThisLife` |
| `LauncherKeepsItsRate` | `Spec => []RateOfFire` |
| `RocketsBlowUpOnce` | `Spec => []OneBlastPerRocket` |

Assumed: delays are positive, the list of rockets holds one at least.

The rate is kept because a player who may fire has waited since his last rocket,
or everything he fires is later than that (`PlayerOK`, `ClockOK`): when the clock
is synchronised with the queue empty, his next stamp is no earlier than the
server's time, and a spawn only shortens the wait of someone who has been dead.
For the list of rockets, which overwrites its oldest when it is full, the
invariant counts copies: there are no more of a number than were launched and
have not exploded.  The queue is flushed by a recursive function, whose
existence and invariants are proved by induction over the queue.

### Teams

| theorem of `LobbyProofs` | states |
|---|---|
| `AutoteamLeavesFairTeams` | `LobbySpec => []AutoteamIsFair` |
| `BalanceLeavesEvenTeams` | `LobbySpec => []BotsEvenTeams` |

Assumed: there are two names of teams at least.

`SidesInv` follows `autoteam()` pick by pick.  Where the mode that ends hid frags
(`HiddenOK`) the teams take turns and the active come before the spectators, so
numbers stay within one.  Elsewhere (`RankedOK`) a team is ahead by no more
than the rank of one player, since the one that is behind picks next and picks
the best that is left.

`balanceteams()` sorts a list while it moves bots, and gives the bot to the
team that is last after the sorting, where the point went to the one that was
last before.  `BalanceOK` says what survives that: the list is sorted behind
its head (`ListOK`), and as long as no place was renamed (`Unbent`) the members
of a place are its score, or one off where a bot went astray (`PlaceOK`), and
every size lies between two sizes the teams had before, so the spread cannot
grow.  Two teams need more (`TwoOK`): the larger gives, the list is exact, and
the loop stops when they are even or the larger has no bot left.  The proof
goes through what `calcteams()` returns (`CalcteamsIs`), one turn that gives
(`GiveKeeps`), one that drops the head of the list (`TailKeeps`), and the end
of the loop (`EvenInTheEnd`).

A place can be renamed only by the move of the bot it points to, and while it
has its name it points to a bot not moved yet or to a human (`ListsOK`).  Of two
teams, once the larger has the name of the other, its bots go where they are
and nothing changes (`BentOK`): the larger has given one by then, and is not the
smaller.  This is all the theorem says of that case, and with three teams or
more it says nothing of it.

### World states

| theorem of `RoomProofs` | states |
|---|---|
| `WorldIsHeard` | `RoomSpec => []OthersAreHeard` |

Assumed: finitely many slots and bots, none of them both.

`WorldInv` adds to the property that everyone is listed once and every bot in
one list at most (`ListsOK`), that bots without owner and bots taken over are in
none (`StraysOK`), what is known of those who said something, and that a
buffer's `uses` is the number of packets that read it (`PacketsOK`).  The work
is in one step, `buildworldstate()`.  `addclientstate()` is folded over the
clients and their bots; the proof follows the fold with `Round`: everyone
visited is in the buffer as often as he said something (`Counted`), a human's
part is exactly where he and his bots are (`PartOf`), and while his bots are
added it is the end of the buffer (`AtEnd`), which is why the code can move the
end of a part along.  The packet of a client starts behind its part in the
doubled buffer and is shorter than the buffer by that part; read modulo the
length of the buffer, it meets every place outside the part once
(`CountInCut`) and none inside (`NotInCut`).

### ENet

| theorem of `LinksProofs` | states |
|---|---|
| `AnsweredCommandsWereTaken` | `LinksSpec => []AnsweredWasTaken` |
| `WindowsCountOutstanding` | `LinksSpec => []WindowsCount` |
| `ChannelIsAPipe` | `LinksSpec => ImplementsPipe` |

Assumed: half of the windows are free, three at least (8 of 16 in the code); a
packet has no more fragments than a window has numbers, and no fragment is
longer than the window of data in transit may become; the counter of that data
has room for twice the window; and no copy is on its
way for more than `MaxAge` later commands, one window less than the free ones.
The last is a hypothesis about the network: the receiver accepts half of the
numbers ahead of it, so a copy that is older than that would be taken for a new
command.  The sender does not enforce it: it stops at a window that is still in
use, by a mask that is cut off at the last window (`protocol.c:1278`), and a
copy may outlive its command.

`EnetInv` has three parts besides the types.  `SenderIs`: what is outstanding
is in exactly one of the two lists, in order, as sent or as waiting to be sent
again, and the windows count it.  `WireIs`: copies and answers on the network
are of commands that were sent, no older than `MaxAge`; the receiver holds the
packets it has passed on and, of those ahead, the fragments that came; an
answer is about something it has.  `SentIs`: what was sent and is no longer
outstanding is in the receiver's hands.  The lemmas on numbers give every
command an era, the window it would have if windows never started over;
commands that can meet are less than half of all eras apart, so equal numbers
mean equal commands, and the receiver's comparison of windows is the one of
eras.  The refinement follows from what one reception passes on (`Delivers`):
the next packets in order, as far as they are whole, each a `Get` of `Pipe`,
and the sender's lists give `Put` and `GiveUp`.

The wrapped counter of the finding `enet_stall` is in the model, and the theorems
hold with it: it stops packets, it does not lose or reorder them.

### Master server and IRC

| theorem | states |
|---|---|
| `AuthIsOfRequest` of `RoomProofs` | `RoomSpec => []AuthFitsRequest` |
| `ChannelsStayInStep` of `LinksProofs` | `LinksSpec => []ChannelsInStep` |

`AInv` follows a line from `requestmaster()` to the other end and back: the line
that is half sent is the one the other end has begun (`StreamOK`), which is why
`disconnectmaster()` must empty the output; and every request that is waited
for is by the one who waits.  `HInv` says of a connection what the network will
know when it has read all that was written (`JoinedAtLast`): the last word on a
channel decides.  A client that was not welcomed has said nothing about
channels, and it is welcomed once in a connection, so what `001` makes it join
is all it was told.

### How the proofs are made

* The theorems of `MatchProofs` (the last two), `RoomProofs`, `LinksProofs` and
  `LobbyProofs` are about the sums, whose specification is the one TLC runs; a
  step of another part leaves the variables of this one alone.
* Recursion is written as recursive functions, and what they compute is proved
  by induction on a set of numbers (`InductiveSet`, `FlushedTrace`,
  `SetInduction`).  The induction theorems of the library take an operator as a
  parameter, which the installed provers cannot instantiate; induction on
  naturals, on finite sets and on sorting is derived by hand from
  `WFMin` (well-foundedness of the naturals).  The folds of the community modules
  are expanded to the functions they are defined by, and what those return is
  proved in the same way.
* Operators the provers cannot see into, `SelectSeq` above all, are kept out of
  the definitions that are proved about.
* Where a handler is one large function, the proof has a lemma for each
  operator it calls (`...Is` for what it returns, `...Keeps` for what it
  preserves), and the next-state lemma cites one of them for each action.

### What is only model-checked

Liveness (`OrphansGoAway`, `TheDeadComeBack`, `MatchesFollow`,
`GroundIsTemporary`, `EnemyFades`, `PacketsArrive`, `QuitEnds`) and everything
about `ENABLED`: out of the prover's reach.  Every other property of a run that
passes is stated by a theorem above.  The hypotheses of `KeepsMastership` and
`BasesCountWhoStands` are the settings of the runs `room` and `modes`;
`LifeAssumption` and the bound on `MaxAge` are about delays no code bounds.

## 5. Plan

Done, in this order: `Sessions` with `Mastership` and proofs,
`BotTables`/`Bots`/`BotLoops`, `CtfFlags` with `Custody`, `Spawning`,
`MatchCycle`, `Events`, `Teams`, `WorldStates`, `MasterServer`, `CaptureBases`
and `GameModes`, `EnetChannel` with `Pipe`, `IrcLink`; the theorems of section 4.

Modelling that is left: hits between two clients in `Events` (a hit counts for
the life it met), and the connecting and disconnecting of ENet peers.

## 6. What is not modelled

Positions, physics, pushes and hit geometry; the texts of messages and the
layout of packets; the interpreter of cubescript; map files and checksums;
HTTP pages, hooks and the server list, which only read the state of the game;
playback of demos; items and saved scores, each a table that one handler
writes and one reads; the aliases of `stdlib.cfg`; of ENet the handshake,
unreliable and unsequenced packets and compression; IRC users and chat;
libevent, which is assumed to report what section 3 says of it.
`PROJECT.json` lists every component with its reason.

## 7. Running the checks

    tlc -workers 2 -config MCRoom.cfg MCRoom
    tlapm SessionsProofs.tla

The other runs are in `PROJECT.json`, the other proofs in the modules
`...Proofs`.  The longest run takes two to three minutes, the longest proof
(`LinksProofs`) about thirteen, the next (`LobbyProofs`) eight or nine.
