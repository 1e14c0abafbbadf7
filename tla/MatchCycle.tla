----------------------------- MODULE MatchCycle -----------------------------
(***************************************************************************)
(* How one match follows another, src/fpsgame/server.cpp: votes for the    *)
(* next map, the end of the match, the intermission, the request for a new *)
(* map that ends it when no vote won, and the demos that record matches.   *)
(* Who may become master is in Sessions; here the privileged player, if    *)
(* there is one, and the veto mode come and go.  Only modes that are       *)
(* played over the network are modelled: timed ones and coop edit.         *)
(***************************************************************************)
EXTENDS Integers, Sequences, FiniteSets, SequencesExt

CONSTANTS
  Humans,   \* clients that may vote; the votes of bots do not exist
  Rulers,   \* bound: those of them who may become privileged
  Nobody,
  Maps,     \* names of maps, none of them empty
  MaxDemos  \* MAXDEMOS

ASSUME HumansAssumption ==
  Nobody \notin Humans /\ IsFiniteSet(Humans) /\ Rulers \subseteq Humans
ASSUME DemoAssumption == MaxDemos \in Nat \ {0}

Kinds == {"timed", "edit"}
Options == Maps \X Kinds
NoVote == <<>>
NoName == ""

VARIABLES
  clients, spectators,
  holder,        \* the privileged player, or Nobody
  veto,          \* mastermode >= MM_VETO
  vote,          \* mapvote and modevote of each client
  map, kind,     \* smapname; is gamemode timed or coop edit?
  clock,         \* see Clocks
  mapreload,
  paused,
  demonextmatch,
  recording,     \* what demorecord records: "none", or "this" or (history)
                 \* an "earlier" match
  demos          \* the matches that were recorded, "this" or "earlier"

people == <<clients, spectators, holder, veto>>
match == <<map, kind, clock, mapreload, paused>>
tapes == <<demonextmatch, recording, demos>>
vars == <<people, vote, match, tapes>>

\* "running": gamemillis < gamelimit, or a mode without time; "up": the time
\* is over and interm == 0; "intermission": interm > 0; "closed": interm < 0.
Clocks == {"running", "up", "intermission", "closed"}

TypeOK ==
  /\ clients \subseteq Humans /\ spectators \subseteq clients
  /\ holder \in clients \cup {Nobody} /\ veto \in BOOLEAN
  /\ vote \in [Humans -> Options \cup {NoVote}]
  /\ \A c \in Humans \ clients : vote[c] = NoVote
  /\ map \in Maps \cup {NoName} /\ kind \in Kinds /\ clock \in Clocks
  /\ {mapreload, paused, demonextmatch} \subseteq BOOLEAN
  /\ recording \in {"none", "this", "earlier"}
  /\ demos \in Seq({"this", "earlier"}) /\ Len(demos) <= MaxDemos

-----------------------------------------------------------------------------
(* Demos.                                                                  *)

\* enddemorecord(): at MAXDEMOS the oldest demo makes room.
EndDemo(d, rec) ==
  IF rec = "none" THEN d
  ELSE Append(IF Len(d) >= MaxDemos THEN Tail(d) ELSE d, rec)

Older(tag) == IF tag = "this" THEN "earlier" ELSE tag

-----------------------------------------------------------------------------
(* changemap()                                                             *)

\* clientinfo::mapchange() for every client
ClearedVotes == [c \in Humans |-> NoVote]

\* setupdemorecord(): coop edit is not recorded, and the file may fail.
RecordedNext == IF demonextmatch /\ kind' = "timed" THEN {"none", "this"} ELSE {"none"}

ChangeMap(m, k) ==
  /\ map' = m /\ kind' = k
  /\ clock' = "running" /\ mapreload' = FALSE /\ paused' = FALSE
  /\ demos' = [i \in DOMAIN EndDemo(demos, recording) |-> Older(EndDemo(demos, recording)[i])]
  /\ recording' \in RecordedNext
  /\ demonextmatch' = FALSE
  /\ vote' = ClearedVotes
  /\ UNCHANGED people

-----------------------------------------------------------------------------
(* checkvotes()                                                            *)

\* Those whose vote counts.
Entitled == {c \in clients : c \notin spectators \/ c = holder}

Count(v, o) == Cardinality({c \in Entitled : v[c] = o})

\* The options with most votes; between equals the server throws a coin.
Best(v) == {o \in Options : /\ Count(v, o) > 0
                            /\ \A q \in Options : Count(v, q) <= Count(v, o)}

Majority(v, o) == Count(v, o) > Cardinality(Entitled) \div 2

\* checkvotes() after a vote: v are the votes, that one included.
CheckVotes(v) ==
  \/ \E o \in Best(v) : Majority(v, o) /\ ChangeMap(o[1], o[2])
  \/ /\ \A o \in Best(v) : ~Majority(v, o)
     /\ vote' = v
     /\ UNCHANGED <<people, match, tapes>>

\* Mutant: nobody is asked.
CloseIntermissionUnasked ==
  \/ \E o \in Best(vote) : Count(vote, o) > 1 /\ ChangeMap(o[1], o[2])
  \/ /\ \A o \in Best(vote) : Count(vote, o) <= 1
     /\ demos' = EndDemo(demos, recording) /\ recording' = "none"
     /\ clock' = "closed"
     /\ UNCHANGED <<people, vote, map, kind, mapreload, paused, demonextmatch>>

\* The end of serverupdate() when gamemillis passes interm: checkvotes(true),
\* which takes two votes at least, or asks for a map.
CloseIntermission ==
  \/ \E o \in Best(vote) : Count(vote, o) > 1 /\ ChangeMap(o[1], o[2])
  \/ /\ \A o \in Best(vote) : Count(vote, o) <= 1
     /\ demos' = EndDemo(demos, recording) /\ recording' = "none"
     /\ clock' = "closed" /\ mapreload' = TRUE
     /\ UNCHANGED <<people, vote, map, kind, paused, demonextmatch>>

-----------------------------------------------------------------------------
(* Messages and commands.                                                  *)

\* N_CONNECT
Join(c) ==
  /\ c \notin clients
  /\ clients' = clients \cup {c}
  /\ spectators' \in {spectators, spectators \cup {c}}
  /\ UNCHANGED <<holder, veto, vote, match, tapes>>

\* clientdisconnect(): nobody counts the votes again.  The last admin takes
\* the pause with him.
Leave(c) ==
  /\ c \in clients
  /\ clients' = clients \ {c} /\ spectators' = spectators \ {c}
  /\ IF holder = c THEN holder' = Nobody /\ veto' = FALSE /\ paused' = FALSE
     ELSE UNCHANGED <<holder, veto, paused>>
  /\ vote' = [vote EXCEPT ![c] = NoVote]
  /\ UNCHANGED <<map, kind, clock, mapreload, tapes>>

\* spectator(): nobody counts the votes again.
Spectate(c) ==
  /\ c \in clients
  /\ spectators' = IF c \in spectators THEN spectators \ {c} ELSE spectators \cup {c}
  /\ UNCHANGED <<clients, holder, veto, vote, match, tapes>>

\* setmaster() and setmastermode(): the master changes, or the mode does.
SetMaster ==
  /\ \/ /\ holder' \in (clients \cap Rulers) \cup {Nobody} /\ holder' # holder
        /\ veto' = FALSE
        /\ paused' \in IF holder' = Nobody THEN {FALSE} ELSE {FALSE, paused}
     \/ /\ holder # Nobody
        /\ veto' = ~veto
        /\ UNCHANGED <<holder, paused>>
  /\ UNCHANGED <<clients, spectators, vote, map, kind, clock, mapreload, tapes>>

\* Does the vote of c decide alone?
Decides(c) == mapreload \/ (c = holder /\ veto)

\* N_MAPVOTE, and N_MAPCHANGE while the server asks for a map: vote()
Vote(c, o) ==
  /\ c \in Entitled
  /\ LET v == [vote EXCEPT ![c] = o] IN
     IF Decides(c) THEN ChangeMap(o[1], o[2])
     ELSE CheckVotes(v)

\* vote() for the empty map takes the vote back.
Withdraw(c) ==
  /\ c \in Entitled
  /\ vote' = [vote EXCEPT ![c] = NoVote]
  /\ UNCHANGED <<people, match, tapes>>

\* `map` and `mode`: forcemap(); the map may be one without name.
Command(m, k) == ChangeMap(m, k)

\* N_NEWMAP
NewMap(c) ==
  /\ kind = "edit"
  /\ c \in Entitled
  /\ map' = NoName
  /\ UNCHANGED <<people, vote, kind, clock, mapreload, paused, tapes>>

\* N_PAUSEGAME
Pause ==
  /\ holder # Nobody
  /\ paused' = ~paused
  /\ UNCHANGED <<people, vote, map, kind, clock, mapreload, tapes>>

\* N_RECORDDEMO, N_STOPDEMO, N_CLEARDEMOS of an admin
RecordDemo ==
  /\ holder # Nobody
  /\ demonextmatch' = ~demonextmatch
  /\ UNCHANGED <<people, vote, match, recording, demos>>

\* Mutant: the stream is not deleted.
StopDemoGoesOn ==
  /\ holder # Nobody
  /\ demos' = EndDemo(demos, recording)
  /\ UNCHANGED <<people, vote, match, demonextmatch, recording>>

StopDemo ==
  /\ holder # Nobody
  /\ demos' = EndDemo(demos, recording) /\ recording' = "none"
  /\ UNCHANGED <<people, vote, match, demonextmatch>>

ClearDemos(n) ==
  /\ holder # Nobody
  /\ demos' = IF n = 0 THEN <<>> ELSE RemoveAt(demos, n)
  /\ UNCHANGED <<people, vote, match, demonextmatch, recording>>

-----------------------------------------------------------------------------
(* Time.                                                                   *)

\* Mutant: the end of the match is only shown.
TimeUpShown ==
  /\ clock = "running" /\ kind = "timed" /\ ~paused
  /\ clock' = "up"
  /\ UNCHANGED <<people, vote, map, kind, mapreload, paused, tapes>>

\* gamemillis reaches gamelimit; checkintermission() wants a map with a name.
TimeUp ==
  /\ clock = "running" /\ kind = "timed" /\ ~paused
  /\ clock' = IF map # NoName THEN "intermission" ELSE "up"
  /\ UNCHANGED <<people, vote, map, kind, mapreload, paused, tapes>>

\* startintermission(): a match with bases or flags is decided.
Decided ==
  /\ clock \in {"running", "up"} /\ kind = "timed"
  /\ clock' = "intermission"
  /\ UNCHANGED <<people, vote, map, kind, mapreload, paused, tapes>>

\* Ten seconds of intermission are over.
IntermissionOver == clock = "intermission" /\ ~paused /\ CloseIntermission

TimePasses == TimeUp \/ IntermissionOver

-----------------------------------------------------------------------------
Init ==
  /\ clients = {} /\ spectators = {} /\ holder = Nobody /\ veto = FALSE
  /\ vote = [c \in Humans |-> NoVote]
  /\ map = NoName /\ kind = "timed" /\ clock = "up"
  /\ mapreload = FALSE /\ paused = FALSE
  /\ demonextmatch = FALSE /\ recording = "none" /\ demos = <<>>

Next ==
  \/ \E c \in Humans : \/ Join(c) \/ Leave(c) \/ Spectate(c)
                       \/ Withdraw(c) \/ NewMap(c)
                       \/ \E o \in Options : Vote(c, o)
  \/ \E m \in Maps \cup {NoName}, k \in Kinds : Command(m, k)
  \/ SetMaster \/ Pause
  \/ RecordDemo \/ StopDemo \/ \E n \in 0 .. Len(demos) : ClearDemos(n)
  \/ TimePasses \/ Decided

Spec == Init /\ [][Next]_vars

\* serverupdate() runs from a timer, and gamemillis grows with every run
\* while the game is not paused.
FairSpec == Spec /\ WF_vars(TimePasses)

-----------------------------------------------------------------------------
(* Properties.                                                             *)

\* The intermission is closed for good only while the server asks for a map,
\* and it asks only then: so any player can start the next match alone, and
\* nobody can end a running match alone but the master.
ClosedAsksForMap == TypeOK /\ (clock = "closed" <=> mapreload)

\* A recording is of the match that runs, a timed one, and a match gives one
\* demo at most.
OneDemoPerMatch ==
  /\ recording # "earlier"
  /\ recording = "this" => kind = "timed" /\ "this" \notin Range(demos)
  /\ \A i, j \in DOMAIN demos : demos[i] = "this" /\ demos[j] = "this" => i = j

\* A timed match on a map with a name comes to an end, and after its end the
\* next match begins or the players are asked for one, unless it is paused.
MatchesFollow ==
  /\ (clock = "running" /\ kind = "timed" /\ map # NoName)
       ~> (clock = "intermission" \/ paused \/ kind = "edit" \/ map = NoName)
  /\ clock = "intermission" ~> (clock = "running" \/ mapreload \/ paused)
=============================================================================
