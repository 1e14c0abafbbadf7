-------------------------------- MODULE Teams --------------------------------
(***************************************************************************)
(* Who plays in which team: autoteam() and chooseworstteam() of            *)
(* src/fpsgame/server.cpp, and calcteams(), balanceteams(), chooseteam()   *)
(* of src/fpsgame/aiman.h, in a team mode.  A team is a name: 1 is "evil", *)
(* 2 is "good", the two the server gives, the others are names players     *)
(* chose, in the order of strcmp().  A rank is effectiveness per time      *)
(* played, on a small scale.  autoteam() and balanceteams() run one turn   *)
(* of their loop at a time; nothing else happens meanwhile.                *)
(***************************************************************************)
EXTENDS Integers, FiniteSetsExt, SequencesExt

CONSTANTS
  People,   \* humans
  NumTeams, \* bound: names in use
  BotLimit, \* bound: bots at a time
  MaxRank   \* bound: the best rank

Evil == 1
Good == 2
Defaults == {Evil, Good}
Names == 1 .. NumTeams

\* In steps of a fraction: -1 is a player's rank below 0, which is above the
\* whole -1 that choosebestclient() gives a spectator.
Ranks == -1 .. MaxRank
SpectatorRank == -2

VARIABLES
  team,       \* the team of each human in `clients`
  spectators, \* those in state CS_SPECTATOR
  bots,       \* how many bots each team has
  mode,       \* "teamplay", "capture" or "ctf"
  dorefresh,  \* of aiman
  call        \* the loop that runs, and its local variables

vars == <<team, spectators, bots, mode, dorefresh, call>>

Idle == [fun |-> "none"]

clients == DOMAIN team
Active == clients \ spectators
hidefrags == mode # "teamplay"

Humans(t) == Cardinality({c \in Active : team[c] = t})
Members(t) == Humans(t) + bots[t]
AllBots == SumFunction(bots)

\* f with t for c
With(f, c, t) == [d \in DOMAIN f \cup {c} |-> IF d = c THEN t ELSE f[d]]

TypeOK ==
  /\ team \in UNION {[C -> Names] : C \in SUBSET People}
  /\ spectators \subseteq clients
  /\ bots \in [Names -> 0..BotLimit]
  /\ mode \in {"teamplay", "capture", "ctf"}
  /\ dorefresh \in BOOLEAN
  /\ call.fun \in {"none", "autoteam", "balanceteams"}

-----------------------------------------------------------------------------
(* autoteam(): the best of those who are left goes to the weaker team.     *)

Other(t) == IF t = Good THEN Evil ELSE Good

\* hides: hidefrags() of the mode that `smode` still is.
Autoteam(rank, hides) ==
  [fun |-> "autoteam", hides |-> hides, rank |-> rank, left |-> DOMAIN rank, first |-> Good,
   selected |-> FALSE, sum |-> [t \in Defaults |-> 0], put |-> <<>>]

\* choosebestclient()
Best == {c \in call.left : \A d \in call.left : call.rank[d] <= call.rank[c]}

Worth(c) == IF call.hides THEN 1 ELSE call.rank[c]

\* Mutant: the team that is ahead picks on.
PicksWhenAhead(c) == call.selected => Worth(c) > 0

\* The team whose turn it is picks c, if it is not ahead and c is not one of
\* the worthless it may take only one of.
Picks(c) ==
  /\ call.sum[call.first] <= call.sum[Other(call.first)]
  /\ call.selected => Worth(c) > 0

\* One pick, in the while loop of a round; a worthless pick ends the round.
Pick ==
  /\ call.fun = "autoteam"
  /\ \E c \in Best :
       /\ Picks(c)
       /\ call' = [call EXCEPT
            !.left = @ \ {c},
            !.put = With(@, c, call.first),
            !.sum = [t \in Defaults |-> IF t = call.first /\ Worth(c) > 0
                                       THEN call.sum[t] + Worth(c) ELSE call.sum[t]],
            !.selected = Worth(c) > 0,
            !.first = IF Worth(c) > 0 THEN @ ELSE Other(@)]
  /\ UNCHANGED <<team, spectators, bots, mode, dorefresh>>

RoundOver == call.fun = "autoteam" /\ \A c \in Best : ~Picks(c)

NextRound ==
  /\ RoundOver
  /\ call.selected
  /\ call' = [call EXCEPT !.selected = FALSE, !.first = Other(@)]
  /\ UNCHANGED <<team, spectators, bots, mode, dorefresh>>

Teamed == RoundOver /\ ~call.selected

\* Those who were not picked stay where they were.
EndAutoteam ==
  /\ Teamed
  /\ team' = [c \in clients |-> IF c \in DOMAIN call.put THEN call.put[c] ELSE team[c]]
  /\ call' = Idle
  /\ UNCHANGED <<spectators, bots, mode, dorefresh>>

-----------------------------------------------------------------------------
(* balanceteams(): bots go from the largest team to the smallest.          *)

\* teamscore::compare()
Larger(x, y) == x.score > y.score \/ (x.score = y.score /\ x.team < y.team)

InOrder(S, Before(_, _)) ==
  CHOOSE s \in SetToSeqs(S) : \A i, j \in DOMAIN s : i < j => Before(s[i], s[j])

\* calcteams(): the teams with members, largest first, and the names the
\* server gives when there are fewer than two.
Calcteams ==
  LET present == {t \in Names : Members(t) > 0}
      scores == InOrder({[team |-> t, score |-> Members(t)] : t \in present}, Larger)
      empty == {[team |-> t, score |-> 0] : t \in Defaults \ present} IN
  IF Len(scores) >= Cardinality(Defaults) THEN scores
  ELSE scores \o InOrder(empty, LAMBDA x, y : x.team > y.team)

\* A place of the list does not hold a name, it points to the `team` of the
\* first of its members in `clients`.  OfBots: the teams in which that may be
\* a bot, which is so where all members are.
OfBots == {S \in SUBSET {t \in Names : bots[t] > 0} :
             \A t \in Names : bots[t] > 0 /\ Humans(t) = 0 => t \in S}

\* The local variables of balanceteams(): a place is known by the team it was
\* made for, says[t] is what it points to, and ofbots are those that point to a
\* bot of `left`, the bots not moved yet.  before: the scores it began with.
Balance(scores, ofbots) ==
  [fun |-> "balanceteams", teams |-> scores, left |-> bots,
   says |-> [t \in Names |-> t], ofbots |-> ofbots,
   before |-> [t \in {scores[i].team : i \in DOMAIN scores} |-> Members(t)]]

\* Mutant: a difference of two is still even.
UnevenByThree ==
  /\ call.teams # <<>>
  /\ Head(call.teams).score > Last(call.teams).score + 2
  /\ SumFunction(call.left) > 0

\* The loop's condition
Uneven ==
  /\ call.teams # <<>>
  /\ Head(call.teams).score > Last(call.teams).score + 1
  /\ SumFunction(call.left) > 0

\* The swaps that put the last team, which grew, before those it overtook.
Lifted(s) ==
  LET n == Len(s)
      k == Max({0} \cup {j \in 1..n - 1 : s[j].score >= s[n].score}) IN
  [i \in 1..n |-> IF i <= k THEN s[i] ELSE IF i = k + 1 THEN s[n] ELSE s[i - 1]]

\* A point goes from the first team to the last.
Scored(s) ==
  [i \in DOMAIN s |-> [s[i] EXCEPT !.score = @ + (IF i = Len(s) THEN 1 ELSE 0)
                                              - (IF i = 1 THEN 1 ELSE 0)]]

\* The reference `t` names the last place of the list, not the team that was
\* there before the swaps.
Goes(s) == call.says[Last(s).team]

\* The bot that is picked may be the one a place points to, if it is the
\* first of them in `reassign`, and is if no other is left.
IsPointedTo(big) ==
  {itself \in BOOLEAN : /\ itself => big \in call.ofbots
                        /\ big \in call.ofbots /\ call.left[big] = 1 => itself}

\* A place that points to the bot has its new name from then on.
Shift ==
  /\ call.fun = "balanceteams" /\ Uneven
  /\ LET big == call.says[Head(call.teams).team]
         scores == Lifted(Scored(call.teams))
     IN  IF call.left[big] > 0
         THEN /\ bots' = [bots EXCEPT ![big] = @ - 1, ![Goes(scores)] = @ + 1]
              /\ \E itself \in IsPointedTo(big) :
                   call' = [call EXCEPT
                     !.teams = scores,
                     !.left = [call.left EXCEPT ![big] = @ - 1],
                     !.says = IF itself THEN [call.says EXCEPT ![big] = Goes(scores)] ELSE call.says,
                     !.ofbots = IF itself THEN call.ofbots \ {big} ELSE call.ofbots]
         ELSE /\ call' = [call EXCEPT !.teams = Tail(@)]
              /\ UNCHANGED bots
  /\ UNCHANGED <<team, spectators, mode, dorefresh>>

Balanced == call.fun = "balanceteams" /\ ~Uneven

EndBalance ==
  /\ Balanced
  /\ call' = Idle
  /\ UNCHANGED <<team, spectators, bots, mode, dorefresh>>

-----------------------------------------------------------------------------
(* What starts the loops and what happens between them.                    *)

Init ==
  /\ team = <<>> /\ spectators = {}
  /\ bots = [t \in Names |-> 0]
  /\ mode \in {"teamplay", "capture", "ctf"}
  /\ dorefresh = FALSE
  /\ call = Idle

\* chooseworstteam(): the smaller of the two teams when frags are hidden, the
\* lower rank otherwise, which may be either.
Worst == {t \in Defaults : hidefrags => Humans(t) <= Humans(Other(t))}

\* N_CONNECT
Connect(c) ==
  /\ c \in People \ clients
  /\ \E t \in Worst : team' = With(team, c, t)
  /\ spectators' \in {spectators, spectators \cup {c}}
  /\ dorefresh' = TRUE
  /\ UNCHANGED <<bots, mode, call>>

\* clientdisconnect(); the bots of the last human go with him.
Leave(c) ==
  /\ c \in clients
  /\ team' = Restrict(team, clients \ {c})
  /\ spectators' = spectators \ {c}
  /\ bots' = IF clients = {c} THEN [t \in Names |-> 0] ELSE bots
  /\ dorefresh' \in IF clients = {c} /\ AllBots > 0 THEN {TRUE} ELSE {dorefresh, TRUE}
  /\ UNCHANGED <<mode, call>>

\* spectator(1, c)
Spectate(c) ==
  /\ c \in Active
  /\ spectators' = spectators \cup {c}
  /\ dorefresh' \in {dorefresh, TRUE}
  /\ UNCHANGED <<team, bots, mode, call>>

\* spectator(0, c)
Unspectate(c) ==
  /\ c \in spectators
  /\ spectators' = spectators \ {c}
  /\ dorefresh' = TRUE
  /\ UNCHANGED <<team, bots, mode, call>>

\* canchangeteam(): only the flag modes insist on the two names.
MayBe(t) == mode = "ctf" => t \in Defaults

\* N_SWITCHTEAM, and N_SETTEAM for a human
Switch(c, t) ==
  /\ c \in clients /\ team[c] # t /\ MayBe(t)
  /\ team' = [team EXCEPT ![c] = t]
  /\ dorefresh' = TRUE
  /\ UNCHANGED <<spectators, bots, mode, call>>

\* N_SETTEAM for a bot, which schedules no refresh.
SetBotTeam(t, u) ==
  /\ t # u /\ bots[t] > 0 /\ MayBe(u)
  /\ bots' = [bots EXCEPT ![t] = @ - 1, ![u] = @ + 1]
  /\ UNCHANGED <<team, spectators, mode, dorefresh, call>>

\* addai() of a new bot, into the team chooseteam() finds.
AddBot ==
  /\ clients # {} /\ AllBots < BotLimit
  /\ bots' = [bots EXCEPT ![Last(Calcteams).team] = @ + 1]
  /\ dorefresh' = TRUE
  /\ UNCHANGED <<team, spectators, mode, call>>

\* deleteai()
DelBot(t) ==
  /\ bots[t] > 0
  /\ bots' = [bots EXCEPT ![t] = @ - 1]
  /\ dorefresh' = TRUE
  /\ UNCHANGED <<team, spectators, mode, call>>

\* changemap(): the bots go and autoteam() runs, while smode is still that of
\* the mode before.
ChangeMap(next) ==
  /\ clients # {}
  /\ mode' = next
  /\ bots' = [t \in Names |-> 0]
  /\ dorefresh' = TRUE
  /\ \E rank \in [Active -> Ranks] :
       call' = Autoteam([c \in clients |-> IF c \in Active THEN rank[c] ELSE SpectatorRank],
                        hidefrags)
  /\ UNCHANGED <<team, spectators>>

\* checkai() with its checksetup(); botbalance may be off.
CheckAI(botbalance) ==
  /\ dorefresh
  /\ dorefresh' = FALSE
  /\ bots' = IF clients = {} THEN [t \in Names |-> 0] ELSE bots
  /\ IF clients = {} \/ ~botbalance THEN call' = Idle
     ELSE \E ofbots \in OfBots : call' = Balance(Calcteams, ofbots)
  /\ UNCHANGED <<team, spectators, mode>>

Step ==
  \/ \E c \in People : \/ Connect(c) \/ Leave(c) \/ Spectate(c) \/ Unspectate(c)
                       \/ \E t \in Names : Switch(c, t)
  \/ AddBot
  \/ \E t \in Names : DelBot(t) \/ \E u \in Names : SetBotTeam(t, u)
  \/ \E next \in {"teamplay", "capture", "ctf"} : ChangeMap(next)
  \/ \E botbalance \in BOOLEAN : CheckAI(botbalance)

Next ==
  \/ call = Idle /\ Step
  \/ Pick \/ NextRound \/ EndAutoteam
  \/ Shift \/ EndBalance

Spec == Init /\ [][Next]_vars

-----------------------------------------------------------------------------
(* Properties.                                                             *)

\* autoteam() leaves two teams nobody can complain of, by the mode that ends:
\* where that one hid frags everybody is in one of them and the numbers of
\* players differ by one at most; elsewhere everybody with a rank above 0 is,
\* and the ranks differ by no more than the best player's.
AutoteamIsFair ==
  Teamed =>
    LET playing(t) == Cardinality({c \in DOMAIN call.put \cap Active : call.put[c] = t})
        best == Max({0} \cup {call.rank[c] : c \in clients})
    IN  IF call.hides
        THEN /\ DOMAIN call.put = clients
             /\ playing(Good) - playing(Evil) \in -1..1
        ELSE /\ \A c \in clients : call.rank[c] > 0 => c \in DOMAIN call.put
             /\ call.sum[Good] - call.sum[Evil] \in -best..best

\* No place of the list got another name in mid-loop.
Straight == \A t \in Names : call.says[t] = t

\* With two teams balanceteams() leaves no bot in a team that is larger than
\* the other by two or more.  With more it may, because a bot can join another
\* team than the one its score was added to; the spread does not grow then.
\* Neither is promised when a bot took the name of its place with it: the loop
\* takes its new team for the old one.  But of two teams the larger still gives
\* a bot if it has one, and does not become the smaller.
BotsEvenTeams ==
  Balanced =>
    LET known == DOMAIN call.before
        Spread(f) == Max({f[t] - f[u] : t, u \in known}) IN
    /\ Cardinality(known) = 2 =>
         \A t, u \in known :
           /\ Straight /\ bots[t] > 0 => Members(t) <= Members(u) + 1
           /\ call.before[t] > call.before[u] + 1 =>
                /\ Members(t) >= Members(u)
                /\ bots[t] > 0 => Members(t) < call.before[t]
    /\ Straight => Spread([t \in known |-> Members(t)]) <= Max({1, Spread(call.before)})
=============================================================================
