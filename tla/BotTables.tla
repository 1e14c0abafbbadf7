----------------------------- MODULE BotTables -----------------------------
(***************************************************************************)
(* The tables of the bots, src/fpsgame/aiman.h, and the functions that     *)
(* rewrite them.  A bot is played by the program of a human client, its    *)
(* owner: `ownernum` of the bot names the owner, the vector `bots` of the  *)
(* owner lists the bot, and the two are written separately.                *)
(***************************************************************************)
EXTENDS Integers, FiniteSets

CONSTANTS
  Slots,      \* client numbers of humans
  NoSlot,     \* ownernum == -1
  MaxBots     \* MAXBOTS

ASSUME SlotsAssumption == NoSlot \notin Slots /\ IsFiniteSet(Slots)
ASSUME LimitAssumption == MaxBots \in Nat

BotIds == 0 .. MaxBots - 1

Owners == Slots \cup {NoSlot}

Tables == [bots: SUBSET BotIds,             \* the slots of `bots` in use
           owner: [BotIds -> Owners],       \* ownernum
           listed: [Slots -> SUBSET BotIds],\* ci->bots of each human
           taken: SUBSET BotIds,            \* taken over by addai(), see Added
           reinit: SUBSET BotIds,           \* aireinit == 2
           told: [BotIds -> Owners],        \* owner in the last N_INITAI
           dorefresh: BOOLEAN]

-----------------------------------------------------------------------------
(* Owners.                                                                 *)

Load(a, c) == Cardinality(a.listed[c])

\* validaiclient(), for a set of spectators and a privileged human
Valid(C, S, m) == {c \in C : c \notin S \/ c = m}

\* Mutant: the comparison is the wrong way round.
LeastBusiest(a, V) == {c \in V : \A d \in V : Load(a, d) <= Load(a, c)}

\* findaiclient(): the least loaded of the valid clients, whoever of them
\* comes first in `clients`.
Least(a, V) == {c \in V : \A d \in V : Load(a, c) <= Load(a, d)}

\* Mutant: the refresh is not scheduled.
ShiftedQuietly(a, f) ==
  [a EXCEPT
     !.owner = [b \in BotIds |-> IF b \in DOMAIN f THEN f[b] ELSE @[b]],
     !.listed = [c \in Slots |-> (@[c] \ DOMAIN f) \cup {b \in DOMAIN f : f[b] = c}],
     !.reinit = (@ \ DOMAIN f) \cup {b \in DOMAIN f : f[b] # NoSlot}]

\* shiftai() of every bot b of the function f to f[b].
Shifted(a, f) ==
  [a EXCEPT
     !.owner = [b \in BotIds |-> IF b \in DOMAIN f THEN f[b] ELSE @[b]],
     !.listed = [c \in Slots |-> (@[c] \ DOMAIN f) \cup {b \in DOMAIN f : f[b] = c}],
     !.reinit = (@ \ DOMAIN f) \cup {b \in DOMAIN f : f[b] # NoSlot},
     !.dorefresh = @ \/ DOMAIN f # {}]

ListedBots(a, C) == UNION {a.listed[c] : c \in C}

\* Bots given one by one to the least loaded of V leave every receiver at
\* most one bot above anyone in V.
Filled(a, f, V) ==
  LET later == Shifted(a, f) IN
  \A c \in V : Load(later, c) > Load(a, c) =>
    \A d \in V : Load(later, c) <= Load(later, d) + 1

\* removeai() of each client in C: the outcomes of handing all their bots to
\* the valid clients V, or of scheduling their removal when V is empty.
Released(a, C, V) ==
  LET S == ListedBots(a, C)
      hands == [S -> IF V = {} THEN {NoSlot} ELSE V] IN
  {Shifted(a, f) : f \in {g \in hands : Filled(a, g, V)}}

-----------------------------------------------------------------------------
(* Bots come and go.                                                       *)

\* Mutant: a deleted bot stays in the list of its owner.
DeletedStaysListed(a, B) ==
  [a EXCEPT !.bots = @ \ B,
            !.owner = [b \in BotIds |-> IF b \in B THEN NoSlot ELSE @[b]],
            !.taken = @ \ B,
            !.reinit = @ \ B,
            !.told = [b \in BotIds |-> IF b \in B THEN NoSlot ELSE @[b]],
            !.dorefresh = @ \/ B # {}]

\* deleteai(ci) of every bot in B
Deleted(a, B) ==
  [a EXCEPT !.bots = @ \ B,
            !.owner = [b \in BotIds |-> IF b \in B THEN NoSlot ELSE @[b]],
            !.listed = [c \in Slots |-> @[c] \ {b \in B : a.owner[b] = c}],
            !.taken = @ \ B,
            !.reinit = @ \ B,
            !.told = [b \in BotIds |-> IF b \in B THEN NoSlot ELSE @[b]],
            !.dorefresh = @ \/ B # {}]

\* clearai()
Cleared(a) == Deleted(a, a.bots)

Owned(a) == {b \in a.bots : a.owner[b] # NoSlot}

\* The bots whose owner and list are written together
Regular(a) == a.bots \ a.taken

\* addai() refuses when `limit` bots have an owner.
MayAdd(a, limit) == Cardinality(Owned(a)) < limit

\* The first slot of `bots` that is empty or going to be removed.
FreeBot(a) == CHOOSE b \in BotIds \ Owned(a) :
                \A d \in BotIds \ Owned(a) : b <= d

\* addai() for the new owner c: a bot that was going to be removed is taken
\* over by setting its ownernum, a new one also enters the list of c.  Nothing
\* lists the one taken over later: shiftai() is for the bots of a list.
Added(a, c) ==
  LET b == FreeBot(a) IN
  IF b \in a.bots
  THEN [a EXCEPT !.owner[b] = c, !.taken = @ \cup {b},
                 !.reinit = @ \cup {b}, !.dorefresh = TRUE]
  ELSE [a EXCEPT !.bots = @ \cup {b}, !.owner[b] = c,
                 !.listed[c] = a.listed[c] \cup {b},
                 !.reinit = @ \cup {b}, !.dorefresh = TRUE]

\* Mutant: the announcement is not sent.
AnnouncedNot(a) == [a EXCEPT !.reinit = {}]

\* reinitai() of the bots whose owner changed
Announced(a) ==
  [a EXCEPT !.told = [b \in BotIds |-> IF b \in a.reinit THEN a.owner[b] ELSE @[b]],
            !.reinit = {}]

Even(a, V) == \A c, d \in V : Load(a, c) <= Load(a, d) + 1

Moved(a, later) == {b \in BotIds : later.owner[b] # a.owner[b]}

\* while(reassignai()): each call shifts a bot of the busiest valid client to
\* the least busy one until the two are at most one apart, which takes the
\* fewest shifts that make V even.
Rebalanced(a, V) ==
  IF Even(a, V) THEN {a} ELSE
  LET S == ListedBots(a, V)
      outcomes == {Shifted(a, [b \in {x \in S : g[x] # a.owner[x]} |-> g[b]]) :
                     g \in [S -> V]}
      even == {r \in outcomes : Even(r, V)} IN
  {r \in even : \A q \in even : Cardinality(Moved(a, r)) <= Cardinality(Moved(a, q))}
=============================================================================
