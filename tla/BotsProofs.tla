----------------------------- MODULE BotsProofs -----------------------------
(***************************************************************************)
(* Proofs about Bots, for every set of humans and every MAXBOTS: what each *)
(* function of BotTables does to the tables, one lemma for each, and what  *)
(* each handler of Bots makes of them.                                     *)
(***************************************************************************)
EXTENDS Bots, FiniteSetTheorems, WellFoundedInduction, TLAPS

\* What FreeBot chooses exists.
LEMMA LeastNatural ==
  ASSUME NEW T, T \subseteq Nat, T # {}
  PROVE  \E x \in T : \A y \in T : x <= y
<1> DEFINE R == OpToRel(<, Nat)
<1>1. IsWellFoundedOn(R, Nat)
  BY NatLessThanWellFounded
<1>2. \A x, y \in Nat : <<y, x>> \in R <=> y < x
  BY DEF OpToRel
<1> HIDE DEF R
<1>3. PICK x \in T : \A y \in T : ~ (<<y, x>> \in R)
  BY <1>1, WFMin
<1>4. \A y \in T : ~ (y < x)
  BY <1>2, <1>3
<1>5. \A y \in T : x <= y
  BY <1>4
<1> QED BY <1>5

-----------------------------------------------------------------------------
(* The tables.                                                             *)

\* A client lists the bots that name it, those taken over by addai() apart.
Agree(a) ==
  /\ a.taken \subseteq Owned(a)
  /\ \A c \in Slots, b \in BotIds : b \in a.listed[c] <=> b \in Regular(a) /\ a.owner[b] = c

\* Who has bots in his list
Holders(a) == {c \in Slots : a.listed[c] # {}}

\* A bot with an owner whom the clients were not told of is marked for it.
Marked(a) ==
  \A b \in a.bots : \/ b \in a.reinit
                    \/ a.told[b] = a.owner[b]
                    \/ a.owner[b] = NoSlot

LEMMA TablesIs ==
  ASSUME NEW a \in Tables
  PROVE  /\ a.bots \subseteq BotIds /\ a.owner \in [BotIds -> Owners]
         /\ a.listed \in [Slots -> SUBSET BotIds] /\ a.reinit \subseteq BotIds
         /\ a.taken \subseteq BotIds
         /\ a.told \in [BotIds -> Owners] /\ a.dorefresh \in BOOLEAN
BY DEF Tables

\* What a client lists is there, and is not taken over.
LEMMA ListedIs ==
  ASSUME NEW a \in Tables, Agree(a), NEW c \in Slots
  PROVE  /\ a.listed[c] = {b \in Regular(a) : a.owner[b] = c}
         /\ a.listed[c] \subseteq Regular(a) /\ a.listed[c] \subseteq BotIds
<1>1. a.bots \subseteq BotIds /\ a.listed[c] \subseteq BotIds
  BY TablesIs
<1> QED BY <1>1 DEF Agree, Regular

LEMMA RefreshIs ==
  ASSUME NEW a \in Tables, NEW r \in BOOLEAN, NEW d, d = [a EXCEPT !.dorefresh = r]
  PROVE  /\ d \in Tables /\ d.bots = a.bots /\ d.owner = a.owner
         /\ d.listed = a.listed /\ d.reinit = a.reinit /\ d.told = a.told
         /\ d.taken = a.taken /\ d.dorefresh = r
BY DEF Tables

LEMMA ShiftedIs ==
  ASSUME NEW a \in Tables, NEW f, DOMAIN f \subseteq BotIds,
         \A b \in DOMAIN f : f[b] \in Owners,
         NEW d, d = Shifted(a, f)
  PROVE  /\ d \in Tables
         /\ d.bots = a.bots
         /\ d.owner = [b \in BotIds |-> IF b \in DOMAIN f THEN f[b] ELSE a.owner[b]]
         /\ d.listed = [c \in Slots |-> (a.listed[c] \ DOMAIN f)
                                         \cup {b \in DOMAIN f : f[b] = c}]
         /\ d.reinit = (a.reinit \ DOMAIN f) \cup {b \in DOMAIN f : f[b] # NoSlot}
         /\ d.taken = a.taken
         /\ d.told = a.told
         /\ d.dorefresh = (a.dorefresh \/ DOMAIN f # {})
BY DEF Tables, Shifted, Owners

LEMMA DeletedIs ==
  ASSUME NEW a \in Tables, NEW B, B \subseteq BotIds, NEW d, d = Deleted(a, B)
  PROVE  /\ d \in Tables
         /\ d.bots = a.bots \ B
         /\ d.owner = [b \in BotIds |-> IF b \in B THEN NoSlot ELSE a.owner[b]]
         /\ d.listed = [c \in Slots |-> a.listed[c] \ {b \in B : a.owner[b] = c}]
         /\ d.reinit = a.reinit \ B
         /\ d.taken = a.taken \ B
         /\ d.told = [b \in BotIds |-> IF b \in B THEN NoSlot ELSE a.told[b]]
         /\ d.dorefresh = (a.dorefresh \/ B # {})
BY DEF Tables, Deleted, Owners

LEMMA AnnouncedIs ==
  ASSUME NEW a \in Tables, NEW d, d = Announced(a)
  PROVE  /\ d \in Tables
         /\ d.bots = a.bots /\ d.owner = a.owner /\ d.listed = a.listed
         /\ d.reinit = {} /\ d.taken = a.taken
         /\ d.told = [b \in BotIds |-> IF b \in a.reinit THEN a.owner[b] ELSE a.told[b]]
         /\ d.dorefresh = a.dorefresh
BY DEF Tables, Announced, Owners

\* The same bots with the same owners
Alike(a, d) ==
  /\ d.owner = a.owner /\ d.listed = a.listed
  /\ d.told = a.told /\ d.dorefresh = a.dorefresh

LEMMA ShiftKeeps ==
  ASSUME NEW a \in Tables, Agree(a), Marked(a), NEW V, V \subseteq Slots,
         NEW f, DOMAIN f \subseteq Regular(a), \A b \in DOMAIN f : f[b] \in V \cup {NoSlot},
         NEW d, d = Shifted(a, f)
  PROVE  /\ d \in Tables /\ Agree(d) /\ Marked(d) /\ d.bots = a.bots
         /\ \A c \in Holders(d) : c \in V \/ a.listed[c] \ DOMAIN f # {}
         /\ d.dorefresh \/ Alike(a, d)
<1>0. /\ a.bots \subseteq BotIds /\ a.owner \in [BotIds -> Owners]
      /\ a.listed \in [Slots -> SUBSET BotIds] /\ a.dorefresh \in BOOLEAN
  BY TablesIs
<1>1. /\ d \in Tables
      /\ d.bots = a.bots
      /\ d.owner = [b \in BotIds |-> IF b \in DOMAIN f THEN f[b] ELSE a.owner[b]]
      /\ d.listed = [c \in Slots |-> (a.listed[c] \ DOMAIN f)
                                      \cup {b \in DOMAIN f : f[b] = c}]
      /\ d.reinit = (a.reinit \ DOMAIN f) \cup {b \in DOMAIN f : f[b] # NoSlot}
      /\ d.taken = a.taken
      /\ d.told = a.told
      /\ d.dorefresh = (a.dorefresh \/ DOMAIN f # {})
  <2>1. DOMAIN f \subseteq BotIds /\ \A b \in DOMAIN f : f[b] \in Owners
    BY <1>0 DEF Owners, Regular
  <2> QED BY <2>1, ShiftedIs
<1>2. Agree(d)
  <2>1. d.taken \subseteq Owned(d)
    BY <1>0, <1>1 DEF Agree, Owned, Regular
  <2>2. ASSUME NEW c \in Slots, NEW b \in BotIds
        PROVE  b \in d.listed[c] <=> b \in Regular(d) /\ d.owner[b] = c
    <3>1. CASE b \in DOMAIN f
      BY <1>0, <1>1, <3>1 DEF Regular
    <3>2. CASE b \notin DOMAIN f
      BY <1>0, <1>1, <3>2 DEF Agree, Regular
    <3> QED BY <3>1, <3>2
  <2> QED BY <2>1, <2>2 DEF Agree
<1>3. Marked(d)
  BY <1>0, <1>1 DEF Marked
<1>4. \A c \in Holders(d) : c \in V \/ a.listed[c] \ DOMAIN f # {}
  BY <1>1, SlotsAssumption DEF Holders
<1>5. d.dorefresh \/ Alike(a, d)
  <2>1. CASE DOMAIN f = {}
    <3>1. d.owner = a.owner
      BY <1>0, <1>1, <2>1
    <3>2. d.listed = a.listed
      BY <1>0, <1>1, <2>1
    <3>3. d.dorefresh = a.dorefresh
      BY <1>0, <1>1, <2>1
    <3> QED BY <1>1, <3>1, <3>2, <3>3 DEF Alike
  <2>2. CASE DOMAIN f # {}
    BY <1>1, <2>2
  <2> QED BY <2>1, <2>2
<1> QED BY <1>1, <1>2, <1>3, <1>4, <1>5

\* removeai() of everybody in C
LEMMA ReleasedKeeps ==
  ASSUME NEW a \in Tables, Agree(a), Marked(a), NEW V, V \subseteq Slots,
         NEW C, C \subseteq Slots, NEW d \in Released(a, C, V)
  PROVE  /\ d \in Tables /\ Agree(d) /\ Marked(d) /\ d.bots = a.bots
         /\ Holders(d) \subseteq V \cup (Holders(a) \ C)
         /\ d.dorefresh \/ Alike(a, d)
<1>1. PICK f \in [ListedBots(a, C) -> IF V = {} THEN {NoSlot} ELSE V] : d = Shifted(a, f)
  BY DEF Released
<1>2. /\ DOMAIN f = ListedBots(a, C) /\ DOMAIN f \subseteq Regular(a)
      /\ \A b \in DOMAIN f : f[b] \in V \cup {NoSlot}
  BY ListedIs DEF ListedBots
<1>3. /\ d \in Tables /\ Agree(d) /\ Marked(d) /\ d.bots = a.bots
      /\ \A c \in Holders(d) : c \in V \/ a.listed[c] \ DOMAIN f # {}
      /\ d.dorefresh \/ Alike(a, d)
  BY <1>1, <1>2, ShiftKeeps
<1>4. Holders(d) \subseteq V \cup (Holders(a) \ C)
  <2> SUFFICES ASSUME NEW c \in Holders(d), c \notin V
               PROVE  c \in Holders(a) \ C
    OBVIOUS
  <2>1. c \in Slots /\ a.listed[c] \ ListedBots(a, C) # {}
    BY <1>2, <1>3 DEF Holders
  <2> QED BY <2>1 DEF Holders, ListedBots
<1> QED BY <1>3, <1>4

\* deleteai() of the bots in B
LEMMA DeletedKeeps ==
  ASSUME NEW a \in Tables, Agree(a), Marked(a), NEW B, B \subseteq BotIds,
         NEW d, d = Deleted(a, B)
  PROVE  /\ d \in Tables /\ Agree(d) /\ Marked(d) /\ d.bots = a.bots \ B
         /\ Holders(d) \subseteq Holders(a)
         /\ B # {} => d.dorefresh
         /\ a.dorefresh => d.dorefresh
         /\ B = {} => Alike(a, d)
<1>0. /\ a.bots \subseteq BotIds /\ a.owner \in [BotIds -> Owners]
      /\ a.listed \in [Slots -> SUBSET BotIds] /\ a.told \in [BotIds -> Owners]
      /\ a.dorefresh \in BOOLEAN
  BY TablesIs
<1>1. /\ d \in Tables
      /\ d.bots = a.bots \ B
      /\ d.owner = [b \in BotIds |-> IF b \in B THEN NoSlot ELSE a.owner[b]]
      /\ d.listed = [c \in Slots |-> a.listed[c] \ {b \in B : a.owner[b] = c}]
      /\ d.reinit = a.reinit \ B
      /\ d.taken = a.taken \ B
      /\ d.told = [b \in BotIds |-> IF b \in B THEN NoSlot ELSE a.told[b]]
      /\ d.dorefresh = (a.dorefresh \/ B # {})
  BY DeletedIs
<1>2. Agree(d)
  <2>1. d.taken \subseteq Owned(d)
    BY <1>0, <1>1 DEF Agree, Owned
  <2>2. ASSUME NEW c \in Slots, NEW b \in BotIds
        PROVE  b \in d.listed[c] <=> b \in Regular(d) /\ d.owner[b] = c
    <3>1. CASE b \in B
      BY <1>0, <1>1, <3>1 DEF Agree, Regular
    <3>2. CASE b \notin B
      BY <1>0, <1>1, <3>2 DEF Agree, Regular
    <3> QED BY <3>1, <3>2
  <2> QED BY <2>1, <2>2 DEF Agree
<1>3. Marked(d)
  BY <1>0, <1>1 DEF Marked
<1>4. Holders(d) \subseteq Holders(a)
  BY <1>1 DEF Holders
<1>5. B = {} => Alike(a, d)
  <2> HAVE B = {}
  <2>1. d.owner = a.owner
    BY <1>0, <1>1
  <2>2. d.listed = a.listed
    BY <1>0, <1>1
  <2>3. d.told = a.told
    BY <1>0, <1>1
  <2>4. d.dorefresh = a.dorefresh
    BY <1>0, <1>1
  <2> QED BY <2>1, <2>2, <2>3, <2>4 DEF Alike
<1> QED BY <1>0, <1>1, <1>2, <1>3, <1>4, <1>5

\* clearai()
LEMMA ClearedKeeps ==
  ASSUME NEW a \in Tables, Agree(a), Marked(a), NEW d, d = Cleared(a)
  PROVE  /\ d \in Tables /\ Agree(d) /\ Marked(d) /\ d.bots = {} /\ Holders(d) = {}
<1>1. d = Deleted(a, a.bots) /\ a.bots \subseteq BotIds
  BY TablesIs DEF Cleared
<1>2. /\ d \in Tables /\ Agree(d) /\ Marked(d) /\ d.bots = a.bots \ a.bots
  BY <1>1, DeletedKeeps
<1>3. Holders(d) = {}
  BY <1>2, ListedIs DEF Regular, Holders
<1> QED BY <1>2, <1>3

\* While fewer than MaxBots bots have an owner, some slot is free.
LEMMA FreeBotIs ==
  ASSUME NEW a \in Tables, NEW limit \in 0 .. MaxBots, MayAdd(a, limit)
  PROVE  FreeBot(a) \in BotIds \ Owned(a)
<1> DEFINE T == BotIds \ Owned(a)
<1>1. Owned(a) \subseteq BotIds
  BY TablesIs DEF Owned
<1>2. IsFiniteSet(BotIds) /\ Cardinality(BotIds) = MaxBots
  <2>1. IsFiniteSet(0 .. MaxBots - 1)
        /\ Cardinality(0 .. MaxBots - 1) = IF 0 > MaxBots - 1 THEN 0 ELSE (MaxBots - 1) - 0 + 1
    BY LimitAssumption, FS_Interval
  <2> QED BY <2>1, LimitAssumption DEF BotIds
<1>3. T # {}
  <2>1. Cardinality(Owned(a)) < limit
    BY DEF MayAdd
  <2>2. Owned(a) # BotIds
    BY <1>2, <2>1, LimitAssumption
  <2> QED BY <1>1, <2>2
<1>4. T \subseteq Nat
  BY LimitAssumption DEF BotIds
<1>5. \E b \in T : \A d \in T : b <= d
  BY <1>3, <1>4, LeastNatural
<1> QED BY <1>5 DEF FreeBot

\* addai()
LEMMA AddedKeeps ==
  ASSUME NEW a \in Tables, Agree(a), Marked(a), NEW limit \in 0 .. MaxBots,
         MayAdd(a, limit), NEW c \in Slots, NEW d, d = Added(a, c)
  PROVE  /\ d \in Tables /\ Agree(d) /\ Marked(d) /\ d.dorefresh
         /\ Holders(d) \subseteq Holders(a) \cup {c}
<1> DEFINE b == FreeBot(a)
<1>0. /\ a.bots \subseteq BotIds /\ a.owner \in [BotIds -> Owners]
      /\ a.listed \in [Slots -> SUBSET BotIds] /\ a.reinit \subseteq BotIds
      /\ a.taken \subseteq BotIds
      /\ a.told \in [BotIds -> Owners] /\ c \in Owners
  BY TablesIs DEF Owners
<1>1. b \in BotIds /\ b \notin Owned(a)
  BY FreeBotIs
<1>2. (\A e \in Slots : b \notin a.listed[e]) /\ b \notin a.taken
  BY <1>1, SlotsAssumption DEF Agree, Owned, Regular
<1>3. /\ d \in Tables
      /\ d.owner = [a.owner EXCEPT ![b] = c]
      /\ d.reinit = a.reinit \cup {b} /\ d.told = a.told /\ d.dorefresh = TRUE
      /\ d.bots = a.bots \cup {b}
      /\ d.taken = a.taken \cup (IF b \in a.bots THEN {b} ELSE {})
      /\ \A e \in Slots : d.listed[e] = a.listed[e] \cup (IF e = c /\ b \notin a.bots THEN {b} ELSE {})
  <2> HIDE DEF b
  <2>0. d = IF b \in a.bots
            THEN [a EXCEPT !.owner[b] = c, !.taken = @ \cup {b},
                           !.reinit = @ \cup {b}, !.dorefresh = TRUE]
            ELSE [a EXCEPT !.bots = @ \cup {b}, !.owner[b] = c,
                           !.listed[c] = a.listed[c] \cup {b},
                           !.reinit = @ \cup {b}, !.dorefresh = TRUE]
    BY DEF Added, b
  <2>o. [a.owner EXCEPT ![b] = c] \in [BotIds -> Owners]
    BY <1>0
  <2>1. CASE b \in a.bots
    <3>1. d = [a EXCEPT !.owner[b] = c, !.taken = @ \cup {b},
                        !.reinit = @ \cup {b}, !.dorefresh = TRUE]
      BY <2>0, <2>1
    <3>2. /\ d.bots = a.bots /\ d.owner = [a.owner EXCEPT ![b] = c]
          /\ d.listed = a.listed /\ d.reinit = a.reinit \cup {b}
          /\ d.taken = a.taken \cup {b} /\ d.told = a.told /\ d.dorefresh = TRUE
      BY <3>1 DEF Tables
    <3>3. d = [bots |-> d.bots, owner |-> d.owner, listed |-> d.listed,
               taken |-> d.taken, reinit |-> d.reinit, told |-> d.told,
               dorefresh |-> d.dorefresh]
      BY <3>1 DEF Tables
    <3>4. /\ d.bots \subseteq BotIds /\ d.owner \in [BotIds -> Owners]
          /\ d.listed \in [Slots -> SUBSET BotIds] /\ d.reinit \subseteq BotIds
          /\ d.taken \subseteq BotIds
          /\ d.told \in [BotIds -> Owners] /\ d.dorefresh \in BOOLEAN
      <4>1. d.owner \in [BotIds -> Owners]
        BY <2>o, <3>2
      <4>2. d.listed \in [Slots -> SUBSET BotIds]
        BY <1>0, <1>1, <3>2
      <4>3. d.bots \subseteq BotIds /\ d.reinit \subseteq BotIds /\ d.taken \subseteq BotIds
        BY <1>0, <1>1, <3>2
      <4>4. d.told \in [BotIds -> Owners] /\ d.dorefresh \in BOOLEAN
        BY <1>0, <3>2
      <4> QED BY <4>1, <4>2, <4>3, <4>4
    <3>5. d \in Tables
      BY <3>3, <3>4 DEF Tables
    <3> QED BY <2>1, <3>2, <3>5
  <2>2. CASE b \notin a.bots
    <3>1. d = [a EXCEPT !.bots = @ \cup {b}, !.owner[b] = c,
                        !.listed[c] = a.listed[c] \cup {b},
                        !.reinit = @ \cup {b}, !.dorefresh = TRUE]
      BY <2>0, <2>2
    <3>2. /\ d.bots = a.bots \cup {b} /\ d.owner = [a.owner EXCEPT ![b] = c]
          /\ d.listed = [a.listed EXCEPT ![c] = a.listed[c] \cup {b}]
          /\ d.reinit = a.reinit \cup {b} /\ d.taken = a.taken
          /\ d.told = a.told /\ d.dorefresh = TRUE
      BY <3>1 DEF Tables
    <3>3. d = [bots |-> d.bots, owner |-> d.owner, listed |-> d.listed,
               taken |-> d.taken, reinit |-> d.reinit, told |-> d.told,
               dorefresh |-> d.dorefresh]
      BY <3>1 DEF Tables
    <3>4. /\ d.bots \subseteq BotIds /\ d.owner \in [BotIds -> Owners]
          /\ d.listed \in [Slots -> SUBSET BotIds] /\ d.reinit \subseteq BotIds
          /\ d.taken \subseteq BotIds
          /\ d.told \in [BotIds -> Owners] /\ d.dorefresh \in BOOLEAN
      <4>1. d.owner \in [BotIds -> Owners]
        BY <2>o, <3>2
      <4>2. d.listed \in [Slots -> SUBSET BotIds]
        <5>1. a.listed[c] \cup {b} \in SUBSET BotIds
          BY <1>0, <1>1
        <5> QED BY <1>0, <3>2, <5>1
      <4>3. d.bots \subseteq BotIds /\ d.reinit \subseteq BotIds /\ d.taken \subseteq BotIds
        BY <1>0, <1>1, <3>2
      <4>4. d.told \in [BotIds -> Owners] /\ d.dorefresh \in BOOLEAN
        BY <1>0, <3>2
      <4> QED BY <4>1, <4>2, <4>3, <4>4
    <3>5. d \in Tables
      BY <3>3, <3>4 DEF Tables
    <3>6. \A e \in Slots : d.listed[e] = a.listed[e] \cup (IF e = c THEN {b} ELSE {})
      BY <1>0, <3>2
    <3> QED BY <2>2, <3>2, <3>5, <3>6
  <2> QED BY <2>1, <2>2
<1> HIDE DEF b
<1>4. Agree(d)
  <2>1. d.owner[b] = c /\ \A x \in BotIds \ {b} : d.owner[x] = a.owner[x]
    BY <1>0, <1>1, <1>3
  <2>2. d.taken \subseteq Owned(d)
    <3>1. \A x \in a.taken : x \in a.bots /\ a.owner[x] # NoSlot /\ x # b
      BY <1>2 DEF Agree, Owned
    <3>2. \A x \in a.taken \cup {b} : x \in d.bots /\ d.owner[x] # NoSlot
      BY <1>0, <1>3, <2>1, <3>1, SlotsAssumption DEF Tables
    <3>3. d.taken \subseteq a.taken \cup {b}
      BY <1>3
    <3> QED BY <3>2, <3>3 DEF Owned
  <2>3. ASSUME NEW e \in Slots, NEW x \in BotIds
        PROVE  x \in d.listed[e] <=> x \in Regular(d) /\ d.owner[x] = e
    <3>1. CASE x # b
      <4>1. x \in d.listed[e] <=> x \in a.listed[e]
        BY <1>3, <3>1
      <4>2. x \in Regular(d) <=> x \in Regular(a)
        BY <1>3, <3>1 DEF Regular
      <4> QED BY <2>1, <3>1, <4>1, <4>2 DEF Agree
    <3>2. CASE x = b
      BY <1>2, <1>3, <2>1, <3>2 DEF Regular
    <3> QED BY <3>1, <3>2
  <2> QED BY <2>2, <2>3 DEF Agree
<1>5. Marked(d)
  <2> SUFFICES ASSUME NEW x \in d.bots
               PROVE  x \in d.reinit \/ d.told[x] = d.owner[x] \/ d.owner[x] = NoSlot
    BY DEF Marked
  <2>1. CASE x = b
    BY <1>3, <2>1
  <2>2. CASE x # b
    BY <1>0, <1>1, <1>3, <2>2 DEF Marked
  <2> QED BY <2>1, <2>2
<1>6. Holders(d) \subseteq Holders(a) \cup {c}
  BY <1>3 DEF Holders
<1> QED BY <1>3, <1>4, <1>5, <1>6

\* A refresh is scheduled, nothing else.
LEMMA RefreshKeeps ==
  ASSUME NEW a \in Tables, Agree(a), Marked(a), NEW r \in BOOLEAN,
         NEW d, d = [a EXCEPT !.dorefresh = r]
  PROVE  /\ d \in Tables /\ Agree(d) /\ Marked(d) /\ d.bots = a.bots
         /\ Holders(d) = Holders(a) /\ d.dorefresh = r
<1>1. /\ d \in Tables /\ d.bots = a.bots /\ d.owner = a.owner
      /\ d.listed = a.listed /\ d.reinit = a.reinit /\ d.told = a.told
      /\ d.taken = a.taken /\ d.dorefresh = r
  BY RefreshIs
<1> QED BY <1>1 DEF Agree, Owned, Regular, Marked, Holders

\* Every bot has an owner and the clients know him.
Known(a) == \A b \in a.bots : a.owner[b] # NoSlot /\ a.told[b] = a.owner[b]

\* reinitai() of every marked bot
LEMMA AnnouncedKeeps ==
  ASSUME NEW a \in Tables, Agree(a), Marked(a), NEW d, d = Announced(a)
  PROVE  /\ d \in Tables /\ Agree(d) /\ Marked(d) /\ d.bots = a.bots
         /\ Holders(d) = Holders(a) /\ d.dorefresh = a.dorefresh
         /\ (\A b \in a.bots : a.owner[b] # NoSlot) => Known(d)
<1>0. a.bots \subseteq BotIds /\ a.owner \in [BotIds -> Owners]
  BY TablesIs
<1>1. /\ d \in Tables
      /\ d.bots = a.bots /\ d.owner = a.owner /\ d.listed = a.listed
      /\ d.reinit = {} /\ d.taken = a.taken
      /\ d.told = [b \in BotIds |-> IF b \in a.reinit THEN a.owner[b] ELSE a.told[b]]
      /\ d.dorefresh = a.dorefresh
  BY AnnouncedIs
<1>2. Agree(d) /\ Holders(d) = Holders(a)
  BY <1>1 DEF Agree, Owned, Regular, Holders
<1>3. Marked(d)
  BY <1>0, <1>1 DEF Marked
<1>4. (\A b \in a.bots : a.owner[b] # NoSlot) => Known(d)
  BY <1>0, <1>1 DEF Marked, Known
<1> QED BY <1>1, <1>2, <1>3, <1>4

\* while(reassignai())
LEMMA RebalancedKeeps ==
  ASSUME NEW a \in Tables, Agree(a), Marked(a), NEW V, V \subseteq Slots,
         NEW d \in Rebalanced(a, V)
  PROVE  /\ d \in Tables /\ Agree(d) /\ Marked(d) /\ d.bots = a.bots
         /\ Holders(d) \subseteq Holders(a) \cup V
         /\ Even(d, V)
         /\ d.dorefresh \/ Alike(a, d)
<1>1. CASE Even(a, V)
  <2>1. d = a
    BY <1>1 DEF Rebalanced
  <2> QED BY <1>1, <2>1 DEF Alike
<1>2. CASE ~Even(a, V)
  <2> DEFINE S == ListedBots(a, V)
  <2>1. Even(d, V) /\ \E g \in [S -> V] :
          d = Shifted(a, [b \in {x \in S : g[x] # a.owner[x]} |-> g[b]])
    BY <1>2 DEF Rebalanced
  <2>2. PICK g \in [S -> V] :
          d = Shifted(a, [b \in {x \in S : g[x] # a.owner[x]} |-> g[b]])
    BY <2>1
  <2> DEFINE f == [b \in {x \in S : g[x] # a.owner[x]} |-> g[b]]
  <2>3. /\ DOMAIN f \subseteq Regular(a) /\ \A b \in DOMAIN f : f[b] \in V \cup {NoSlot}
        /\ d = Shifted(a, f)
    BY <2>2, ListedIs DEF ListedBots
  <2> HIDE DEF f
  <2>4. /\ d \in Tables /\ Agree(d) /\ Marked(d) /\ d.bots = a.bots
        /\ \A c \in Holders(d) : c \in V \/ a.listed[c] \ DOMAIN f # {}
        /\ d.dorefresh \/ Alike(a, d)
    BY <2>3, ShiftKeeps
  <2>5. Holders(d) \subseteq Holders(a) \cup V
    BY <2>4 DEF Holders
  <2> QED BY <2>1, <2>4, <2>5
<1> QED BY <1>1, <1>2

LEMMA ValidIs ==
  ASSUME NEW C, NEW S, NEW m
  PROVE  Valid(C, S, m) \subseteq C /\ C \ S \subseteq Valid(C, S, m)
BY DEF Valid

\* Fewer clients are no less even; nobody's list, nobody's load.
LEMMA EvenFewer ==
  ASSUME NEW a, NEW d, NEW V, NEW W, W \subseteq V, Even(a, V), d.listed = a.listed
  PROVE  Even(d, W)
BY DEF Even, Load

LEMMA EvenNobody ==
  ASSUME NEW a \in Tables, Holders(a) = {}, NEW V, V \subseteq Slots
  PROVE  Even(a, V)
<1>1. \A c \in V : a.listed[c] = {}
  BY DEF Holders
<1>2. Cardinality({}) = 0
  BY FS_EmptySet
<1> QED BY <1>1, <1>2 DEF Even, Load

-----------------------------------------------------------------------------
(* The bots and their owners.                                              *)

PeopleOK ==
  /\ clients \subseteq Slots
  /\ spectators \subseteq clients
  /\ master \in clients \cup {NoSlot}
  /\ isadmin \in BOOLEAN /\ adminpass \in BOOLEAN
  /\ botlimit \in 0..MaxBots
  /\ botmode \in BOOLEAN
  /\ halted \in BOOLEAN

BotsOK ==
  /\ ai \in Tables /\ Agree(ai) /\ Marked(ai)
  /\ Holders(ai) \subseteq clients
  /\ ~adminpass => Holders(ai) \subseteq Valid(clients, spectators, master)
  /\ clients = {} => ai.bots = {}

\* No refresh is due.
CalmOK ==
  ~ai.dorefresh => /\ Known(ai)
                   /\ ai.bots # {} => botmode
                   /\ Even(ai, clients \ spectators)

\* The inductive invariant.
IInv == PeopleOK /\ BotsOK /\ CalmOK

LEMMA Implied == IInv => ListsAgree /\ OwnersMayOwn /\ Settled
<1> SUFFICES ASSUME IInv PROVE ListsAgree /\ OwnersMayOwn /\ Settled
  OBVIOUS
<1>1. ListsAgree
  BY DEF IInv, PeopleOK, BotsOK, ListsAgree, TypeOK, Agree, Holders
<1>2. OwnersMayOwn
  <2> SUFFICES ASSUME ~adminpass, NEW b \in Regular(ai), ai.owner[b] # NoSlot
               PROVE  ai.owner[b] \in Valid(clients, spectators, master)
    BY DEF OwnersMayOwn
  <2>1. b \in BotIds /\ ai.owner[b] \in Slots
    BY TablesIs DEF IInv, BotsOK, Regular, Owners
  <2>2. b \in ai.listed[ai.owner[b]]
    BY <2>1 DEF IInv, BotsOK, Agree
  <2> QED BY <2>1, <2>2 DEF IInv, BotsOK, Holders
<1>3. Settled
  <2> DEFINE owns(c) == {b \in Regular(ai) : ai.owner[b] = c}
  <2>1. \A c \in clients : owns(c) = ai.listed[c]
    BY ListedIs DEF IInv, PeopleOK, BotsOK
  <2>2. ASSUME ~ai.dorefresh, NEW c \in clients \ spectators, NEW d \in clients \ spectators
        PROVE  Cardinality(owns(c)) <= Cardinality(owns(d)) + 1
    <3>1. Cardinality(ai.listed[c]) <= Cardinality(ai.listed[d]) + 1
      BY <2>2 DEF IInv, CalmOK, Even, Load
    <3> QED BY <2>1, <3>1
  <2> QED BY <2>2 DEF IInv, BotsOK, CalmOK, Settled, Known
<1> QED BY <1>1, <1>2, <1>3

LEMMA IInvInit == Init => IInv
<1> SUFFICES ASSUME Init PROVE IInv
  OBVIOUS
<1>1. PeopleOK
  BY LimitAssumption DEF Init, PeopleOK
<1>2. ai \in Tables
  BY DEF Init, Tables, Owners
<1>3. Agree(ai) /\ Marked(ai) /\ Holders(ai) = {} /\ ai.bots = {} /\ Known(ai)
  BY SlotsAssumption DEF Init, Agree, Owned, Regular, Marked, Holders, Known
<1>4. Even(ai, clients \ spectators)
  BY <1>1, <1>2, <1>3, EvenNobody DEF PeopleOK
<1> QED BY <1>1, <1>2, <1>3, <1>4 DEF IInv, BotsOK, CalmOK

\* The tables are what they were but for a refresh that is scheduled.
LEMMA RefreshStep ==
  ASSUME IInv, ai' = [ai EXCEPT !.dorefresh = TRUE], PeopleOK',
         clients \subseteq clients', clients' # {},
         ~adminpass' => ~adminpass /\ Valid(clients, spectators, master)
                                      \subseteq Valid(clients', spectators', master')
  PROVE  IInv'
<1>1. /\ ai' \in Tables /\ Agree(ai') /\ Marked(ai')
      /\ Holders(ai') = Holders(ai) /\ ai'.dorefresh
  BY RefreshKeeps DEF IInv, BotsOK
<1> QED BY <1>1 DEF IInv, BotsOK, CalmOK

\* The tables stay as they are.
LEMMA StillStep ==
  ASSUME IInv, ai' = ai, PeopleOK', clients' = clients, spectators' = spectators,
         botmode' = botmode,
         ~adminpass' => ~adminpass /\ Valid(clients, spectators, master)
                                      \subseteq Valid(clients', spectators', master')
  PROVE  IInv'
BY DEF IInv, BotsOK, CalmOK

\* The bots of the clients in C are handed to others.
LEMMA HandOver ==
  ASSUME IInv, NEW C, C \subseteq Slots, NEW V, V \subseteq Slots,
         NEW d \in Released(ai, C, V)
  PROVE  /\ d \in Tables /\ Agree(d) /\ Marked(d) /\ d.bots = ai.bots
         /\ Holders(d) \subseteq V \cup (Holders(ai) \ C)
         /\ ~d.dorefresh => /\ Known(d)
                            /\ d.bots # {} => botmode
                            /\ Even(d, clients \ spectators)
<1>1. /\ d \in Tables /\ Agree(d) /\ Marked(d) /\ d.bots = ai.bots
      /\ Holders(d) \subseteq V \cup (Holders(ai) \ C)
      /\ d.dorefresh \/ Alike(ai, d)
  BY ReleasedKeeps DEF IInv, BotsOK
<1>2. ASSUME ~d.dorefresh
      PROVE  /\ Known(d)
             /\ d.bots # {} => botmode
             /\ Even(d, clients \ spectators)
  <2>1. Alike(ai, d)
    BY <1>1, <1>2
  <2>2. Known(ai) /\ (ai.bots # {} => botmode) /\ Even(ai, clients \ spectators)
    BY <1>2, <2>1 DEF Alike, IInv, CalmOK
  <2>3. Known(d)
    BY <1>1, <2>1, <2>2 DEF Known, Alike
  <2>4. Even(d, clients \ spectators)
    BY <2>1, <2>2, EvenFewer DEF Alike
  <2> QED BY <1>1, <2>2, <2>3, <2>4
<1> QED BY <1>1, <1>2

LEMMA JoinKeeps == ASSUME IInv, NEW c \in Slots, Join(c) PROVE IInv'
<1>1. PeopleOK' /\ clients \subseteq clients' /\ clients' # {}
  BY DEF IInv, PeopleOK, Join, match
<1>2. Valid(clients, spectators, master) \subseteq Valid(clients', spectators', master')
  BY DEF Valid, Join
<1> QED BY <1>1, <1>2, RefreshStep DEF Join, match

LEMMA LeaveKeeps == ASSUME IInv, NEW c \in Slots, Leave(c) PROVE IInv'
<1> DEFINE V == Valid(clients', spectators', master')
<1>1. /\ PeopleOK' /\ clients' = clients \ {c} /\ spectators' = spectators \ {c}
      /\ master' = (IF master = c THEN NoSlot ELSE master)
      /\ c \in clients
      /\ adminpass' = adminpass /\ botmode' = botmode
  BY DEF IInv, PeopleOK, Leave, Forget, match
<1>2. V \subseteq clients' /\ V \subseteq Slots /\ {c} \subseteq Slots
  BY <1>1, ValidIs DEF PeopleOK
<1>3. PICK d \in Released(ai, {c}, V) : ai' = AfterLeave(d, clients')
  BY DEF Leave
<1>4. /\ d \in Tables /\ Agree(d) /\ Marked(d) /\ d.bots = ai.bots
      /\ Holders(d) \subseteq V \cup (Holders(ai) \ {c})
      /\ ~d.dorefresh => /\ Known(d)
                         /\ d.bots # {} => botmode
                         /\ Even(d, clients \ spectators)
  BY <1>2, HandOver
<1> HIDE DEF V
<1>5. CASE clients' = {}
  <2>1. ai' = Cleared(d)
    BY <1>3, <1>5 DEF AfterLeave
  <2>2. /\ ai' \in Tables /\ Agree(ai') /\ Marked(ai')
        /\ ai'.bots = {} /\ Holders(ai') = {}
    BY <1>4, <2>1, ClearedKeeps
  <2>3. Even(ai', clients' \ spectators')
    BY <1>5, <2>2, EvenNobody
  <2> QED BY <1>1, <2>2, <2>3 DEF IInv, BotsOK, CalmOK, Known
<1>6. CASE clients' # {}
  <2>1. ai' = d
    BY <1>3, <1>6 DEF AfterLeave
  <2>2. \A p \in Valid(clients, spectators, master) \ {c} : p \in V
    BY <1>1, SlotsAssumption DEF Valid, V, IInv, PeopleOK
  <2>3. ~ai'.dorefresh => Even(ai', clients' \ spectators')
    <3> HAVE ~ai'.dorefresh
    <3>1. Even(d, clients \ spectators)
      BY <1>4, <2>1
    <3> QED BY <1>1, <2>1, <3>1, EvenFewer
  <2>4. BotsOK'
    BY <1>1, <1>2, <1>4, <1>6, <2>1, <2>2 DEF IInv, BotsOK, V
  <2>5. CalmOK'
    BY <1>1, <1>4, <2>1, <2>3 DEF CalmOK
  <2> QED BY <1>1, <2>4, <2>5 DEF IInv
<1> QED BY <1>5, <1>6

LEMMA DropMasterKeeps == ASSUME IInv, NEW c \in Slots, DropMaster(c) PROVE IInv'
<1> DEFINE C == {c} \cap spectators
           V == Valid(clients, spectators, NoSlot)
<1>1. /\ PeopleOK' /\ clients' = clients /\ spectators' = spectators /\ master' = NoSlot
      /\ master = c /\ adminpass' = adminpass /\ botmode' = botmode
      /\ ai' \in Released(ai, C, V)
  BY DEF IInv, PeopleOK, DropMaster, match
<1>2. V \subseteq clients /\ V \subseteq Slots /\ C \subseteq Slots
  BY ValidIs DEF IInv, PeopleOK
<1>3. /\ ai' \in Tables /\ Agree(ai') /\ Marked(ai') /\ ai'.bots = ai.bots
      /\ Holders(ai') \subseteq V \cup (Holders(ai) \ C)
      /\ ~ai'.dorefresh => /\ Known(ai')
                           /\ ai'.bots # {} => botmode
                           /\ Even(ai', clients \ spectators)
  BY <1>1, <1>2, HandOver
<1>4. \A p \in Valid(clients, spectators, master) \ C : p \in V
  BY <1>1 DEF Valid
<1> QED BY <1>1, <1>2, <1>3, <1>4 DEF IInv, BotsOK, CalmOK

LEMMA ClaimOpenKeeps == ASSUME IInv, NEW c \in Slots, ClaimOpen(c) PROVE IInv'
<1>1. PeopleOK' /\ ai' = ai /\ clients' = clients /\ spectators' = spectators
      /\ botmode' = botmode /\ adminpass' = adminpass
  BY DEF IInv, PeopleOK, ClaimOpen, match
<1>2. Valid(clients, spectators, master) \subseteq Valid(clients', spectators', master')
  BY <1>1, SlotsAssumption DEF Valid, ClaimOpen, IInv, PeopleOK
<1> QED BY <1>1, <1>2, StillStep

LEMMA ClaimAuthKeeps == ASSUME IInv, NEW c \in Slots, ClaimAuth(c) PROVE IInv'
<1> DEFINE C == spectators \ {c}
           V == Valid(clients, spectators, IF master = c THEN c ELSE NoSlot)
<1>1. /\ PeopleOK' /\ clients' = clients /\ spectators' = spectators /\ master' = c
      /\ adminpass' = adminpass /\ botmode' = botmode
      /\ ai' \in Released(ai, C, V)
  BY DEF IInv, PeopleOK, ClaimAuth, match
<1>2. V \subseteq clients /\ V \subseteq Slots /\ C \subseteq Slots
  BY ValidIs DEF IInv, PeopleOK
<1>3. /\ ai' \in Tables /\ Agree(ai') /\ Marked(ai') /\ ai'.bots = ai.bots
      /\ Holders(ai') \subseteq V \cup (Holders(ai) \ C)
      /\ ~ai'.dorefresh => /\ Known(ai')
                           /\ ai'.bots # {} => botmode
                           /\ Even(ai', clients \ spectators)
  BY <1>1, <1>2, HandOver
<1>4. V \cup (clients \ C) \subseteq Valid(clients, spectators, c)
  BY SlotsAssumption DEF Valid, IInv, PeopleOK
<1> HIDE DEF V, C
<1> QED BY <1>1, <1>2, <1>3, <1>4 DEF IInv, BotsOK, CalmOK

LEMMA ClaimPasswordKeeps == ASSUME IInv, NEW c \in Slots, ClaimPassword(c) PROVE IInv'
<1>1. PeopleOK' /\ ai' = ai /\ clients' = clients /\ spectators' = spectators
      /\ botmode' = botmode /\ adminpass'
  BY DEF IInv, PeopleOK, ClaimPassword, match
<1> QED BY <1>1, StillStep

LEMMA SpectateKeeps == ASSUME IInv, NEW c \in Slots, Spectate(c) PROVE IInv'
<1> DEFINE C == {c} \ {master}
           V == Valid(clients, spectators', master)
<1>1. /\ PeopleOK' /\ clients' = clients /\ spectators' = spectators \cup {c}
      /\ master' = master /\ adminpass' = adminpass /\ botmode' = botmode
      /\ ai' \in Released(ai, C, V)
  BY DEF IInv, PeopleOK, Spectate, match
<1>2. V \subseteq clients /\ V \subseteq Slots /\ C \subseteq Slots
  BY ValidIs DEF IInv, PeopleOK
<1>3. \A p \in Valid(clients, spectators, master) \ C : p \in V
  BY <1>1 DEF Valid
<1> HIDE DEF V, C
<1>4. /\ ai' \in Tables /\ Agree(ai') /\ Marked(ai') /\ ai'.bots = ai.bots
      /\ Holders(ai') \subseteq V \cup (Holders(ai) \ C)
      /\ ~ai'.dorefresh => /\ Known(ai')
                           /\ ai'.bots # {} => botmode
                           /\ Even(ai', clients \ spectators)
  BY <1>1, <1>2, HandOver
<1>5. BotsOK'
  BY <1>1, <1>2, <1>3, <1>4 DEF IInv, BotsOK, V
<1>6. CalmOK'
  <2>1. ~ai'.dorefresh => Even(ai', clients' \ spectators')
    BY <1>1, <1>4, EvenFewer
  <2> QED BY <1>1, <1>4, <2>1 DEF CalmOK
<1> QED BY <1>1, <1>5, <1>6 DEF IInv

LEMMA UnspectateKeeps == ASSUME IInv, NEW c \in Slots, Unspectate(c) PROVE IInv'
<1>1. PeopleOK' /\ clients \subseteq clients' /\ clients' # {}
  BY DEF IInv, PeopleOK, Unspectate, match
<1>2. Valid(clients, spectators, master) \subseteq Valid(clients', spectators', master')
  BY DEF Valid, Unspectate
<1> QED BY <1>1, <1>2, RefreshStep DEF Unspectate, match

LEMMA AddBotKeeps == ASSUME IInv, NEW c \in Slots, AddBot(c) PROVE IInv'
<1>1. PICK limit \in 0 .. MaxBots : MayAdd(ai, limit)
  BY LimitAssumption DEF AddBot, IInv, PeopleOK
<1>2. PICK o \in Valid(clients, spectators, master) : ai' = Added(ai, o)
  BY DEF AddBot, Least
<1>3. o \in clients /\ o \in Slots /\ clients # {}
  BY <1>2 DEF Valid, IInv, PeopleOK
<1>4. /\ ai' \in Tables /\ Agree(ai') /\ Marked(ai') /\ ai'.dorefresh
      /\ Holders(ai') \subseteq Holders(ai) \cup {o}
  BY <1>1, <1>2, <1>3, AddedKeeps DEF IInv, BotsOK
<1> QED BY <1>2, <1>3, <1>4 DEF AddBot, people, match, IInv, PeopleOK, BotsOK, CalmOK

LEMMA DelBotKeeps == ASSUME IInv, NEW c \in Slots, DelBot(c) PROVE IInv'
<1>1. PICK b \in Owned(ai) : ai' = Deleted(ai, {b})
  BY DEF DelBot
<1>2. {b} \subseteq BotIds
  BY <1>1, TablesIs DEF Owned, IInv, BotsOK
<1>3. /\ ai' \in Tables /\ Agree(ai') /\ Marked(ai') /\ ai'.bots = ai.bots \ {b}
      /\ Holders(ai') \subseteq Holders(ai) /\ ai'.dorefresh
  BY <1>1, <1>2, DeletedKeeps DEF IInv, BotsOK
<1> QED BY <1>3 DEF DelBot, people, match, IInv, PeopleOK, BotsOK, CalmOK

LEMMA SetBotLimitKeeps ==
  ASSUME IInv, NEW c \in Slots, NEW limit \in 0 .. MaxBots, SetBotLimit(c, limit)
  PROVE  IInv'
<1>1. PeopleOK' /\ clients \subseteq clients' /\ clients' # {}
  BY DEF IInv, PeopleOK, SetBotLimit, people
<1>2. Valid(clients', spectators', master') = Valid(clients, spectators, master)
  BY DEF SetBotLimit, people
<1> QED BY <1>1, <1>2, RefreshStep DEF SetBotLimit

LEMMA ChangeTeamsKeeps == ASSUME IInv, ChangeTeams PROVE IInv'
<1>1. PeopleOK' /\ clients \subseteq clients' /\ clients' # {}
  BY DEF IInv, PeopleOK, ChangeTeams, people, match
<1>2. Valid(clients', spectators', master') = Valid(clients, spectators, master)
  BY DEF ChangeTeams, people
<1> QED BY <1>1, <1>2, RefreshStep DEF ChangeTeams, match

LEMMA HaltKeeps == ASSUME IInv, Halt PROVE IInv'
<1>1. PeopleOK' /\ ai' = ai /\ clients' = clients /\ spectators' = spectators
      /\ botmode' = botmode /\ adminpass' = adminpass /\ master' = master
  BY DEF IInv, PeopleOK, Halt, people
<1> QED BY <1>1, StillStep

LEMMA ChangeMapKeeps ==
  ASSUME IInv, NEW mode \in BOOLEAN, NEW mp \in BOOLEAN, ChangeMap(mode, mp)
  PROVE  IInv'
<1> DEFINE d == Cleared(ai)
           e == [d EXCEPT !.dorefresh = TRUE]
<1>1. d \in Tables /\ Agree(d) /\ Marked(d) /\ d.bots = {} /\ Holders(d) = {}
  BY ClearedKeeps DEF IInv, BotsOK
<1>2. ai' = [d EXCEPT !.dorefresh = TRUE,
                      !.listed = [c \in Slots |-> IF mp THEN @[c] ELSE {}]]
  BY DEF ChangeMap
<1>3. ai' \in Tables /\ ai'.bots = {} /\ ai'.taken = d.taken /\ ai'.dorefresh /\ d.listed \in [Slots -> SUBSET BotIds]
      /\ ai'.listed = [c \in Slots |-> IF mp THEN d.listed[c] ELSE {}]
  <2> HIDE DEF d
  <2> QED BY <1>1, <1>2 DEF Tables
<1>4. Holders(ai') = {} /\ Agree(ai') /\ Marked(ai')
  <2> HIDE DEF d
  <2>1. \A c \in Slots : ai'.listed[c] = {}
    BY <1>1, <1>3 DEF Holders
  <2> QED BY <1>1, <1>3, <2>1 DEF Holders, Agree, Owned, Regular, Marked
<1>5. PeopleOK'
  <2>1. CASE mp
    BY <2>1 DEF ChangeMap, people, IInv, PeopleOK
  <2>2. CASE ~mp
    BY <2>2 DEF ChangeMap, people, IInv, PeopleOK
  <2> QED BY <2>1, <2>2
<1> QED BY <1>3, <1>4, <1>5 DEF IInv, BotsOK, CalmOK

LEMMA CheckAIKeeps == ASSUME IInv, CheckAI PROVE IInv'
<1> DEFINE seen == [ai EXCEPT !.dorefresh = FALSE]
           V == Valid(clients, spectators, master)
<1>1. /\ PeopleOK' /\ clients' = clients /\ spectators' = spectators /\ master' = master
      /\ adminpass' = adminpass /\ botmode' = botmode /\ botmode \in BOOLEAN
  BY DEF CheckAI, people, match, IInv, PeopleOK
<1>2. /\ seen \in Tables /\ Agree(seen) /\ Marked(seen) /\ seen.bots = ai.bots
      /\ Holders(seen) = Holders(ai) /\ ~seen.dorefresh
  BY RefreshKeeps DEF IInv, BotsOK
<1>3. V \subseteq clients /\ V \subseteq Slots /\ clients \ spectators \subseteq V
  BY ValidIs DEF IInv, PeopleOK
<1>4. IF botmode /\ clients # {}
      THEN ai' \in Rebalanced(Announced(Deleted(seen, seen.bots \ Owned(seen))), V)
      ELSE ai' = Cleared(seen)
  BY DEF CheckAI
<1> HIDE DEF seen, V
<1>5. CASE botmode /\ clients # {}
  <2> DEFINE B == seen.bots \ Owned(seen)
             d == Deleted(seen, B)
             e == Announced(d)
  <2>0. B \subseteq BotIds /\ (B = {} => Owned(seen) = seen.bots)
    BY <1>2, TablesIs DEF Owned
  <2>1. /\ d \in Tables /\ Agree(d) /\ Marked(d) /\ d.bots = seen.bots \ B
        /\ Holders(d) \subseteq Holders(seen)
        /\ B # {} => d.dorefresh
        /\ B = {} => Alike(seen, d)
    <3> HIDE DEF B
    <3> QED BY <1>2, <2>0, DeletedKeeps
  <2> HIDE DEF d
  <2>2. /\ e \in Tables /\ Agree(e) /\ Marked(e) /\ e.bots = d.bots
        /\ Holders(e) = Holders(d) /\ e.dorefresh = d.dorefresh
        /\ (\A b \in d.bots : d.owner[b] # NoSlot) => Known(e)
    BY <2>1, AnnouncedKeeps
  <2>3. ai' \in Rebalanced(e, V)
    BY <1>4, <1>5 DEF d
  <2> HIDE DEF e, B
  <2>4. /\ ai' \in Tables /\ Agree(ai') /\ Marked(ai') /\ ai'.bots = e.bots
        /\ Holders(ai') \subseteq Holders(e) \cup V
        /\ Even(ai', V)
        /\ ai'.dorefresh \/ Alike(e, ai')
    BY <1>3, <2>2, <2>3, RebalancedKeeps
  <2>5. BotsOK'
    BY <1>1, <1>2, <1>3, <1>5, <2>1, <2>2, <2>4 DEF IInv, BotsOK, V
  <2>6. CalmOK'
    <3> SUFFICES ASSUME ~ai'.dorefresh
                 PROVE  Known(ai') /\ botmode' /\ Even(ai', clients' \ spectators')
      BY DEF CalmOK
    <3>1. Alike(e, ai') /\ B = {}
      BY <2>1, <2>2, <2>4 DEF Alike
    <3>2. \A b \in d.bots : d.owner[b] # NoSlot
      BY <2>0, <2>1, <3>1 DEF Owned, Alike
    <3>3. Known(ai')
      BY <2>2, <2>4, <3>1, <3>2 DEF Known, Alike
    <3>4. Even(ai', clients' \ spectators')
      BY <1>1, <1>3, <2>4, EvenFewer
    <3> QED BY <1>1, <1>5, <3>3, <3>4
  <2> QED BY <1>1, <2>5, <2>6 DEF IInv
<1>6. CASE ~(botmode /\ clients # {})
  <2>1. ai' \in Tables /\ Agree(ai') /\ Marked(ai') /\ ai'.bots = {} /\ Holders(ai') = {}
    BY <1>2, <1>4, <1>6, ClearedKeeps
  <2>2. Even(ai', clients' \ spectators')
    BY <1>1, <1>3, <2>1, EvenNobody
  <2> QED BY <1>1, <2>1, <2>2 DEF IInv, BotsOK, CalmOK, Known
<1> QED BY <1>5, <1>6

LEMMA IInvNext == IInv /\ [Next]_vars => IInv'
<1> SUFFICES ASSUME IInv, [Next]_vars PROVE IInv'
  OBVIOUS
<1>1. ASSUME NEW c \in Slots, ClientStep(c) PROVE IInv'
  BY <1>1, JoinKeeps, LeaveKeeps, DropMasterKeeps, ClaimOpenKeeps, ClaimAuthKeeps,
     ClaimPasswordKeeps, SpectateKeeps, UnspectateKeeps, AddBotKeeps, DelBotKeeps,
     SetBotLimitKeeps DEF ClientStep
<1>2. CASE ChangeTeams
  BY <1>2, ChangeTeamsKeeps
<1>3. ASSUME NEW mode \in BOOLEAN, NEW mp \in BOOLEAN, ChangeMap(mode, mp) PROVE IInv'
  BY <1>3, ChangeMapKeeps
<1>4. CASE Halt
  BY <1>4, HaltKeeps
<1>5. CASE CheckAI
  BY <1>5, CheckAIKeeps
<1>6. CASE UNCHANGED vars
  BY <1>6 DEF vars, IInv, PeopleOK, BotsOK, CalmOK
<1> QED BY <1>1, <1>2, <1>3, <1>4, <1>5, <1>6 DEF Next

LEMMA AlwaysIInv == Spec => []IInv
BY IInvInit, IInvNext, PTL DEF Spec

-----------------------------------------------------------------------------
(* Theorems.                                                               *)

\* The two records of who has a bot agree in both directions: a client lists
\* exactly the bots that name it, however removeai(), addai(), deleteai() and
\* shiftai() follow one another; only for the bots addai() took over is there
\* no list.
THEOREM TablesAgree == Spec => []ListsAgree
<1>1. IInv => ListsAgree
  BY Implied
<1> QED BY <1>1, AlwaysIInv, PTL

\* On a server without admin password no spectator keeps bots that he may not
\* own, but for those addai() took over: setmaster() and spectator() hand the
\* bots of his list over.
THEOREM SpectatorsOwnNothing == Spec => []OwnersMayOwn
<1>1. IInv => OwnersMayOwn
  BY Implied
<1> QED BY <1>1, AlwaysIInv, PTL

\* What checkai() leaves behind lasts until the next refresh is scheduled:
\* every bot has the owner that was announced, and the players own evenly the
\* bots that were not taken over by addai().
THEOREM RefreshSettles == Spec => []Settled
<1>1. IInv => Settled
  BY Implied
<1> QED BY <1>1, AlwaysIInv, PTL
=============================================================================
