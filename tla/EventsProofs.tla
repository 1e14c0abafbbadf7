---------------------------- MODULE EventsProofs ----------------------------
(***************************************************************************)
(* Proofs about Events: the queue, the rate of fire and the rockets of a   *)
(* client, for every size of the queue and of the list, and all delays.    *)
(***************************************************************************)
EXTENDS Events, FiniteSetTheorems, WellFoundedInduction, TLAPS

\* The launcher lets the player fire: he has waited for what he fired last.
Waited(p) == p.due <= p.lastshot + p.gunwait

\* None of his shots is older than his life, or than that wait.
ShotsAreLater(p) ==
  \A i \in DOMAIN p.events : p.events[i].kind = "shot" => p.events[i].millis >= p.due

\* The rockets of a number in the list, of which no more are there than were
\* launched and did not blow up.
Copies(q, id) == {i \in DOMAIN q : q[i] = id}

AirOK(p) == \A id \in Stamps : Cardinality(Copies(p.rockets, id)) <= p.air[id]

PlayerOK(p) ==
  /\ p \in Players
  /\ p.armed => Waited(p) \/ ShotsAreLater(p)
  /\ AirOK(p)

\* A player who may fire before he has waited is in a life whose clock began
\* with it, and so will be what he fires.
ClockOK ==
  player.armed => \/ Waited(player)
                  \/ /\ player.due <= now /\ ~loading
                     /\ player.gameoffset # Unsynced => player.gameoffset + clock >= player.due

\* The inductive invariant
EInv == QueueOfThisLife /\ PlayerOK(player) /\ RateOfFire /\ ClockOK

-----------------------------------------------------------------------------
(* Induction, and functions defined by it.                                 *)

LEMMA LeastNatural ==
  ASSUME NEW T, T \subseteq Nat, T # {}
  PROVE  \E x \in T : \A y \in T : x <= y
<1> DEFINE R == OpToRel(<, Nat)
<1>1. IsWellFoundedOn(R, Nat)
  BY NatLessThanWellFounded
<1>2. \A x, y \in Nat : <<y, x>> \in R <=> y < x
  BY DEF OpToRel
<1> HIDE DEF R
<1>3. PICK x \in T : \A y \in T : ~ (<<y, x>> \in R)
  BY <1>1, WFMin
<1>4. \A y \in T : ~ (y < x)
  BY <1>2, <1>3
<1> QED BY <1>4

LEMMA InductiveSet ==
  ASSUME NEW T, 0 \in T, \A k \in Nat : k \in T => k + 1 \in T
  PROVE  Nat \subseteq T
<1> SUFFICES ASSUME Nat \ T # {} PROVE FALSE
  OBVIOUS
<1>1. PICK k \in Nat \ T : \A l \in Nat \ T : k <= l
  BY LeastNatural
<1>2. k - 1 \in Nat /\ (k - 1) + 1 = k
  BY <1>1
<1>3. k - 1 \in T
  BY <1>1, <1>2
<1> QED BY <1>2, <1>3

\* The players after each of the first n events
LEMMA FlushedTrace ==
  ASSUME NEW p, NEW n \in Nat, NEW t
  PROVE  \E f : /\ f[0] = p
                /\ \A k \in 1 .. n : f[k] = Flush(f[k - 1], p.events[k], t)
                /\ Flushed(p, n, t) = f[n]
<1> DEFINE Is(f, m) == f = [k \in 0 .. m |-> IF k = 0 THEN p ELSE Flush(f[k - 1], p.events[k], t)]
           T == {m \in Nat : \E f : Is(f, m)}
<1>1. 0 \in T
  <2>1. Is([k \in 0 .. 0 |-> p], 0)
    OBVIOUS
  <2> QED BY <2>1
<1>2. ASSUME NEW m \in Nat, m \in T PROVE m + 1 \in T
  <2>1. PICK g : Is(g, m)
    BY <1>2
  <2> DEFINE f == [k \in 0 .. m + 1 |-> IF k = m + 1 THEN Flush(g[m], p.events[m + 1], t) ELSE g[k]]
  <2>2. \A k \in 0 .. m : g[k] = IF k = 0 THEN p ELSE Flush(g[k - 1], p.events[k], t)
    BY <2>1
  <2>3. ASSUME NEW k \in 0 .. m + 1
        PROVE  f[k] = IF k = 0 THEN p ELSE Flush(f[k - 1], p.events[k], t)
    <3>1. CASE k = m + 1
      <4>1. k # 0 /\ k - 1 = m /\ m \in 0 .. m + 1 /\ m # m + 1
        BY <3>1
      <4>2. f[k - 1] = g[m] /\ f[k] = Flush(g[m], p.events[m + 1], t)
        BY <3>1, <4>1
      <4> QED BY <3>1, <4>1, <4>2
    <3>2. CASE k # m + 1
      <4>1. k \in 0 .. m /\ f[k] = g[k]
        BY <3>2
      <4>2. k # 0 => k - 1 \in 0 .. m + 1 /\ k - 1 # m + 1 /\ f[k - 1] = g[k - 1]
        BY <4>1
      <4> HIDE DEF f
      <4> QED BY <2>2, <4>1, <4>2
    <3> QED BY <3>1, <3>2
  <2>4. Is(f, m + 1)
    BY <2>3
  <2> HIDE DEF f
  <2>5. \E h : Is(h, m + 1)
    BY <2>4
  <2> HIDE DEF Is
  <2> QED BY <2>5
<1>3. n \in T
  <2> HIDE DEF T
  <2> QED BY <1>1, <1>2, InductiveSet
<1> DEFINE a == CHOOSE f : Is(f, n)
<1>4. Is(a, n)
  BY <1>3
<1>5. Flushed(p, n, t) = a[n]
  BY DEF Flushed
<1>6. \A k \in 0 .. n : a[k] = IF k = 0 THEN p ELSE Flush(a[k - 1], p.events[k], t)
  BY <1>4
<1> HIDE DEF a
<1>7. a[0] = p /\ \A k \in 1 .. n : a[k] = Flush(a[k - 1], p.events[k], t)
  BY <1>6
<1> QED BY <1>5, <1>7

\* Keepable() takes explosions only.
LEMMA KeepableIs ==
  ASSUME NEW S, NEW q \in Seq(S)
  PROVE  /\ Keepable(q) \in Seq(S) /\ Len(Keepable(q)) <= Len(q)
         /\ \A i \in 1 .. Len(Keepable(q)) : Keepable(q)[i].kind = "explode"
<1> DEFINE n == Len(q)
           Is(f, m) == f = [k \in 0 .. m |->
                              IF k = 0 THEN <<>>
                              ELSE IF q[k].kind = "explode" THEN Append(f[k - 1], q[k]) ELSE f[k - 1]]
           OK(f, k) == /\ f[k] \in Seq(S) /\ Len(f[k]) <= k
                       /\ \A i \in 1 .. Len(f[k]) : f[k][i].kind = "explode"
           T == {m \in Nat : \E f : Is(f, m)}
<1>1. 0 \in T
  <2>1. Is([k \in 0 .. 0 |-> <<>>], 0)
    OBVIOUS
  <2> QED BY <2>1
<1>2. ASSUME NEW m \in Nat, m \in T PROVE m + 1 \in T
  <2>1. PICK g : Is(g, m)
    BY <1>2
  <2> DEFINE f == [k \in 0 .. m + 1 |->
                     IF k = m + 1
                     THEN IF q[m + 1].kind = "explode" THEN Append(g[m], q[m + 1]) ELSE g[m]
                     ELSE g[k]]
  <2>2. \A k \in 0 .. m : g[k] = IF k = 0 THEN <<>>
                                 ELSE IF q[k].kind = "explode" THEN Append(g[k - 1], q[k]) ELSE g[k - 1]
    BY <2>1
  <2>3. ASSUME NEW k \in 0 .. m + 1
        PROVE  f[k] = IF k = 0 THEN <<>>
                      ELSE IF q[k].kind = "explode" THEN Append(f[k - 1], q[k]) ELSE f[k - 1]
    <3>1. CASE k = m + 1
      <4>1. k # 0 /\ k - 1 = m /\ m \in 0 .. m + 1 /\ m # m + 1
        BY <3>1
      <4>2. /\ f[k - 1] = g[m]
            /\ f[k] = IF q[k].kind = "explode" THEN Append(g[m], q[k]) ELSE g[m]
        BY <3>1, <4>1
      <4> QED BY <3>1, <4>1, <4>2
    <3>2. CASE k # m + 1
      <4>1. k \in 0 .. m /\ f[k] = g[k]
        BY <3>2
      <4>2. k # 0 => k - 1 \in 0 .. m + 1 /\ k - 1 # m + 1 /\ f[k - 1] = g[k - 1]
        BY <4>1
      <4> HIDE DEF f
      <4> QED BY <2>2, <4>1, <4>2
    <3> QED BY <3>1, <3>2
  <2>4. Is(f, m + 1)
    BY <2>3
  <2> HIDE DEF f
  <2>5. \E h : Is(h, m + 1)
    BY <2>4
  <2> HIDE DEF Is
  <2> QED BY <2>5
<1>3. n \in T
  <2>1. n \in Nat
    OBVIOUS
  <2> HIDE DEF T, n
  <2> QED BY <1>1, <1>2, <2>1, InductiveSet
<1> DEFINE a == CHOOSE f : Is(f, n)
<1>4. Is(a, n)
  BY <1>3
<1>5. Keepable(q) = a[n]
  BY DEF Keepable
<1>6. \A k \in 0 .. n : a[k] = IF k = 0 THEN <<>>
                               ELSE IF q[k].kind = "explode" THEN Append(a[k - 1], q[k]) ELSE a[k - 1]
  BY <1>4
<1> HIDE DEF a
<1> DEFINE U == {k \in Nat : k \in 0 .. n => OK(a, k)}
<1>7. 0 \in U
  <2>1. 0 \in 0 .. n
    OBVIOUS
  <2>2. a[0] = <<>>
    BY <1>6, <2>1
  <2>3. OK(a, 0)
    BY <2>2
  <2> QED BY <2>3
<1>8. ASSUME NEW k \in Nat, k \in U PROVE k + 1 \in U
  <2> SUFFICES ASSUME k + 1 \in 0 .. n PROVE OK(a, k + 1)
    OBVIOUS
  <2>1. k \in 0 .. n /\ OK(a, k) /\ (k + 1) - 1 = k /\ k + 1 # 0
    BY <1>8
  <2>2. a[k + 1] = IF q[k + 1].kind = "explode" THEN Append(a[k], q[k + 1]) ELSE a[k]
    BY <1>6, <2>1
  <2>3. CASE q[k + 1].kind = "explode"
    <3>1. q[k + 1] \in S /\ a[k + 1] = Append(a[k], q[k + 1])
      BY <2>2, <2>3
    <3>2. a[k + 1] \in Seq(S) /\ Len(a[k + 1]) = Len(a[k]) + 1
      BY <2>1, <3>1
    <3>3. ASSUME NEW i \in 1 .. Len(a[k + 1]) PROVE a[k + 1][i].kind = "explode"
      <4>1. CASE i = Len(a[k]) + 1
        BY <2>1, <2>3, <3>1, <4>1
      <4>2. CASE i # Len(a[k]) + 1
        <5>1. i \in 1 .. Len(a[k]) /\ a[k + 1][i] = a[k][i]
          BY <2>1, <3>1, <3>2, <4>2
        <5> QED BY <2>1, <5>1
      <4> QED BY <4>1, <4>2
    <3> QED BY <2>1, <3>2, <3>3
  <2>4. CASE q[k + 1].kind # "explode"
    BY <2>1, <2>2, <2>4
  <2> QED BY <2>3, <2>4
<1>9. n \in U
  <2>1. n \in Nat
    OBVIOUS
  <2> HIDE DEF U, n
  <2> QED BY <1>7, <1>8, <2>1, InductiveSet
<1> QED BY <1>5, <1>9

-----------------------------------------------------------------------------
(* Events and players.                                                     *)

Times == -MaxStamp .. MaxTime + MaxStamp

LEMMA Constants ==
  /\ MaxTime \in Nat /\ MaxStamp \in Nat /\ MaxLives \in Nat /\ MaxLives >= 1
  /\ GameLimit \in Nat /\ DEATHMILLIS \in Nat /\ QueueLimit \in Nat
  /\ ListSize \in Nat /\ ListSize >= 1
  /\ \A g \in Guns : Delay[g] \in Nat /\ Delay[g] >= 1
BY SizeAssumption, TimeAssumption

LEMMA EventIs ==
  ASSUME NEW e \in Events
  PROVE  \/ /\ e.kind = "shot" /\ e.gun \in Guns /\ e.id \in Stamps
            /\ e.millis \in Times /\ e.life \in 0 .. MaxLives
         \/ e.kind = "explode" /\ e.id \in Stamps /\ e.millis \in Times
         \/ e.kind = "suicide" /\ e.life \in 0 .. MaxLives
<1>1. CASE \E g \in Guns, id \in Stamps, t \in Times, l \in 0 .. MaxLives : e = Shot(g, id, t, l)
  BY <1>1 DEF Shot
<1>2. CASE \E id \in Stamps, t \in Times : e = Explosion(id, t)
  BY <1>2 DEF Explosion
<1>3. CASE \E l \in 0 .. MaxLives : e = Suicide(l)
  BY <1>3 DEF Suicide
<1> QED BY <1>1, <1>2, <1>3 DEF Events, Times

LEMMA EventsAre ==
  /\ \A g \in Guns, id \in Stamps, t \in Times, l \in 0 .. MaxLives :
       Shot(g, id, t, l) \in Events
  /\ \A id \in Stamps, t \in Times : Explosion(id, t) \in Events
  /\ \A l \in 0 .. MaxLives : Suicide(l) \in Events
BY DEF Events, Times

Queues == {q \in Seq(Events) : Len(q) <= QueueLimit + 1}
RocketLists == {q \in Seq(Stamps) : Len(q) <= ListSize}

LEMMA PlayersAre ==
  Players = [state: States, lastdeath: 0 .. MaxTime, expected: BOOLEAN, life: 0 .. MaxLives,
             events: Queues, gameoffset: -MaxStamp .. Unsynced, lastevent: Nat, lastshot: Nat,
             gunwait: Nat, armed: BOOLEAN, rockets: RocketLists, air: [Stamps -> Int], due: Nat]
BY DEF Players, Queues, RocketLists

LEMMA PlayerIs ==
  ASSUME NEW p \in Players
  PROVE  /\ p.state \in States /\ p.lastdeath \in 0 .. MaxTime /\ p.expected \in BOOLEAN
         /\ p.life \in 0 .. MaxLives /\ p.events \in Queues
         /\ p.gameoffset \in -MaxStamp .. Unsynced
         /\ p.lastevent \in Nat /\ p.lastshot \in Nat /\ p.gunwait \in Nat
         /\ p.armed \in BOOLEAN /\ p.rockets \in RocketLists
         /\ p.air \in [Stamps -> Int] /\ p.due \in Nat
BY PlayersAre

\* gamestate::respawn()
LEMMA RespawnedKeeps ==
  ASSUME NEW p, PlayerOK(p), NEW q, q = Respawned(p)
  PROVE  /\ PlayerOK(q) /\ q.armed = FALSE /\ q.state = p.state /\ q.events = p.events
         /\ q.life = p.life /\ q.due = p.due /\ q.gameoffset = p.gameoffset
<1>1. p \in Players
  BY DEF PlayerOK
<1>2. 0 \in 0 .. MaxTime
  BY Constants
<1>3. /\ q \in Players /\ q.armed = FALSE /\ q.state = p.state /\ q.events = p.events
      /\ q.life = p.life /\ q.due = p.due /\ q.gameoffset = p.gameoffset
      /\ q.rockets = p.rockets /\ q.air = p.air
  BY <1>1, <1>2, PlayersAre DEF Respawned
<1>4. AirOK(q)
  BY <1>3 DEF AirOK, PlayerOK
<1> QED BY <1>3, <1>4 DEF PlayerOK

\* suicide()
LEMMA SuicidedKeeps ==
  ASSUME NEW p, PlayerOK(p), NEW q, q = Suicided(p)
  PROVE  /\ PlayerOK(q) /\ (q.armed => q = p) /\ q.events = p.events
         /\ q.life = p.life /\ q.due = p.due /\ q.gameoffset = p.gameoffset
<1>1. CASE p.state # "alive"
  BY <1>1 DEF Suicided
<1>2. CASE p.state = "alive"
  <2> DEFINE d == [p EXCEPT !.state = "dead"]
  <2>1. p \in Players
    BY DEF PlayerOK
  <2>2. /\ d \in Players /\ d.armed = p.armed /\ d.due = p.due /\ d.lastshot = p.lastshot
        /\ d.gunwait = p.gunwait /\ d.events = p.events /\ d.rockets = p.rockets /\ d.air = p.air
        /\ d.life = p.life /\ d.gameoffset = p.gameoffset
    BY <2>1, PlayersAre DEF States
  <2>3. q = Respawned(d)
    BY <1>2 DEF Suicided
  <2> HIDE DEF d
  <2>4. PlayerOK(d)
    BY <2>2 DEF PlayerOK, Waited, ShotsAreLater, AirOK
  <2> QED BY <2>2, <2>3, <2>4, RespawnedKeeps
<1> QED BY <1>1, <1>2

-----------------------------------------------------------------------------
(* Rockets.                                                                *)

LEMMA CopiesAre ==
  ASSUME NEW q \in RocketLists, NEW id
  PROVE  IsFiniteSet(Copies(q, id)) /\ Cardinality(Copies(q, id)) \in Nat
<1>1. Len(q) \in Nat /\ DOMAIN q = 1 .. Len(q)
  BY DEF RocketLists
<1>2. IsFiniteSet(1 .. Len(q))
  BY <1>1, FS_Interval
<1>3. Copies(q, id) \subseteq 1 .. Len(q)
  BY <1>1 DEF Copies
<1> QED BY <1>2, <1>3, FS_Subset, FS_CardinalityType

LEMMA AddRocketIs ==
  ASSUME NEW q \in RocketLists, NEW id \in Stamps
  PROVE  /\ AddRocket(q, id) \in RocketLists
         /\ \A x \in Stamps : Cardinality(Copies(AddRocket(q, id), x))
                              <= Cardinality(Copies(q, x)) + (IF x = id THEN 1 ELSE 0)
<1>1. q \in Seq(Stamps) /\ Len(q) \in Nat /\ Len(q) <= ListSize /\ ListSize \in Nat /\ ListSize >= 1
  BY Constants DEF RocketLists
<1>2. CASE Len(q) >= ListSize
  <2> DEFINE a == <<id>>
  <2>1. AddRocket(q, id) = a
    BY <1>2 DEF AddRocket
  <2>2. a \in Seq(Stamps) /\ Len(a) = 1 /\ DOMAIN a = {1} /\ a[1] = id
    OBVIOUS
  <2>3. a \in RocketLists
    BY <1>1, <2>2 DEF RocketLists
  <2> HIDE DEF a
  <2>4. ASSUME NEW x \in Stamps
        PROVE  Cardinality(Copies(a, x)) <= Cardinality(Copies(q, x)) + (IF x = id THEN 1 ELSE 0)
    <3>1. Copies(a, x) = IF x = id THEN {1} ELSE {}
      BY <2>2 DEF Copies
    <3>2. Cardinality(Copies(a, x)) = IF x = id THEN 1 ELSE 0
      BY <3>1, FS_EmptySet, FS_Singleton
    <3> QED BY <3>2, CopiesAre
  <2> QED BY <2>1, <2>3, <2>4
<1>3. CASE Len(q) < ListSize
  <2> DEFINE a == Append(q, id)
             n == Len(q) + 1
  <2>1. AddRocket(q, id) = a
    BY <1>1, <1>3 DEF AddRocket
  <2>2. /\ a \in Seq(Stamps) /\ Len(a) = n /\ DOMAIN a = 1 .. n /\ n \notin DOMAIN q
        /\ \A i \in DOMAIN q : i \in 1 .. n /\ a[i] = q[i]
        /\ a[n] = id /\ \A i \in 1 .. n : i # n => i \in DOMAIN q
    BY <1>1
  <2>3. a \in RocketLists
    BY <1>1, <1>3, <2>2 DEF RocketLists
  <2>31. n \in 1 .. n
    BY <1>1
  <2> HIDE DEF a, n
  <2>4. ASSUME NEW x \in Stamps
        PROVE  Cardinality(Copies(a, x)) <= Cardinality(Copies(q, x)) + (IF x = id THEN 1 ELSE 0)
    <3>1. Copies(a, x) = IF x = id THEN Copies(q, x) \cup {n} ELSE Copies(q, x)
      BY <2>2, <2>31 DEF Copies
    <3>2. n \notin Copies(q, x)
      BY <2>2 DEF Copies
    <3> QED BY <3>1, <3>2, CopiesAre, FS_AddElement
  <2> QED BY <2>1, <2>3, <2>4
<1> QED BY <1>1, <1>2, <1>3

LEMMA RemoveRocketIs ==
  ASSUME NEW q \in RocketLists, NEW id \in Stamps, Contains(q, id)
  PROVE  /\ RemoveRocket(q, id) \in RocketLists
         /\ \A x \in Stamps : Cardinality(Copies(RemoveRocket(q, id), x))
                              = Cardinality(Copies(q, x)) - (IF x = id THEN 1 ELSE 0)
<1> DEFINE I == {i \in 1 .. Len(q) : q[i] = id}
           i == SelectInSeq(q, LAMBDA r : r = id)
           n == Len(q)
           w == [q EXCEPT ![i] = Last(q)]
           a == RemoveRocket(q, id)
<1>1. q \in Seq(Stamps) /\ n \in Nat /\ n <= ListSize /\ ListSize \in Nat
  BY Constants DEF RocketLists
<1>2. I # {} /\ I \subseteq Nat
  BY <1>1 DEF Contains
<1>3. i \in I
  <2>1. PICK m \in I : \A k \in I : m <= k
    BY <1>2, LeastNatural
  <2>2. i = Min(I)
    BY <1>2 DEF SelectInSeq
  <2> HIDE DEF I, i
  <2> QED BY <2>1, <2>2 DEF Min
<1>4. i \in 1 .. n /\ q[i] = id
  BY <1>3
<1>5. n >= 1 /\ Last(q) = q[n] /\ q[n] \in Stamps
  BY <1>1, <1>4 DEF Last
<1>6. a = Front(w)
  BY DEF RemoveRocket
<1> HIDE DEF I, i
<1>7. /\ w \in Seq(Stamps) /\ Len(w) = n
      /\ \A k \in 1 .. n : w[k] = IF k = i THEN q[n] ELSE q[k]
  BY <1>1, <1>4, <1>5
<1> HIDE DEF w, a
<1>8. /\ a \in Seq(Stamps) /\ Len(a) = n - 1
      /\ \A k \in 1 .. n - 1 : a[k] = IF k = i THEN q[n] ELSE q[k]
  BY <1>1, <1>5, <1>6, <1>7 DEF Front
<1>9. a \in RocketLists
  BY <1>1, <1>8 DEF RocketLists
<1>10. /\ DOMAIN q = 1 .. n /\ DOMAIN a = 1 .. n - 1 /\ n \in 1 .. n
       /\ \A k \in 1 .. n : k # n => k \in 1 .. n - 1
       /\ \A k \in 1 .. n - 1 : k \in 1 .. n /\ k # n
  BY <1>1, <1>5, <1>8
<1>11. ASSUME NEW x \in Stamps
       PROVE  Cardinality(Copies(a, x)) = Cardinality(Copies(q, x)) - (IF x = id THEN 1 ELSE 0)
  <2> DEFINE A == Copies(a, x)
             Q == Copies(q, x)
  <2>0. A = {k \in 1 .. n - 1 : a[k] = x} /\ Q = {k \in 1 .. n : q[k] = x}
    BY <1>10 DEF Copies
  <2>1. IsFiniteSet(Q) /\ Cardinality(Q) \in Nat
    BY CopiesAre
  <2> HIDE DEF A, Q
  <2>2. CASE x = id /\ q[n] = id
    <3>1. A = Q \ {n} /\ n \in Q
      BY <1>4, <1>8, <1>10, <2>0, <2>2
    <3> QED BY <2>1, <2>2, <3>1, FS_RemoveElement DEF A, Q
  <2>3. CASE x = id /\ q[n] # id
    <3>1. A = Q \ {i} /\ i \in Q
      BY <1>4, <1>8, <1>10, <2>0, <2>3
    <3> QED BY <2>1, <2>3, <3>1, FS_RemoveElement DEF A, Q
  <2>4. CASE x # id /\ q[n] = x
    <3>1. i # n /\ A = (Q \ {n}) \cup {i} /\ n \in Q /\ i \notin Q \ {n}
      BY <1>4, <1>8, <1>10, <2>0, <2>4
    <3>2. IsFiniteSet(Q \ {n}) /\ Cardinality(Q \ {n}) = Cardinality(Q) - 1
      BY <2>1, <3>1, FS_RemoveElement
    <3>3. Cardinality(A) = Cardinality(Q \ {n}) + 1
      BY <3>1, <3>2, FS_AddElement
    <3> QED BY <2>1, <2>4, <3>2, <3>3 DEF A, Q
  <2>5. CASE x # id /\ q[n] # x
    <3>1. A = Q
      BY <1>4, <1>8, <1>10, <2>0, <2>5
    <3> QED BY <2>1, <2>5, <3>1 DEF A, Q
  <2> QED BY <2>2, <2>3, <2>4, <2>5
<1> QED BY <1>9, <1>11 DEF a

-----------------------------------------------------------------------------
(* One event is processed.                                                 *)

\* The wait of q is over, or begins where that of p does.
WaitsOn(p, q) == q.armed => p.armed /\ (Waited(q) \/ (q.due = p.due /\ ~Waited(p)))

\* q is p after an event of his queue that is not later than X allows.
After(p, q, X) ==
  /\ WaitsOn(p, q)
  /\ PlayerOK(q) /\ q.events = p.events /\ q.life = p.life /\ q.gameoffset = p.gameoffset
  /\ p.due <= X => q.due <= X

LEMMA FiredKeeps ==
  ASSUME NEW p, PlayerOK(p), NEW i \in DOMAIN p.events, NEW e, e = p.events[i],
         e \in Events, e.kind = "shot", NEW t \in Int,
         NEW X \in Int, e.millis + Delay["rocket"] <= X
  PROVE  After(p, Fired(p, e, t), X)
<1> DEFINE D == Delay[e.gun]
           q == [p EXCEPT !.lastshot = e.millis, !.gunwait = D]
<1>1. p \in Players /\ p.due \in Nat /\ p.lastshot \in Nat /\ p.gunwait \in Nat
  BY PlayerIs DEF PlayerOK
<1>2. /\ e.millis \in Int /\ e.gun \in Guns /\ e.id \in Stamps /\ D \in Nat /\ D >= 1
  BY EventIs, Constants DEF Times
<1>3. CASE ~MayFire(p, e, t)
  <2>1. Fired(p, e, t) = p
    BY <1>3 DEF Fired
  <2> QED BY <2>1 DEF After, WaitsOn
<1>4. CASE MayFire(p, e, t)
  <2>1. e.millis \in Nat /\ e.millis >= p.lastshot + p.gunwait
    BY <1>1, <1>2, <1>4 DEF MayFire
  <2>2. p.armed => p.due <= e.millis
    BY <1>1, <2>1 DEF PlayerOK, Waited, ShotsAreLater
  <2>3. /\ q \in Players /\ q.armed = p.armed /\ q.due = p.due /\ q.lastshot = e.millis
        /\ q.gunwait = D /\ q.events = p.events /\ q.rockets = p.rockets /\ q.air = p.air
        /\ q.life = p.life /\ q.gameoffset = p.gameoffset
    BY <1>1, <1>2, <2>1, PlayersAre
  <2> HIDE DEF q, D
  <2>4. CASE e.gun = "fist"
    <3>1. Fired(p, e, t) = q
      BY <1>4, <2>4 DEF Fired, q, D
    <3>2. q.armed => Waited(q)
      BY <1>1, <1>2, <2>1, <2>2, <2>3 DEF Waited
    <3>3. AirOK(q)
      BY <2>3 DEF AirOK, PlayerOK
    <3> QED BY <2>3, <3>1, <3>2, <3>3 DEF After, PlayerOK, WaitsOn
  <2>5. CASE e.gun = "rocket"
    <3> DEFINE L == AddRocket(q.rockets, e.id)
               A == [q.air EXCEPT ![e.id] = q.air[e.id] + 1]
               d == q.due + D
               r == [q EXCEPT !.rockets = L, !.air = A, !.due = d]
    <3>1. Fired(p, e, t) = r
      BY <1>4, <2>5 DEF Fired, q, D
    <3>2. q.rockets \in RocketLists /\ q.air \in [Stamps -> Int] /\ q.due \in Nat
      BY <2>3, PlayerIs
    <3>3. /\ L \in RocketLists
          /\ \A x \in Stamps : Cardinality(Copies(L, x))
                               <= Cardinality(Copies(q.rockets, x)) + (IF x = e.id THEN 1 ELSE 0)
      BY <1>2, <3>2, AddRocketIs
    <3> HIDE DEF L
    <3>4. /\ r \in Players /\ r.armed = q.armed /\ r.due = q.due + D /\ r.lastshot = q.lastshot
          /\ r.gunwait = q.gunwait /\ r.events = q.events /\ r.rockets = L
          /\ r.air = [q.air EXCEPT ![e.id] = q.air[e.id] + 1]
          /\ r.life = q.life /\ r.gameoffset = q.gameoffset
      <4>1. A \in [Stamps -> Int] /\ d \in Nat
        BY <1>2, <3>2
      <4> HIDE DEF A, d
      <4>2. /\ r \in Players /\ r.armed = q.armed /\ r.due = d /\ r.lastshot = q.lastshot
            /\ r.gunwait = q.gunwait /\ r.events = q.events /\ r.rockets = L /\ r.air = A
            /\ r.life = q.life /\ r.gameoffset = q.gameoffset
        BY <2>3, <3>3, <4>1, PlayersAre
      <4> QED BY <4>2 DEF A, d
    <3> HIDE DEF r
    <3>5. p.armed
      BY <1>4, <2>5 DEF MayFire
    <3>6. r.due <= e.millis + D /\ Waited(r)
      BY <1>1, <1>2, <2>1, <2>2, <2>3, <3>4, <3>5 DEF Waited
    <3>7. D = Delay["rocket"]
      BY <2>5 DEF D
    <3>8. r.due <= X
      BY <1>2, <2>1, <3>2, <3>4, <3>6, <3>7
    <3>9. AirOK(r)
      <4> SUFFICES ASSUME NEW x \in Stamps PROVE Cardinality(Copies(r.rockets, x)) <= r.air[x]
        BY DEF AirOK
      <4>1. Cardinality(Copies(L, x)) \in Nat /\ Cardinality(Copies(q.rockets, x)) \in Nat
        BY <3>2, <3>3, CopiesAre
      <4>2. Cardinality(Copies(q.rockets, x)) <= q.air[x]
        BY <2>3 DEF AirOK, PlayerOK
      <4>3. r.air[x] = IF x = e.id THEN q.air[x] + 1 ELSE q.air[x]
        BY <3>2, <3>4
      <4>4. q.air[x] \in Int
        BY <3>2
      <4> QED BY <3>3, <3>4, <4>1, <4>2, <4>3, <4>4
    <3> QED BY <2>3, <3>1, <3>4, <3>6, <3>8, <3>9 DEF After, PlayerOK, WaitsOn
  <2> QED BY <1>2, <2>4, <2>5 DEF Guns
<1> QED BY <1>3, <1>4

LEMMA ExplodedKeeps ==
  ASSUME NEW p, PlayerOK(p), NEW e, e \in Events, e.kind = "explode", NEW X
  PROVE  After(p, Exploded(p, e), X)
<1>1. CASE ~Contains(p.rockets, e.id)
  <2>1. Exploded(p, e) = p
    BY <1>1 DEF Exploded
  <2> QED BY <2>1 DEF After, WaitsOn
<1>2. CASE Contains(p.rockets, e.id)
  <2> DEFINE L == RemoveRocket(p.rockets, e.id)
             A == [p.air EXCEPT ![e.id] = p.air[e.id] - 1]
             r == [p EXCEPT !.rockets = L, !.air = A]
  <2>1. Exploded(p, e) = r
    BY <1>2 DEF Exploded
  <2>2. /\ p \in Players /\ p.rockets \in RocketLists /\ p.air \in [Stamps -> Int]
        /\ e.id \in Stamps
    BY PlayerIs, EventIs DEF PlayerOK
  <2>3. /\ L \in RocketLists
        /\ \A x \in Stamps : Cardinality(Copies(L, x))
                             = Cardinality(Copies(p.rockets, x)) - (IF x = e.id THEN 1 ELSE 0)
    BY <1>2, <2>2, RemoveRocketIs
  <2> HIDE DEF L
  <2>4. /\ r \in Players /\ r.armed = p.armed /\ r.due = p.due /\ r.lastshot = p.lastshot
        /\ r.gunwait = p.gunwait /\ r.events = p.events /\ r.rockets = L
        /\ r.air = [p.air EXCEPT ![e.id] = p.air[e.id] - 1]
        /\ r.life = p.life /\ r.gameoffset = p.gameoffset
    <3>1. A \in [Stamps -> Int]
      BY <2>2
    <3> HIDE DEF A
    <3>2. /\ r \in Players /\ r.armed = p.armed /\ r.due = p.due /\ r.lastshot = p.lastshot
          /\ r.gunwait = p.gunwait /\ r.events = p.events /\ r.rockets = L /\ r.air = A
          /\ r.life = p.life /\ r.gameoffset = p.gameoffset
      BY <2>2, <2>3, <3>1, PlayersAre
    <3> QED BY <3>2 DEF A
  <2> HIDE DEF r
  <2>5. AirOK(r)
    <3> SUFFICES ASSUME NEW x \in Stamps PROVE Cardinality(Copies(r.rockets, x)) <= r.air[x]
      BY DEF AirOK
    <3>1. Cardinality(Copies(L, x)) \in Nat /\ Cardinality(Copies(p.rockets, x)) \in Nat
      BY <2>2, <2>3, CopiesAre
    <3>2. Cardinality(Copies(p.rockets, x)) <= p.air[x]
      BY DEF AirOK, PlayerOK
    <3>3. r.air[x] = IF x = e.id THEN p.air[x] - 1 ELSE p.air[x]
      BY <2>2, <2>4
    <3>4. p.air[x] \in Int
      BY <2>2
    <3> QED BY <2>3, <2>4, <3>1, <3>2, <3>3, <3>4
  <2> QED BY <2>1, <2>4, <2>5 DEF After, PlayerOK, Waited, ShotsAreLater, WaitsOn
<1> QED BY <1>1, <1>2

\* timedevent::flush() and gameevent::flush()
LEMMA FlushKeeps ==
  ASSUME NEW p, PlayerOK(p), NEW i \in DOMAIN p.events, NEW e, e = p.events[i],
         e \in Events, NEW t \in Int,
         NEW X \in Int, Timed(e) => e.millis + Delay["rocket"] <= X
  PROVE  After(p, Flush(p, e, t), X)
<1>0. After(p, p, X)
  BY DEF After, WaitsOn
<1>1. CASE e.kind = "suicide"
  <2>1. Flush(p, e, t) = Suicided(p)
    BY <1>1 DEF Flush, Timed, Processed
  <2>2. PICK q : q = Suicided(p)
    OBVIOUS
  <2> QED BY <2>1, <2>2, SuicidedKeeps DEF After, WaitsOn
<1>2. CASE e.kind \in {"shot", "explode"} /\ e.millis < p.lastevent
  BY <1>0, <1>2 DEF Flush, Timed
<1>3. CASE e.kind \in {"shot", "explode"} /\ ~(e.millis < p.lastevent)
  <2> DEFINE q == [p EXCEPT !.lastevent = e.millis]
  <2>1. p \in Players /\ e.millis \in Nat
    BY <1>3, PlayerIs, EventIs DEF PlayerOK, Times
  <2>2. /\ q \in Players /\ q.armed = p.armed /\ q.due = p.due /\ q.lastshot = p.lastshot
        /\ q.gunwait = p.gunwait /\ q.events = p.events /\ q.rockets = p.rockets /\ q.air = p.air
        /\ q.life = p.life /\ q.gameoffset = p.gameoffset
    BY <2>1, PlayersAre
  <2>3. Flush(p, e, t) = Processed(q, e, t)
    BY <1>3 DEF Flush, Timed
  <2> HIDE DEF q
  <2>4. PlayerOK(q)
    BY <2>2 DEF PlayerOK, Waited, ShotsAreLater, AirOK
  <2>5. CASE e.kind = "shot"
    <3>1. Processed(q, e, t) = Fired(q, e, t)
      BY <2>5 DEF Processed
    <3>2. After(q, Fired(q, e, t), X)
      BY <2>2, <2>4, <2>5, FiredKeeps DEF Timed
    <3> QED BY <2>2, <2>3, <3>1, <3>2 DEF After, WaitsOn, Waited
  <2>6. CASE e.kind = "explode"
    <3>1. Processed(q, e, t) = Exploded(q, e)
      BY <2>6 DEF Processed
    <3>2. After(q, Exploded(q, e), X)
      BY <2>4, <2>6, ExplodedKeeps
    <3> QED BY <2>2, <2>3, <3>1, <3>2 DEF After, WaitsOn, Waited
  <2> QED BY <1>3, <2>5, <2>6
<1> QED BY <1>1, <1>2, <1>3, EventIs

-----------------------------------------------------------------------------
(* The queue is processed.                                                 *)

LEMMA AfterTwice ==
  ASSUME NEW p, NEW q, NEW r, NEW X, After(p, q, X), After(q, r, X)
  PROVE  After(p, r, X)
BY DEF After, WaitsOn

LEMMA FlushedKeeps ==
  ASSUME NEW p, PlayerOK(p), NEW n \in 0 .. Len(p.events), NEW t \in Int, NEW X \in Int,
         \A i \in 1 .. n : Timed(p.events[i]) => p.events[i].millis + Delay["rocket"] <= X
  PROVE  After(p, Flushed(p, n, t), X)
<1>1. p.events \in Seq(Events) /\ Len(p.events) \in Nat
  BY PlayerIs DEF PlayerOK, Queues
<1>2. PICK f : /\ f[0] = p
               /\ \A k \in 1 .. n : f[k] = Flush(f[k - 1], p.events[k], t)
               /\ Flushed(p, n, t) = f[n]
  <2>1. n \in Nat
    BY <1>1
  <2> QED BY <2>1, FlushedTrace
<1> DEFINE U == {k \in Nat : k <= n => After(p, f[k], X)}
<1>3. 0 \in U
  BY <1>2 DEF After, WaitsOn
<1>4. ASSUME NEW k \in Nat, k \in U PROVE k + 1 \in U
  <2> SUFFICES ASSUME k + 1 <= n PROVE After(p, f[k + 1], X)
    OBVIOUS
  <2> DEFINE e == p.events[k + 1]
  <2>1. k + 1 \in 1 .. n /\ (k + 1) - 1 = k /\ k <= n /\ k + 1 \in 1 .. Len(p.events)
    BY <1>1
  <2>2. After(p, f[k], X)
    BY <1>4, <2>1
  <2>3. f[k + 1] = Flush(f[k], e, t)
    BY <1>2, <2>1
  <2>4. e \in Events /\ (Timed(e) => e.millis + Delay["rocket"] <= X)
    BY <1>1, <2>1
  <2>5. PlayerOK(f[k]) /\ f[k].events = p.events /\ k + 1 \in DOMAIN f[k].events
    BY <1>1, <2>1, <2>2 DEF After
  <2>6. PICK g : g = f[k]
    OBVIOUS
  <2> HIDE DEF e
  <2>7. e = g.events[k + 1]
    BY <2>5, <2>6 DEF e
  <2>8. After(g, Flush(g, e, t), X)
    BY <2>4, <2>5, <2>6, <2>7, FlushKeeps
  <2> QED BY <2>2, <2>3, <2>6, <2>8, AfterTwice
<1>5. n \in U
  <2>1. n \in Nat
    BY <1>1
  <2> HIDE DEF U
  <2> QED BY <1>3, <1>4, <2>1, InductiveSet
<1> QED BY <1>1, <1>2, <1>5

\* q has some of the events of p.
Fewer(q, p) == \A i \in DOMAIN q.events : \E k \in DOMAIN p.events : q.events[i] = p.events[k]

LEMMA FlushEventsKeeps ==
  ASSUME NEW p, PlayerOK(p), NEW fmillis \in Int, NEW t \in Int,
         NEW q, q = FlushEvents(p, fmillis, t)
  PROVE  /\ PlayerOK(q) /\ q.life = p.life /\ q.gameoffset = p.gameoffset
         /\ Fewer(q, p) /\ Len(q.events) <= Len(p.events) /\ WaitsOn(p, q)
         /\ p.due <= fmillis + Delay["rocket"] => q.due <= fmillis + Delay["rocket"]
<1> DEFINE first == SelectInSeq(p.events, LAMBDA e : Waits(e, fmillis))
           n == IF first = 0 THEN Len(p.events) ELSE first - 1
           I == {i \in 1 .. Len(p.events) : Waits(p.events[i], fmillis)}
           X == fmillis + Delay["rocket"]
           r == Flushed(p, n, t)
           s == SubSeq(p.events, n + 1, Len(p.events))
<1>1. /\ p.events \in Seq(Events) /\ Len(p.events) \in Nat /\ Len(p.events) <= QueueLimit + 1
      /\ QueueLimit \in Nat
  BY PlayerIs, Constants DEF PlayerOK, Queues
<1>2. n \in 0 .. Len(p.events) /\ \A i \in 1 .. n : ~Waits(p.events[i], fmillis)
  <2>1. CASE I = {}
    <3>1. first = 0
      BY <2>1 DEF SelectInSeq
    <3> QED BY <1>1, <2>1, <3>1
  <2>2. CASE I # {}
    <3>1. PICK m \in I : \A k \in I : m <= k
      <4>1. I \subseteq Nat
        BY <1>1
      <4> HIDE DEF I
      <4> QED BY <2>2, <4>1, LeastNatural
    <3>2. first = Min(I)
      BY <2>2 DEF SelectInSeq
    <3>3. first \in I /\ \A k \in I : first <= k
      <4> HIDE DEF I, first
      <4> QED BY <3>1, <3>2 DEF Min
    <3> HIDE DEF first
    <3>4. first \in 1 .. Len(p.events) /\ n = first - 1
      BY <1>1, <3>3
    <3>5. ASSUME NEW i \in 1 .. n PROVE ~Waits(p.events[i], fmillis)
      <4>1. i \in 1 .. Len(p.events) /\ i < first
        BY <1>1, <3>4
      <4> QED BY <3>3, <3>4, <4>1
    <3> QED BY <1>1, <3>4, <3>5
  <2> QED BY <2>1, <2>2
<1>3. q = [r EXCEPT !.events = s]
  BY DEF FlushEvents
<1> HIDE DEF n, first, I
<1>4. ASSUME NEW i \in 1 .. n, Timed(p.events[i])
      PROVE  p.events[i].millis + Delay["rocket"] <= X
  <2>1. p.events[i] \in Events
    BY <1>1, <1>2
  <2>2. p.events[i].millis \in Int
    BY <1>4, <2>1, EventIs DEF Timed, Times
  <2> QED BY <1>2, <1>4, <2>2, Constants DEF Waits, Guns
<1>5. X \in Int
  BY Constants DEF Guns
<1> HIDE DEF X
<1>6. After(p, r, X)
  BY <1>2, <1>4, <1>5, FlushedKeeps
<1> HIDE DEF r
<1>7. /\ s \in Seq(Events) /\ Len(s) <= Len(p.events)
      /\ \A i \in DOMAIN s : n + i \in 1 .. Len(p.events) /\ s[i] = p.events[n + i]
  BY <1>1, <1>2
<1>8. s \in Queues /\ DOMAIN p.events = 1 .. Len(p.events)
  BY <1>1, <1>7 DEF Queues
<1> HIDE DEF s
<1>9. r \in Players
  BY <1>6 DEF After, PlayerOK
<1>10. /\ q \in Players /\ q.armed = r.armed /\ q.due = r.due /\ q.lastshot = r.lastshot
       /\ q.gunwait = r.gunwait /\ q.events = s /\ q.rockets = r.rockets /\ q.air = r.air
       /\ q.life = r.life /\ q.gameoffset = r.gameoffset
  BY <1>3, <1>8, <1>9, PlayersAre
<1>11. Fewer(q, p)
  BY <1>7, <1>8, <1>10 DEF Fewer
<1>12. ShotsAreLater(r) => ShotsAreLater(q)
  <2>1. r.events = p.events
    BY <1>6 DEF After
  <2> QED BY <1>10, <1>11, <2>1 DEF ShotsAreLater, Fewer
<1>13. PlayerOK(q)
  BY <1>6, <1>10, <1>12 DEF PlayerOK, After, Waited, AirOK
<1> QED BY <1>6, <1>7, <1>10, <1>11, <1>13 DEF After, X, WaitsOn, Waited

\* cleartimedevents()
LEMMA ClearTimedEventsKeeps ==
  ASSUME NEW p, PlayerOK(p), NEW q, q = ClearTimedEvents(p)
  PROVE  /\ q \in Players /\ AirOK(q) /\ q.life = p.life /\ q.gameoffset = Unsynced
         /\ \A i \in DOMAIN q.events : q.events[i].kind = "explode"
<1> DEFINE s == Keepable(p.events)
<1>1. p \in Players /\ p.events \in Seq(Events) /\ Len(p.events) \in Nat
      /\ Len(p.events) <= QueueLimit + 1 /\ QueueLimit \in Nat
  BY PlayerIs, Constants DEF PlayerOK, Queues
<1>2. /\ s \in Seq(Events) /\ Len(s) <= Len(p.events)
      /\ \A i \in 1 .. Len(s) : s[i].kind = "explode"
  BY <1>1, KeepableIs
<1> HIDE DEF s
<1>3. s \in Queues /\ DOMAIN s = 1 .. Len(s)
  BY <1>1, <1>2 DEF Queues
<1>4. Unsynced \in -MaxStamp .. Unsynced
  BY Constants DEF Unsynced
<1>5. /\ q \in Players /\ q.events = s /\ q.rockets = p.rockets /\ q.air = p.air
      /\ q.life = p.life /\ q.gameoffset = Unsynced
  BY <1>1, <1>3, <1>4, PlayersAre DEF ClearTimedEvents, s
<1>6. AirOK(q)
  BY <1>5 DEF AirOK, PlayerOK
<1> QED BY <1>2, <1>3, <1>5, <1>6

\* sendspawn()
LEMMA WithSpawnKeeps ==
  ASSUME NEW p \in Players, AirOK(p), p.life < MaxLives,
         \A i \in DOMAIN p.events : p.events[i].kind = "explode",
         NEW t \in 0 .. MaxTime, NEW q, q = WithSpawn(p, t)
  PROVE  /\ PlayerOK(q) /\ q.due = t /\ q.life = p.life + 1 /\ q.events = p.events
         /\ q.gameoffset = p.gameoffset /\ q.lastshot = p.lastshot /\ q.gunwait = p.gunwait
<1>1. p.life + 1 \in 0 .. MaxLives /\ t \in Nat
  BY PlayerIs, Constants
<1>2. /\ q \in Players /\ q.due = t /\ q.life = p.life + 1 /\ q.events = p.events
      /\ q.gameoffset = p.gameoffset /\ q.rockets = p.rockets /\ q.air = p.air
      /\ q.lastshot = p.lastshot /\ q.gunwait = p.gunwait
  BY <1>1, PlayersAre DEF WithSpawn
<1>3. AirOK(q) /\ ShotsAreLater(q)
  BY <1>2 DEF AirOK, ShotsAreLater
<1> QED BY <1>2, <1>3 DEF PlayerOK

-----------------------------------------------------------------------------
(* Events arrive.                                                          *)

\* addevent() of an event that is not a shot before its time
LEMMA AddEventKeeps ==
  ASSUME NEW p, PlayerOK(p), NEW e \in Events,
         e.kind = "shot" /\ p.armed => Waited(p) \/ e.millis >= p.due,
         NEW q, q = AddEvent(p, e)
  PROVE  /\ PlayerOK(q) /\ q.due = p.due /\ q.life = p.life /\ q.gameoffset = p.gameoffset
         /\ q.armed = p.armed /\ (Waited(p) <=> Waited(q))
         /\ \A i \in DOMAIN q.events :
              q.events[i] = e \/ \E k \in DOMAIN p.events : q.events[i] = p.events[k]
<1> DEFINE s == Append(p.events, e)
<1>1. p \in Players /\ p.events \in Seq(Events) /\ Len(p.events) \in Nat /\ QueueLimit \in Nat
  BY PlayerIs, Constants DEF PlayerOK, Queues
<1>2. CASE p.state = "spectator" \/ Len(p.events) > QueueLimit
  BY <1>2 DEF AddEvent
<1>3. CASE ~(p.state = "spectator" \/ Len(p.events) > QueueLimit)
  <2>1. /\ s \in Seq(Events) /\ Len(s) = Len(p.events) + 1
        /\ DOMAIN p.events = 1 .. Len(p.events) /\ DOMAIN s = 1 .. Len(s)
        /\ \A i \in DOMAIN p.events : s[i] = p.events[i]
        /\ s[Len(s)] = e
        /\ \A i \in DOMAIN s : i = Len(s) \/ i \in DOMAIN p.events
    BY <1>1
  <2> HIDE DEF s
  <2>2. s \in Queues
    BY <1>1, <1>3, <2>1 DEF Queues
  <2>3. /\ q \in Players /\ q.armed = p.armed /\ q.due = p.due /\ q.lastshot = p.lastshot
        /\ q.gunwait = p.gunwait /\ q.events = s /\ q.rockets = p.rockets /\ q.air = p.air
        /\ q.life = p.life /\ q.gameoffset = p.gameoffset
    BY <1>1, <1>3, <2>2, PlayersAre DEF AddEvent, s
  <2>4. Waited(p) <=> Waited(q)
    BY <2>3 DEF Waited
  <2>5. \A i \in DOMAIN q.events :
          q.events[i] = e \/ \E k \in DOMAIN p.events : q.events[i] = p.events[k]
    BY <2>1, <2>3
  <2>6. q.armed /\ ~Waited(q) => ShotsAreLater(q)
    BY <2>3, <2>4, <2>5 DEF PlayerOK, ShotsAreLater
  <2>7. AirOK(q)
    BY <2>3 DEF AirOK, PlayerOK
  <2> QED BY <2>3, <2>4, <2>5, <2>6, <2>7 DEF PlayerOK
<1> QED BY <1>2, <1>3

\* geteventmillis()
LEMMA SyncedKeeps ==
  ASSUME NEW p, PlayerOK(p), now \in 0 .. MaxTime, NEW c \in Stamps,
         NEW q, q = Synced(p, c)
  PROVE  /\ PlayerOK(q) /\ q.due = p.due /\ q.life = p.life /\ q.events = p.events
         /\ q.armed = p.armed /\ (Waited(p) <=> Waited(q))
         /\ q.gameoffset \in -MaxStamp .. MaxTime
         /\ \/ q.gameoffset + c = now
            \/ p.gameoffset # Unsynced /\ q.gameoffset = p.gameoffset
         /\ EventMillis(p, c) = q.gameoffset + c /\ EventMillis(p, c) \in Times
<1>1. p \in Players /\ p.gameoffset \in -MaxStamp .. Unsynced
  BY PlayerIs DEF PlayerOK
<1>2. MaxTime \in Nat /\ MaxStamp \in Nat /\ c \in 0 .. MaxStamp /\ Unsynced = MaxTime + 1
  BY Constants DEF Stamps, Unsynced
<1>3. CASE MustSync(p)
  <2>1. now - c \in -MaxStamp .. MaxTime /\ now - c \in -MaxStamp .. Unsynced
    BY <1>2
  <2>2. /\ q \in Players /\ q.armed = p.armed /\ q.due = p.due /\ q.lastshot = p.lastshot
        /\ q.gunwait = p.gunwait /\ q.events = p.events /\ q.rockets = p.rockets /\ q.air = p.air
        /\ q.life = p.life /\ q.gameoffset = now - c
    BY <1>1, <1>3, <2>1, PlayersAre DEF Synced
  <2>3. PlayerOK(q) /\ (Waited(p) <=> Waited(q))
    BY <2>2 DEF PlayerOK, Waited, ShotsAreLater, AirOK
  <2>4. EventMillis(p, c) = q.gameoffset + c
    BY DEF EventMillis
  <2>5. q.gameoffset + c = now /\ q.gameoffset + c \in Times
    BY <1>2, <2>2 DEF Times
  <2> QED BY <2>1, <2>2, <2>3, <2>4, <2>5
<1>4. CASE ~MustSync(p)
  <2>1. q = p /\ p.gameoffset # Unsynced
    BY <1>4 DEF Synced, MustSync
  <2>2. EventMillis(p, c) = q.gameoffset + c
    BY DEF EventMillis
  <2>3. q.gameoffset \in -MaxStamp .. MaxTime /\ q.gameoffset + c \in Times
    BY <1>1, <1>2, <2>1 DEF Times
  <2> QED BY <2>1, <2>2, <2>3
<1> QED BY <1>3, <1>4

-----------------------------------------------------------------------------
(* Every action keeps the invariant.                                       *)

OfThisLife(p) == \A i \in DOMAIN p.events : p.events[i].kind # "explode" => p.events[i].life = p.life

LEMMA EInvIs ==
  EInv <=> /\ now \in 0 .. MaxTime /\ clock \in Stamps /\ loading \in BOOLEAN
           /\ PlayerOK(player) /\ OfThisLife(player)
           /\ player.due <= now + Delay["rocket"] /\ ClockOK
BY DEF EInv, QueueOfThisLife, TypeOK, RateOfFire, PlayerOK, OfThisLife

LEMMA EInvNextIs ==
  ASSUME NEW q, player' = q, now' \in 0 .. MaxTime, clock' \in Stamps, loading' \in BOOLEAN,
         PlayerOK(q), OfThisLife(q), q.due <= now' + Delay["rocket"], ClockOK'
  PROVE  EInv'
BY DEF EInv, QueueOfThisLife, TypeOK, RateOfFire, PlayerOK, OfThisLife

\* A stamped event that is no shot, or a shot at the time of its stamp
LEMMA StampedKeeps ==
  ASSUME EInv, NEW c \in Stamps, Stamp(c), UNCHANGED <<now, loading>>, NEW e \in Events,
         e.kind # "suicide", e.millis = EventMillis(player, c),
         e.kind = "shot" => e.life = player.life,
         player' = AddEvent(Synced(player, c), e)
  PROVE  EInv'
<1>1. PICK r : r = Synced(player, c)
  OBVIOUS
<1>2. PICK q : q = AddEvent(r, e)
  OBVIOUS
<1>3. player' = q /\ now' = now /\ loading' = loading /\ clock' = c /\ clock <= c
  BY <1>1, <1>2 DEF Stamp
<1>4. /\ PlayerOK(r) /\ r.due = player.due /\ r.life = player.life /\ r.events = player.events
      /\ r.armed = player.armed /\ (Waited(player) <=> Waited(r))
      /\ r.gameoffset \in -MaxStamp .. MaxTime
      /\ \/ r.gameoffset + c = now
         \/ player.gameoffset # Unsynced /\ r.gameoffset = player.gameoffset
      /\ e.millis = r.gameoffset + c
  BY <1>1, EInvIs, SyncedKeeps
<1>5. /\ clock \in Int /\ c \in Int /\ now \in Int /\ player.due \in Int /\ r.gameoffset \in Int
      /\ player.gameoffset \in Int
  <2>1. player \in Players /\ clock \in Stamps /\ now \in 0 .. MaxTime
    BY EInvIs DEF PlayerOK
  <2>2. player.due \in Nat /\ player.gameoffset \in -MaxStamp .. Unsynced
    BY <2>1, PlayerIs
  <2> QED BY <1>4, <2>1, <2>2, Constants DEF Stamps, Unsynced
<1>6. player.armed /\ ~Waited(player) => player.due <= r.gameoffset + c
  BY <1>3, <1>4, <1>5, EInvIs DEF ClockOK
<1>7. e.kind = "shot" /\ r.armed => Waited(r) \/ e.millis >= r.due
  BY <1>4, <1>5, <1>6
<1>8. /\ PlayerOK(q) /\ q.due = r.due /\ q.life = r.life /\ q.gameoffset = r.gameoffset
      /\ q.armed = r.armed /\ (Waited(r) <=> Waited(q))
      /\ \A i \in DOMAIN q.events :
           q.events[i] = e \/ \E k \in DOMAIN r.events : q.events[i] = r.events[k]
  BY <1>2, <1>4, <1>7, AddEventKeeps
<1>9. OfThisLife(q)
  <2>1. e.kind # "explode" => e.life = player.life
    BY EventIs
  <2> QED BY <1>4, <1>8, <2>1, EInvIs DEF OfThisLife
<1>10. ClockOK'
  <2>1. player.armed /\ ~Waited(player) => player.due <= now /\ ~loading
    BY EInvIs DEF ClockOK
  <2>2. q.armed => \/ Waited(q)
                   \/ /\ q.due <= now /\ ~loading
                      /\ q.gameoffset # Unsynced => q.gameoffset + c >= q.due
    BY <1>4, <1>5, <1>6, <1>8, <2>1
  <2> QED BY <1>3, <2>2 DEF ClockOK
<1> QED BY <1>3, <1>4, <1>8, <1>9, <1>10, EInvIs, EInvNextIs

LEMMA ShootKeeps ==
  ASSUME EInv, NEW g \in Guns, NEW c \in Stamps, Shoot(g, c)
  PROVE  EInv'
<1> DEFINE e == Shot(g, c, EventMillis(player, c), player.life)
<1>1. e \in Events
  <2>1. EventMillis(player, c) \in Times
    <3>1. PICK r : r = Synced(player, c)
      OBVIOUS
    <3> QED BY <3>1, EInvIs, SyncedKeeps
  <2>2. player.life \in 0 .. MaxLives
    BY EInvIs, PlayerIs DEF PlayerOK
  <2> QED BY <2>1, <2>2, EventsAre
<1>2. /\ e.kind = "shot" /\ e.kind # "suicide" /\ e.millis = EventMillis(player, c)
      /\ e.life = player.life
  BY DEF Shot
<1>3. Stamp(c) /\ player' = AddEvent(Synced(player, c), e) /\ UNCHANGED <<now, loading>>
  BY DEF Shoot
<1> HIDE DEF e
<1> QED BY <1>1, <1>2, <1>3, StampedKeeps

LEMMA ExplodeKeeps ==
  ASSUME EInv, NEW id \in Stamps, NEW c \in Stamps, Explode(id, c)
  PROVE  EInv'
<1> DEFINE e == Explosion(id, EventMillis(player, c))
<1>1. e \in Events
  <2>1. EventMillis(player, c) \in Times
    <3>1. PICK r : r = Synced(player, c)
      OBVIOUS
    <3> QED BY <3>1, EInvIs, SyncedKeeps
  <2> QED BY <2>1, EventsAre
<1>2. e.kind = "explode" /\ e.kind # "suicide" /\ e.kind # "shot" /\ e.millis = EventMillis(player, c)
  BY DEF Explosion
<1>3. Stamp(c) /\ player' = AddEvent(Synced(player, c), e) /\ UNCHANGED <<now, loading>>
  BY DEF Explode
<1> HIDE DEF e
<1> QED BY <1>1, <1>2, <1>3, StampedKeeps

LEMMA SendSuicideKeeps ==
  ASSUME EInv, SendSuicide
  PROVE  EInv'
<1> DEFINE e == Suicide(player.life)
<1>1. PICK q : q = AddEvent(player, e)
  OBVIOUS
<1>2. player' = q /\ now' = now /\ loading' = loading /\ clock' = clock
  BY <1>1 DEF SendSuicide
<1>3. e \in Events /\ e.kind = "suicide" /\ e.life = player.life
  BY EInvIs, PlayerIs, EventsAre DEF PlayerOK, Suicide
<1> HIDE DEF e
<1>4. /\ PlayerOK(q) /\ q.due = player.due /\ q.life = player.life
      /\ q.gameoffset = player.gameoffset /\ q.armed = player.armed
      /\ (Waited(player) <=> Waited(q))
      /\ \A i \in DOMAIN q.events :
           q.events[i] = e \/ \E k \in DOMAIN player.events : q.events[i] = player.events[k]
  BY <1>1, <1>3, EInvIs, AddEventKeeps
<1>5. OfThisLife(q)
  BY <1>3, <1>4, EInvIs DEF OfThisLife
<1>6. ClockOK'
  BY <1>2, <1>4, EInvIs DEF ClockOK
<1> QED BY <1>2, <1>4, <1>5, <1>6, EInvIs, EInvNextIs

LEMMA TrySpawnKeeps ==
  ASSUME EInv, TrySpawn
  PROVE  EInv'
<1> DEFINE d == player.lastdeath + DEATHMILLIS
           a == FlushEvents(player, d, now)
           b == IF player.lastdeath # 0 THEN Respawned(a) ELSE player
           r == ClearTimedEvents(b)
           q == WithSpawn(r, now)
<1>1. player' = q /\ now' = now /\ loading' = loading /\ clock' = clock
  BY DEF TrySpawn, TrySpawned
<1>2. player.life < MaxLives /\ loading = FALSE
  BY EInvIs DEF TrySpawn
<1>3. d \in Int /\ now \in Int /\ now \in 0 .. MaxTime
  BY EInvIs, PlayerIs, Constants DEF PlayerOK
<1> HIDE DEF d
<1>4. PlayerOK(a) /\ a.life = player.life
  BY <1>3, EInvIs, FlushEventsKeeps
<1> HIDE DEF a
<1>5. PlayerOK(b) /\ b.life = player.life
  <2>1. CASE player.lastdeath # 0
    BY <1>4, <2>1, RespawnedKeeps
  <2>2. CASE player.lastdeath = 0
    BY <2>2, EInvIs
  <2> QED BY <2>1, <2>2
<1> HIDE DEF b
<1>6. /\ r \in Players /\ AirOK(r) /\ r.life = b.life /\ r.gameoffset = Unsynced
      /\ \A i \in DOMAIN r.events : r.events[i].kind = "explode"
  BY <1>5, ClearTimedEventsKeeps
<1> HIDE DEF r
<1>7. /\ PlayerOK(q) /\ q.due = now /\ q.life = r.life + 1 /\ q.events = r.events
      /\ q.gameoffset = r.gameoffset
  BY <1>2, <1>3, <1>5, <1>6, WithSpawnKeeps
<1> HIDE DEF q
<1>8. OfThisLife(q)
  BY <1>6, <1>7 DEF OfThisLife
<1>9. ClockOK'
  BY <1>1, <1>2, <1>3, <1>6, <1>7 DEF ClockOK
<1>10. q.due <= now + Delay["rocket"]
  BY <1>3, <1>7, Constants DEF Guns
<1> QED BY <1>1, <1>7, <1>8, <1>9, <1>10, EInvIs, EInvNextIs

\* What an action leaves of the player that the invariant is about
Like(p, q) ==
  /\ q \in Players /\ q.armed = p.armed /\ q.due = p.due /\ q.lastshot = p.lastshot
  /\ q.gunwait = p.gunwait /\ q.events = p.events /\ q.rockets = p.rockets /\ q.air = p.air
  /\ q.life = p.life /\ q.gameoffset = p.gameoffset

LEMMA LikeKeeps ==
  ASSUME NEW p, PlayerOK(p), NEW q, Like(p, q)
  PROVE  PlayerOK(q) /\ (OfThisLife(p) => OfThisLife(q)) /\ (Waited(p) <=> Waited(q))
<1>1. AirOK(q) /\ (ShotsAreLater(p) => ShotsAreLater(q))
  BY DEF Like, PlayerOK, AirOK, ShotsAreLater
<1> QED BY <1>1 DEF Like, PlayerOK, Waited, OfThisLife

\* An action that leaves the player so, or unarmed
LEMMA UnarmedOrLikeKeeps ==
  ASSUME EInv, UNCHANGED <<now, clock, loading>>, NEW q, player' = q,
         \/ Like(player, q)
         \/ /\ PlayerOK(q) /\ q.armed = FALSE /\ q.events = player.events
            /\ q.life = player.life /\ q.due = player.due
  PROVE  EInv'
<1>1. CASE Like(player, q)
  <2>1. PlayerOK(q) /\ OfThisLife(q) /\ (Waited(player) <=> Waited(q))
    BY <1>1, EInvIs, LikeKeeps
  <2>2. ClockOK'
    BY <1>1, <2>1, EInvIs DEF ClockOK, Like
  <2> QED BY <1>1, <2>1, <2>2, EInvIs, EInvNextIs DEF Like
<1>2. CASE /\ PlayerOK(q) /\ q.armed = FALSE /\ q.events = player.events
           /\ q.life = player.life /\ q.due = player.due
  <2>1. OfThisLife(q)
    BY <1>2, EInvIs DEF OfThisLife
  <2>2. ClockOK'
    BY <1>2 DEF ClockOK
  <2> QED BY <1>2, <2>1, <2>2, EInvIs, EInvNextIs
<1> QED BY <1>1, <1>2

LEMMA SpawnKeeps ==
  ASSUME EInv, Spawn
  PROVE  EInv'
<1>1. player \in Players
  BY EInvIs DEF PlayerOK
<1>2. PICK q : q = [player EXCEPT !.expected = FALSE, !.state = "alive"]
  OBVIOUS
<1>3. Like(player, q)
  BY <1>1, <1>2, PlayersAre DEF Like, States
<1> QED BY <1>2, <1>3, UnarmedOrLikeKeeps DEF Spawn

LEMMA KillKeeps ==
  ASSUME EInv, Kill
  PROVE  EInv'
<1>1. player \in Players /\ now \in 0 .. MaxTime
  BY EInvIs DEF PlayerOK
<1>2. PICK q : q = [player EXCEPT !.state = "dead", !.lastdeath = now]
  OBVIOUS
<1>3. Like(player, q)
  BY <1>1, <1>2, PlayersAre DEF Like, States
<1> QED BY <1>2, <1>3, UnarmedOrLikeKeeps DEF Kill

LEMMA SpectateKeeps ==
  ASSUME EInv, Spectate
  PROVE  EInv'
<1>1. PICK r : r = Suicided(player)
  OBVIOUS
<1>2. PICK q : q = [r EXCEPT !.state = "spectator"]
  OBVIOUS
<1>3. /\ PlayerOK(r) /\ (r.armed => r = player) /\ r.events = player.events
      /\ r.life = player.life /\ r.due = player.due
  BY <1>1, EInvIs, SuicidedKeeps
<1>4. Like(r, q)
  BY <1>2, <1>3, PlayersAre DEF Like, States, PlayerOK
<1>5. player' = q /\ UNCHANGED <<now, clock, loading>>
  BY <1>1, <1>2 DEF Spectate
<1>6. CASE r = player
  BY <1>4, <1>5, <1>6, UnarmedOrLikeKeeps
<1>7. CASE r # player
  <2>1. r.armed = FALSE
    BY <1>3, <1>7, PlayerIs DEF PlayerOK
  <2>2. PlayerOK(q)
    BY <1>3, <1>4, LikeKeeps
  <2> QED BY <1>3, <1>4, <1>5, <2>1, <2>2, UnarmedOrLikeKeeps DEF Like
<1> QED BY <1>6, <1>7

LEMMA UnspectateKeeps ==
  ASSUME EInv, Unspectate
  PROVE  EInv'
<1>1. PICK r : r = [player EXCEPT !.state = "dead"]
  OBVIOUS
<1>2. PICK q : q = Respawned(r)
  OBVIOUS
<1>3. Like(player, r)
  BY <1>1, EInvIs, PlayersAre DEF Like, States, PlayerOK
<1>4. PlayerOK(r)
  BY <1>3, EInvIs, LikeKeeps
<1>5. /\ PlayerOK(q) /\ q.armed = FALSE /\ q.events = r.events
      /\ q.life = r.life /\ q.due = r.due
  BY <1>2, <1>4, RespawnedKeeps
<1>6. player' = q /\ UNCHANGED <<now, clock, loading>>
  BY <1>1, <1>2 DEF Unspectate
<1> QED BY <1>3, <1>5, <1>6, UnarmedOrLikeKeeps DEF Like

LEMMA MapChangeKeeps ==
  ASSUME EInv, MapChange
  PROVE  EInv'
<1> DEFINE r == MapChanged(player)
           A == [id \in Stamps |-> 0]
           d == Respawned(player)
<1>1. player \in Players /\ PlayerOK(player) /\ clock \in Stamps
  BY EInvIs DEF PlayerOK
<1>2. PlayerOK(d) /\ d.armed = FALSE /\ d.lastshot = 0 /\ d.gunwait = 0
  <2>1. d.lastshot = 0 /\ d.gunwait = 0
    BY <1>1, PlayersAre DEF Respawned
  <2> HIDE DEF d
  <2>2. d = Respawned(player)
    BY DEF d
  <2> QED BY <1>1, <2>1, <2>2, RespawnedKeeps
<1>3. /\ <<>> \in Queues /\ <<>> \in RocketLists /\ A \in [Stamps -> Int]
      /\ 0 \in 0 .. MaxLives /\ 0 \in 0 .. MaxTime /\ Unsynced \in -MaxStamp .. Unsynced
      /\ 0 < MaxLives
  BY Constants DEF Queues, RocketLists, Unsynced
<1>4. r = [d EXCEPT !.state = IF d.state = "spectator" THEN d.state ELSE "dead",
             !.rockets = <<>>, !.events = <<>>, !.gameoffset = Unsynced, !.lastevent = 0,
             !.life = 0, !.air = A, !.due = 0]
  BY DEF MapChanged
<1>5. d \in Players
  BY <1>2 DEF PlayerOK
<1>6. /\ now' = 0 /\ player' = (IF r.state = "spectator" THEN r ELSE WithSpawn(r, 0))
      /\ loading' = TRUE /\ clock' = clock
  BY DEF MapChange
<1> HIDE DEF d, r, A
<1>7. /\ r \in Players /\ r.armed = FALSE /\ r.lastshot = 0 /\ r.gunwait = 0 /\ r.events = <<>>
      /\ r.rockets = <<>> /\ r.air = A /\ r.life = 0 /\ r.due = 0 /\ r.gameoffset = Unsynced
  BY <1>2, <1>3, <1>4, <1>5, PlayersAre DEF States
<1>8. AirOK(r)
  <2> SUFFICES ASSUME NEW id \in Stamps PROVE Cardinality(Copies(r.rockets, id)) <= r.air[id]
    BY DEF AirOK
  <2>1. Copies(<<>>, id) = {}
    BY DEF Copies
  <2>2. A[id] = 0
    BY DEF A
  <2>3. Cardinality(Copies(r.rockets, id)) = 0 /\ r.air[id] = 0
    BY <1>7, <2>1, <2>2, FS_EmptySet, Zenon
  <2> QED BY <2>3
<1>9. DOMAIN r.events = {}
  BY <1>7
<1>10. CASE r.state = "spectator"
  <2>1. player' = r
    BY <1>6, <1>10
  <2>2. PlayerOK(r) /\ OfThisLife(r)
    BY <1>7, <1>8, <1>9 DEF PlayerOK, OfThisLife
  <2>3. ClockOK'
    BY <1>7, <2>1 DEF ClockOK
  <2>4. r.due <= now' + Delay["rocket"]
    BY <1>6, <1>7, Constants DEF Guns
  <2> QED BY <1>1, <1>3, <1>6, <2>1, <2>2, <2>3, <2>4, EInvNextIs
<1>11. CASE r.state # "spectator"
  <2>1. PICK q : q = WithSpawn(r, 0)
    OBVIOUS
  <2>2. player' = q
    BY <1>6, <1>11, <2>1
  <2>3. /\ PlayerOK(q) /\ q.due = 0 /\ q.life = 1 /\ q.events = r.events
        /\ q.gameoffset = Unsynced /\ q.lastshot = 0 /\ q.gunwait = 0
    BY <1>3, <1>7, <1>8, <1>9, <2>1, WithSpawnKeeps
  <2>4. OfThisLife(q)
    BY <1>9, <2>3 DEF OfThisLife
  <2>5. ClockOK'
    BY <2>2, <2>3 DEF ClockOK, Waited
  <2>6. q.due <= now' + Delay["rocket"]
    BY <1>6, <2>3, Constants DEF Guns
  <2> QED BY <1>1, <1>3, <1>6, <2>2, <2>3, <2>4, <2>5, <2>6, EInvNextIs
<1> QED BY <1>10, <1>11

LEMMA LoadKeeps ==
  ASSUME EInv, Load
  PROVE  EInv'
<1>1. PICK q : q = player
  OBVIOUS
<1>2. player' = q /\ now' = now /\ loading' = FALSE /\ clock' = 0 /\ loading = TRUE
  BY <1>1, EInvIs DEF Load
<1>3. 0 \in Stamps
  BY Constants DEF Stamps
<1>4. player.armed => Waited(player)
  BY <1>2, EInvIs DEF ClockOK
<1>5. ClockOK'
  BY <1>1, <1>2, <1>4 DEF ClockOK
<1> QED BY <1>1, <1>2, <1>3, <1>5, EInvIs, EInvNextIs

LEMMA FrameKeeps ==
  ASSUME EInv, NEW curtime \in {0, 1}, Frame(curtime)
  PROVE  EInv'
<1>1. PICK n : n = now + curtime
  OBVIOUS
<1>2. /\ now \in 0 .. MaxTime /\ now \in Int /\ n \in 0 .. MaxTime /\ n \in Int /\ now <= n
      /\ clock \in Stamps /\ loading \in BOOLEAN /\ PlayerOK(player)
  BY <1>1, EInvIs, Constants DEF Frame
<1>3. player.due \in Int /\ Delay["rocket"] \in Int
  <2>1. player.due \in Nat
    BY <1>2, PlayerIs DEF PlayerOK
  <2> QED BY <2>1, Constants DEF Guns
<1>4. player.due <= n + Delay["rocket"]
  BY <1>2, <1>3, EInvIs
<1>5. now' = n /\ clock' = clock /\ loading' = loading
  BY <1>1 DEF Frame
<1>6. CASE n < GameLimit
  <2>1. PICK q : q = FlushEvents(player, n, n)
    OBVIOUS
  <2>2. player' = q
    BY <1>1, <1>6, <2>1 DEF Frame
  <2>3. /\ PlayerOK(q) /\ q.life = player.life /\ q.gameoffset = player.gameoffset
        /\ Fewer(q, player) /\ WaitsOn(player, q)
        /\ q.due <= n + Delay["rocket"]
    BY <1>2, <1>4, <2>1, FlushEventsKeeps
  <2>4. OfThisLife(q)
    BY <2>3, EInvIs DEF OfThisLife, Fewer
  <2>5. q.armed /\ ~Waited(q) => player.armed /\ ~Waited(player) /\ q.due = player.due
    BY <2>3 DEF WaitsOn
  <2>6. q.armed => \/ Waited(q)
                   \/ /\ q.due <= n /\ ~loading
                      /\ q.gameoffset # Unsynced => q.gameoffset + clock >= q.due
    BY <1>2, <1>3, <2>3, <2>5, EInvIs DEF ClockOK
  <2>7. ClockOK'
    BY <1>5, <2>2, <2>6 DEF ClockOK
  <2> QED BY <1>2, <1>5, <2>2, <2>3, <2>4, <2>7, EInvNextIs
<1>7. CASE ~(n < GameLimit)
  <2>1. PICK q : q = player
    OBVIOUS
  <2>2. player' = q
    BY <1>1, <1>7, <2>1 DEF Frame
  <2>3. ClockOK'
    BY <1>2, <1>3, <1>5, <2>1, <2>2, EInvIs DEF ClockOK
  <2> QED BY <1>2, <1>4, <1>5, <2>1, <2>2, <2>3, EInvIs, EInvNextIs
<1> QED BY <1>6, <1>7

-----------------------------------------------------------------------------
(* The theorems.                                                           *)

LEMMA EInvInit == Init => EInv
<1> SUFFICES ASSUME Init PROVE EInv
  OBVIOUS
<1>1. /\ <<>> \in Queues /\ <<>> \in RocketLists /\ [id \in Stamps |-> 0] \in [Stamps -> Int]
      /\ 0 \in 0 .. MaxLives /\ 0 \in 0 .. MaxTime /\ Unsynced \in -MaxStamp .. Unsynced
      /\ 0 < MaxLives /\ 0 \in Stamps
  BY Constants DEF Queues, RocketLists, Unsynced, Stamps
<1> DEFINE A == [id \in Stamps |-> 0]
<1>2. \A id \in Stamps : A[id] = 0
  OBVIOUS
<1>3. A \in [Stamps -> Int]
  BY <1>1
<1>4. PICK r : r = Fresh
  OBVIOUS
<1>5. r = [state |-> "dead", lastdeath |-> 0, expected |-> FALSE,
           life |-> 0, events |-> <<>>, gameoffset |-> Unsynced,
           lastevent |-> 0, lastshot |-> 0, gunwait |-> 0, armed |-> FALSE,
           rockets |-> <<>>, air |-> A, due |-> 0]
  BY <1>4 DEF Fresh
<1> HIDE DEF A
<1>6. /\ r \in Players /\ r.lastshot = 0 /\ r.gunwait = 0 /\ r.events = <<>>
      /\ r.rockets = <<>> /\ r.air = A /\ r.life = 0 /\ r.gameoffset = Unsynced
  BY <1>1, <1>3, <1>5, PlayersAre DEF States
<1>7. AirOK(r)
  <2> SUFFICES ASSUME NEW id \in Stamps PROVE Cardinality(Copies(r.rockets, id)) <= r.air[id]
    BY DEF AirOK
  <2>1. Copies(<<>>, id) = {}
    BY DEF Copies
  <2>2. Cardinality(Copies(r.rockets, id)) = 0 /\ r.air[id] = 0
    BY <1>2, <1>6, <2>1, FS_EmptySet, Zenon
  <2> QED BY <2>2
<1>8. DOMAIN r.events = {}
  BY <1>6
<1>9. now = 0 /\ player = WithSpawn(r, 0) /\ clock = 0 /\ loading = FALSE
  BY <1>4 DEF Init
<1>10. /\ PlayerOK(player) /\ player.due = 0 /\ player.life = 1 /\ player.events = r.events
       /\ player.lastshot = 0 /\ player.gunwait = 0
  BY <1>1, <1>6, <1>7, <1>8, <1>9, WithSpawnKeeps
<1>11. OfThisLife(player)
  BY <1>8, <1>10 DEF OfThisLife
<1>12. ClockOK
  BY <1>10 DEF ClockOK, Waited
<1>13. player.due <= now + Delay["rocket"]
  BY <1>9, <1>10, Constants DEF Guns
<1> QED BY <1>1, <1>9, <1>10, <1>11, <1>12, <1>13, EInvIs

LEMMA EInvNext == EInv /\ [Next]_vars => EInv'
<1> SUFFICES ASSUME EInv, [Next]_vars PROVE EInv'
  OBVIOUS
<1>1. CASE \E c \in Stamps, g \in Guns : Shoot(g, c)
  BY <1>1, ShootKeeps
<1>2. CASE \E c \in Stamps, id \in Stamps : Explode(id, c)
  BY <1>2, ExplodeKeeps
<1>3. CASE \E curtime \in {0, 1} : Frame(curtime)
  BY <1>3, FrameKeeps
<1>4. CASE UNCHANGED vars
  <2>1. UNCHANGED <<now, player, clock, loading>>
    BY <1>4 DEF vars
  <2>2. PICK q : q = player
    OBVIOUS
  <2>3. ClockOK'
    BY <2>1, EInvIs DEF ClockOK
  <2> QED BY <2>1, <2>2, <2>3, EInvIs, EInvNextIs
<1> QED BY <1>1, <1>2, <1>3, <1>4, SendSuicideKeeps, TrySpawnKeeps, SpawnKeeps, KillKeeps,
           SpectateKeeps, UnspectateKeeps, MapChangeKeeps, LoadKeeps DEF Next

LEMMA EInvAlways == Spec => []EInv
<1>1. Spec => Init /\ [][Next]_vars
  BY DEF Spec
<1> QED BY <1>1, EInvInit, EInvNext, PTL

\* What waits in the queue belongs to the life the server has the player in:
\* neither dying, nor spectating, nor a new map leaves a shot or a suicide of
\* an earlier life that processes in the next one.
THEOREM ShotsDieWithTheLife == Spec => []QueueOfThisLife
<1>1. EInv => QueueOfThisLife
  BY DEF EInv
<1> QED BY <1>1, EInvAlways, PTL

\* A life launches no more rockets than the delay of the launcher allows, even
\* though the clock that times the shots is brought back to the server's
\* whenever the queue is empty and the player may fire again.
THEOREM LauncherKeepsItsRate == Spec => []RateOfFire
<1>1. EInv => RateOfFire
  BY DEF EInv
<1> QED BY <1>1, EInvAlways, PTL

\* Every explosion that is processed is that of a rocket that was launched on
\* this map and had not exploded, for all lengths of the projectile list, which
\* forgets what it holds when it is full.
THEOREM RocketsBlowUpOnce == Spec => []OneBlastPerRocket
<1>1. EInv => OneBlastPerRocket
  <2> SUFFICES ASSUME EInv, NEW id \in Stamps PROVE player.air[id] >= 0
    BY DEF OneBlastPerRocket
  <2>1. /\ player.rockets \in RocketLists /\ player.air[id] \in Int
        /\ Cardinality(Copies(player.rockets, id)) <= player.air[id]
    <3>1. PlayerOK(player)
      BY EInvIs
    <3>2. player \in Players /\ AirOK(player)
      BY <3>1 DEF PlayerOK
    <3>3. player.rockets \in RocketLists /\ player.air \in [Stamps -> Int]
      BY <3>2, PlayerIs
    <3> QED BY <3>2, <3>3 DEF AirOK
  <2>2. Cardinality(Copies(player.rockets, id)) \in Nat
    BY <2>1, CopiesAre
  <2> QED BY <2>1, <2>2
<1> QED BY <1>1, EInvAlways, PTL
=============================================================================
