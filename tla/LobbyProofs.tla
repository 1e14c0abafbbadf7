----------------------------- MODULE LobbyProofs -----------------------------
(***************************************************************************)
(* Proofs about MCLobby: what autoteam() and balanceteams() leave of the   *)
(* teams, and what the loops of removeai() and reassignai() leave of the   *)
(* bots, for all players, bots, names of teams and ranks.                  *)
(***************************************************************************)
EXTENDS MCLobby, Sequences, FiniteSetTheorems, FunctionTheorems, WellFoundedInduction, TLAPS

Defaults == Sides!Defaults
Names == Sides!Names

-----------------------------------------------------------------------------
(* Induction, over numbers and over finite sets, with sets for predicates. *)

LEMMA LeastNatural ==
  ASSUME NEW T, T \subseteq Nat, T # {}
  PROVE  \E x \in T : \A y \in T : x <= y
<1> DEFINE R == OpToRel(<, Nat)
<1>1. IsWellFoundedOn(R, Nat)
  BY NatLessThanWellFounded
<1>2. \A x, y \in Nat : <<y, x>> \in R <=> y < x
  BY DEF OpToRel
<1> HIDE DEF R
<1>3. PICK x \in T : \A y \in T : ~ (<<y, x>> \in R)
  BY <1>1, WFMin
<1>4. \A y \in T : ~ (y < x)
  BY <1>2, <1>3
<1> QED BY <1>4

LEMMA InductiveSet ==
  ASSUME NEW T, 0 \in T, \A k \in Nat : k \in T => k + 1 \in T
  PROVE  Nat \subseteq T
<1> SUFFICES ASSUME Nat \ T # {} PROVE FALSE
  OBVIOUS
<1>1. PICK k \in Nat \ T : \A l \in Nat \ T : k <= l
  BY LeastNatural
<1>2. k - 1 \in Nat /\ (k - 1) + 1 = k
  BY <1>1
<1>3. k - 1 \in T
  BY <1>1, <1>2
<1> QED BY <1>2, <1>3

LEMMA SetInduction ==
  ASSUME NEW X, IsFiniteSet(X), NEW T, {} \in T,
         \A S \in SUBSET X : \A x \in X \ S : S \in T => S \cup {x} \in T
  PROVE  X \in T
<1> DEFINE N == {n \in Nat : \A S \in SUBSET X : Cardinality(S) = n => S \in T}
<1>1. 0 \in N
  <2> SUFFICES ASSUME NEW S \in SUBSET X, Cardinality(S) = 0 PROVE S \in T
    OBVIOUS
  <2>1. S = {}
    BY FS_Subset, FS_EmptySet
  <2> QED BY <2>1
<1>2. ASSUME NEW n \in Nat, n \in N PROVE n + 1 \in N
  <2> SUFFICES ASSUME NEW S \in SUBSET X, Cardinality(S) = n + 1 PROVE S \in T
    OBVIOUS
  <2>1. IsFiniteSet(S) /\ S # {}
    BY FS_Subset, FS_EmptySet
  <2>2. PICK x \in S : TRUE
    BY <2>1
  <2>3. Cardinality(S \ {x}) = n
    <3>1. Cardinality(S \ {x}) = Cardinality(S) - 1
      BY <2>1, FS_RemoveElement
    <3> QED BY <3>1
  <2>4. S \ {x} \in T
    BY <1>2, <2>3
  <2>5. x \in X \ (S \ {x}) /\ (S \ {x}) \cup {x} = S
    OBVIOUS
  <2> QED BY <2>4, <2>5
<1>3. Cardinality(X) \in N
  <2>1. Cardinality(X) \in Nat
    BY FS_CardinalityType
  <2> HIDE DEF N
  <2> QED BY <1>1, <1>2, <2>1, InductiveSet
<1> QED BY <1>3

\* A finite set has a last element in a total order R.
LEMMA LastOf ==
  ASSUME NEW S, IsFiniteSet(S), S # {}, NEW R,
         \A x, y \in S : <<x, y>> \in R \/ <<y, x>> \in R,
         \A x, y, z \in S : <<x, y>> \in R /\ <<y, z>> \in R => <<x, z>> \in R
  PROVE  \E x \in S : \A y \in S : <<y, x>> \in R
<1> DEFINE Has(Z) == Z = {} \/ \E x \in Z : \A y \in Z : <<y, x>> \in R
           T == {Z \in SUBSET S : Has(Z)}
<1>1. {} \in T
  OBVIOUS
<1>2. ASSUME NEW Z \in SUBSET S, NEW v \in S \ Z, Z \in T PROVE Z \cup {v} \in T
  <2>1. CASE Z = {}
    BY <2>1
  <2>2. CASE Z # {}
    <3>1. PICK x \in Z : \A y \in Z : <<y, x>> \in R
      BY <1>2, <2>2
    <3>2. CASE <<v, x>> \in R
      BY <3>1, <3>2
    <3>3. CASE <<x, v>> \in R
      BY <3>1, <3>3
    <3> QED BY <3>2, <3>3
  <2> QED BY <2>1, <2>2
<1>3. S \in T
  <2> HIDE DEF T
  <2> QED BY <1>1, <1>2, SetInduction
<1> QED BY <1>3

LEMMA Greatest ==
  ASSUME NEW S, IsFiniteSet(S), S # {}, NEW f, \A x \in S : f[x] \in Int
  PROVE  \E x \in S : \A y \in S : f[y] <= f[x]
<1> DEFINE R == {p \in S \X S : f[p[1]] <= f[p[2]]}
<1>1. \A x, y \in S : <<x, y>> \in R <=> f[x] <= f[y]
  OBVIOUS
<1> HIDE DEF R
<1>2. /\ \A x, y \in S : <<x, y>> \in R \/ <<y, x>> \in R
      /\ \A x, y, z \in S : <<x, y>> \in R /\ <<y, z>> \in R => <<x, z>> \in R
  BY <1>1
<1>3. \E x \in S : \A y \in S : <<y, x>> \in R
  BY <1>2, LastOf
<1> QED BY <1>1, <1>3

LEMMA FiniteImage ==
  ASSUME NEW S, IsFiniteSet(S), NEW f
  PROVE  IsFiniteSet({f[x] : x \in S})
<1> DEFINE g == [x \in S |-> f[x]]
           T == {f[x] : x \in S}
<1>1. g \in Surjection(S, T)
  BY DEF Surjection
<1> HIDE DEF g, T
<1>2. IsFiniteSet(T)
  BY <1>1, FS_Surjection
<1> QED BY <1>2 DEF T

\* A finite set can be put in order.
LEMMA Sorting ==
  ASSUME NEW S, IsFiniteSet(S), NEW R,
         \A x, y \in S : <<x, y>> \in R \/ <<y, x>> \in R,
         \A x, y, z \in S : <<x, y>> \in R /\ <<y, z>> \in R => <<x, z>> \in R
  PROVE  \E s \in [1 .. Cardinality(S) -> S] :
           \A i, j \in 1 .. Cardinality(S) : i < j => s[i] # s[j] /\ <<s[i], s[j]>> \in R
<1> DEFINE Sorted(Z, n) ==
             \E s \in [1 .. n -> Z] : \A i, j \in 1 .. n : i < j => s[i] # s[j] /\ <<s[i], s[j]>> \in R
           N == {n \in Nat : \A Z \in SUBSET S : Cardinality(Z) = n => Sorted(Z, n)}
<1>1. 0 \in N
  <2> SUFFICES ASSUME NEW Z \in SUBSET S PROVE Sorted(Z, 0)
    OBVIOUS
  <2>1. PICK s : s = [i \in 1 .. 0 |-> 0]
    OBVIOUS
  <2>2. s \in [1 .. 0 -> Z] /\ 1 .. 0 = {}
    BY <2>1
  <2> QED BY <2>2, Zenon
<1>2. ASSUME NEW n \in Nat, n \in N PROVE n + 1 \in N
  <2> SUFFICES ASSUME NEW Z \in SUBSET S, Cardinality(Z) = n + 1 PROVE Sorted(Z, n + 1)
    OBVIOUS
  <2>1. IsFiniteSet(Z) /\ Z # {}
    BY FS_Subset, FS_EmptySet
  <2>2. PICK x \in Z : \A y \in Z : <<y, x>> \in R
    BY <2>1, LastOf
  <2>3. Cardinality(Z \ {x}) = n
    <3>1. Cardinality(Z \ {x}) = Cardinality(Z) - 1
      BY <2>1, FS_RemoveElement
    <3> QED BY <3>1
  <2>4. Sorted(Z \ {x}, n)
    BY <1>2, <2>3
  <2>5. PICK s \in [1 .. n -> Z \ {x}] :
          \A i, j \in 1 .. n : i < j => s[i] # s[j] /\ <<s[i], s[j]>> \in R
    BY <2>4
  <2> DEFINE r == [i \in 1 .. n + 1 |-> IF i = n + 1 THEN x ELSE s[i]]
  <2>6. r \in [1 .. n + 1 -> Z]
    OBVIOUS
  <2>7. ASSUME NEW i \in 1 .. n + 1, NEW j \in 1 .. n + 1, i < j
        PROVE  r[i] # r[j] /\ <<r[i], r[j]>> \in R
    <3>1. i \in 1 .. n /\ r[i] = s[i] /\ s[i] \in Z \ {x}
      BY <2>7
    <3>2. CASE j = n + 1
      <4>1. r[j] = x
        BY <3>2
      <4> HIDE DEF r
      <4> QED BY <2>2, <3>1, <4>1
    <3>3. CASE j # n + 1
      <4>1. j \in 1 .. n /\ r[j] = s[j]
        BY <3>3
      <4> HIDE DEF r
      <4> QED BY <2>5, <2>7, <3>1, <4>1
    <3> QED BY <3>2, <3>3
  <2> HIDE DEF r
  <2> QED BY <2>6, <2>7
<1>3. Cardinality(S) \in N
  <2>1. Cardinality(S) \in Nat
    BY FS_CardinalityType
  <2> HIDE DEF N
  <2> QED BY <1>1, <1>2, <2>1, InductiveSet
<1> HIDE DEF Sorted
<1>4. Sorted(S, Cardinality(S))
  BY <1>3
<1> QED BY <1>4 DEF Sorted

\* g sums f over the sets in D, taking the key First(s) of a set s first.
First(s) == CHOOSE x \in s : TRUE
SumsUp(f, g, D) == g = [s \in D |-> IF s = {} THEN 0 ELSE f[First(s)] + g[s \ {First(s)}]]

LEMMA SumIs ==
  ASSUME NEW f
  PROVE  Sides!SumFunction(f) = (CHOOSE g : SumsUp(f, g, SUBSET DOMAIN f))[DOMAIN f]
BY Zenon DEF Sides!SumFunction, Sides!SumFunctionOnSet, Sides!FoldFunctionOnSet, Sides!MapThenFoldSet,
   SumsUp, First

LEMMA SumExists ==
  ASSUME NEW S, IsFiniteSet(S), NEW f
  PROVE  \E g : SumsUp(f, g, SUBSET S)
<1> DEFINE Upto(n) == {s \in SUBSET S : Cardinality(s) <= n}
           T == {n \in Nat : \E g : SumsUp(f, g, Upto(n))}
<1>1. \A s \in SUBSET S : IsFiniteSet(s) /\ Cardinality(s) \in Nat /\ (Cardinality(s) = 0 <=> s = {})
  BY FS_Subset, FS_CardinalityType, FS_EmptySet
<1>2. \A s \in SUBSET S : s # {} =>
        First(s) \in s /\ s \ {First(s)} \in SUBSET S
        /\ Cardinality(s \ {First(s)}) = Cardinality(s) - 1
  <2> SUFFICES ASSUME NEW s \in SUBSET S, s # {}
               PROVE  First(s) \in s /\ s \ {First(s)} \in SUBSET S
                      /\ Cardinality(s \ {First(s)}) = Cardinality(s) - 1
    OBVIOUS
  <2>1. First(s) \in s
    BY DEF First
  <2> QED BY <1>1, <2>1, FS_RemoveElement
<1>3. 0 \in T
  <2> DEFINE g == [s \in Upto(0) |-> 0]
  <2>1. \A s \in Upto(0) : s = {}
    BY <1>1
  <2> HIDE DEF Upto
  <2>2. g = [s \in Upto(0) |-> IF s = {} THEN 0 ELSE f[First(s)] + g[s \ {First(s)}]]
    BY <2>1
  <2> QED BY <2>2 DEF SumsUp
<1>4. ASSUME NEW n \in Nat, n \in T PROVE n + 1 \in T
  <2>1. PICK g : SumsUp(f, g, Upto(n))
    BY <1>4
  <2> DEFINE h == [s \in Upto(n + 1) |-> IF s = {} THEN 0 ELSE f[First(s)] + g[s \ {First(s)}]]
  <2>2. ASSUME NEW s \in Upto(n + 1), s # {}
        PROVE  g[s \ {First(s)}] = h[s \ {First(s)}]
    <3> DEFINE r == s \ {First(s)}
    <3>1. r \in Upto(n) /\ r \in Upto(n + 1)
      BY <1>1, <1>2, <2>2
    <3> HIDE DEF r, Upto
    <3>2. g[r] = IF r = {} THEN 0 ELSE f[First(r)] + g[r \ {First(r)}]
      BY <2>1, <3>1 DEF SumsUp
    <3> QED BY <3>1, <3>2 DEF r
  <2>3. h = [s \in Upto(n + 1) |-> IF s = {} THEN 0 ELSE f[First(s)] + h[s \ {First(s)}]]
    <3> HIDE DEF Upto
    <3> QED BY <2>2
  <2>4. SumsUp(f, h, Upto(n + 1))
    <3> HIDE DEF h
    <3> QED BY <2>3 DEF SumsUp
  <2> QED BY SMTT(30), <2>4
<1>5. Cardinality(S) \in T
  <2>1. Cardinality(S) \in Nat
    BY FS_CardinalityType
  <2> HIDE DEF T
  <2> QED BY <1>3, <1>4, <2>1, InductiveSet
<1>6. Upto(Cardinality(S)) = SUBSET S
  <2>1. \A s \in SUBSET S : Cardinality(s) <= Cardinality(S)
    BY FS_Subset
  <2> QED BY <2>1
<1> QED BY <1>5, <1>6

\* A sum of naturals is no less than any of them.
LEMMA SumBounds ==
  ASSUME NEW S, IsFiniteSet(S), NEW f \in [S -> Nat]
  PROVE  Sides!SumFunction(f) \in Nat /\ \A x \in S : f[x] <= Sides!SumFunction(f)
<1> DEFINE g == CHOOSE h : SumsUp(f, h, SUBSET S)
<1>1. SumsUp(f, g, SUBSET S)
  BY SumExists
<1>2. Sides!SumFunction(f) = g[S]
  BY SumIs
<1> HIDE DEF g
<1> DEFINE N == {n \in Nat : \A s \in SUBSET S : Cardinality(s) = n =>
                              g[s] \in Nat /\ \A x \in s : f[x] <= g[s]}
<1>3. \A s \in SUBSET S : g[s] = IF s = {} THEN 0 ELSE f[First(s)] + g[s \ {First(s)}]
  BY <1>1 DEF SumsUp
<1>4. 0 \in N
  <2> SUFFICES ASSUME NEW s \in SUBSET S, Cardinality(s) = 0
               PROVE  g[s] \in Nat /\ \A x \in s : f[x] <= g[s]
    OBVIOUS
  <2>1. s = {}
    BY FS_Subset, FS_EmptySet
  <2> QED BY <1>3, <2>1
<1>5. ASSUME NEW n \in Nat, n \in N PROVE n + 1 \in N
  <2> SUFFICES ASSUME NEW s \in SUBSET S, Cardinality(s) = n + 1
               PROVE  g[s] \in Nat /\ \A x \in s : f[x] <= g[s]
    OBVIOUS
  <2>1. IsFiniteSet(s) /\ s # {}
    BY FS_Subset, FS_EmptySet
  <2>2. PICK y : y = First(s) /\ y \in s
    BY <2>1 DEF First
  <2>3. Cardinality(s \ {y}) = n
    <3>1. Cardinality(s \ {y}) = Cardinality(s) - 1
      BY <2>1, <2>2, FS_RemoveElement
    <3> QED BY <3>1
  <2>4. g[s \ {y}] \in Nat /\ \A x \in s \ {y} : f[x] <= g[s \ {y}]
    BY <1>5, <2>3
  <2>5. g[s] = f[y] + g[s \ {y}] /\ \A x \in s : f[x] \in Nat
    BY <1>3, <2>1, <2>2
  <2> QED BY <2>2, <2>4, <2>5
<1>6. Cardinality(S) \in N
  <2>1. Cardinality(S) \in Nat
    BY FS_CardinalityType
  <2> HIDE DEF N
  <2> QED BY <1>4, <1>5, <2>1, InductiveSet
<1> QED BY <1>2, <1>6

-----------------------------------------------------------------------------
(* autoteam().                                                             *)

Puts(C) == UNION {[D -> Defaults] : D \in SUBSET C}

\* The calls of autoteam() for the clients C
AutoCalls(C) ==
  {k \in [fun: {"autoteam"}, hides: BOOLEAN, rank: [C -> Int], left: SUBSET C, first: Defaults,
          selected: BOOLEAN, sum: [Defaults -> Nat], put: Puts(C)] :
     DOMAIN k.put = C \ k.left}

\* The active A rank before the spectators.
RanksOK(k, C, A) == \A c \in C : IF c \in A THEN k.rank[c] >= -1 ELSE k.rank[c] = -2

In(k, A, t) == {c \in DOMAIN k.put \cap A : k.put[c] = t}
Playing(k, A, t) == Cardinality(In(k, A, t))

\* Where frags are hidden the teams take turns, and the active come first.
HiddenOK(k, A) ==
  /\ \A t \in Defaults : /\ k.sum[t] <= k.sum[Sides!Other(t)] + 1
                         /\ Playing(k, A, t) <= Playing(k, A, Sides!Other(t)) + 1
  /\ \/ DOMAIN k.put \subseteq A /\ \A t \in Defaults : k.sum[t] = Playing(k, A, t)
     \/ k.left \cap A = {}
  /\ k.left = {} \/ k.selected \/ k.sum[k.first] <= k.sum[Sides!Other(k.first)]

\* Elsewhere a team is at most one player's rank ahead.
RankedOK(k, C) ==
  /\ \A t \in Defaults : \/ k.sum[t] <= k.sum[Sides!Other(t)]
                         \/ \E c \in C : k.sum[t] <= k.sum[Sides!Other(t)] + k.rank[c]
  /\ k.selected \/ k.sum[k.first] <= k.sum[Sides!Other(k.first)]
                \/ \A c \in k.left : k.rank[c] <= 0

AutoOK ==
  call.fun = "autoteam" =>
    /\ call \in AutoCalls(Sides!clients)
    /\ RanksOK(call, Sides!clients, Sides!Active)
    /\ call.hides => HiddenOK(call, Sides!Active)
    /\ ~call.hides => RankedOK(call, Sides!clients)

-----------------------------------------------------------------------------
(* balanceteams().                                                         *)

Places == [team: Names, score: Nat]

BalanceCalls ==
  [fun: {"balanceteams"}, teams: Seq(Places), left: [Names -> Nat],
   says: [Names -> Names], ofbots: SUBSET Names,
   before: UNION {[D -> Nat] : D \in SUBSET Names}]

\* A number between those of the members before
AtMost(k, v) == \E t \in DOMAIN k.before : v <= k.before[t]
AtLeast(k, v) == \E t \in DOMAIN k.before : v >= k.before[t]

\* The list behind its head is sorted, and its head is no less than its last.
ListOK(s, K) ==
  /\ \A i \in DOMAIN s : s[i].team \in K
  /\ \A i, j \in DOMAIN s : s[i].team = s[j].team => i = j
  /\ \A i, j \in DOMAIN s : 2 <= i /\ i < j => s[i].score >= s[j].score
  /\ s # <<>> => s[1].score >= s[Len(s)].score

\* The members m of a place are those of its score; but the last may have got
\* a bot for a point that went to one who was the last before.
PlaceOK(k, m) ==
  \A i \in DOMAIN k.teams :
    LET v == k.teams[i].score
        t == k.teams[i].team IN
    /\ AtMost(k, v) /\ AtLeast(k, v)
    /\ \/ m[t] = v
       \/ i # Len(k.teams) /\ m[t] = v - 1 /\ AtLeast(k, v - 1)
       \/ i = Len(k.teams) /\ m[t] = v + 1 /\ AtMost(k, v + 1)

\* Of two teams h is the larger, which gives, and l the other, which takes.
Leads(k, m, h, l) ==
  /\ DOMAIN k.before = {h, l} /\ h # l
  /\ m[l] <= m[h] /\ k.before[l] <= k.before[h]
  /\ m[h] <= k.before[h] /\ m[h] + m[l] = k.before[h] + k.before[l]

TwoOK(k, m, b) ==
  \E h, l \in DOMAIN k.before :
    /\ Leads(k, m, h, l)
    /\ b[h] = k.left[h]
    /\ \/ k.teams = <<[team |-> h, score |-> m[h]], [team |-> l, score |-> m[l]]>>
       \/ Len(k.teams) = 1 /\ b[h] = 0

\* While no place got another name; m: members of the teams, b: their bots
BalanceOK(k, m, b) ==
  /\ k \in BalanceCalls
  /\ DOMAIN k.before # {}
  /\ ListOK(k.teams, DOMAIN k.before)
  /\ PlaceOK(k, m)
  /\ \A t \in DOMAIN k.before : AtMost(k, m[t]) /\ AtLeast(k, m[t])
  /\ \A t \in Names : k.left[t] <= b[t]
  /\ Cardinality(DOMAIN k.before) = 2 => TwoOK(k, m, b)

\* Places point to a bot that was not moved only while they have their name.
ListsOK(k, b) ==
  /\ k \in BalanceCalls
  /\ DOMAIN k.before # {}
  /\ ListOK(k.teams, DOMAIN k.before)
  /\ \A t \in Names : k.left[t] <= b[t]
  /\ \A t \in k.ofbots : k.says[t] = t

\* Of two teams the first took the name of the other, to which its bots go on:
\* nobody moves any more.
BentOK(k, m) ==
  Cardinality(DOMAIN k.before) = 2 =>
    \E h, l \in DOMAIN k.before : /\ Leads(k, m, h, l) /\ m[h] < k.before[h]
                                 /\ k.says[h] = l /\ k.says[l] = l

Unbent(k) == \A t \in Names : k.says[t] = t

Membership == [t \in Names |-> Sides!Members(t)]

BalOK ==
  call.fun = "balanceteams" =>
    /\ ListsOK(call, bots)
    /\ Unbent(call) => BalanceOK(call, Membership, bots)
    /\ ~Unbent(call) => BentOK(call, Membership)

-----------------------------------------------------------------------------

PeopleOK ==
  /\ team \in [Sides!clients -> Names] /\ IsFiniteSet(Sides!clients)
  /\ watchers \subseteq Sides!clients

\* A call of balanceteams() is a record of its local variables.
AsCall(s, g, z, o, B) ==
  [fun |-> "balanceteams", teams |-> s, left |-> g, says |-> z, ofbots |-> o, before |-> B]

IsCall(e) == e = AsCall(e.teams, e.left, e.says, e.ofbots, e.before)

CallOK == call.fun = "balanceteams" => IsCall(call)

BotsOK == bots \in [Names -> Nat]

SidesInv == PeopleOK /\ AutoOK /\ CallOK /\ BotsOK /\ BalOK

-----------------------------------------------------------------------------
(* A player is picked.                                                     *)

LEMMA SameCardinality ==
  ASSUME NEW S
  PROVE  Sides!Cardinality(S) = Cardinality(S) /\ Sides!IsFiniteSet(S) = IsFiniteSet(S)
BY DEF Sides!Cardinality, Cardinality, Sides!IsFiniteSet, IsFiniteSet

LEMMA TeamsAre ==
  /\ Defaults = {1, 2} /\ Sides!Good = 2 /\ Sides!Evil = 1
  /\ \A t \in Defaults : Sides!Other(t) \in Defaults /\ Sides!Other(t) # t
                         /\ Sides!Other(Sides!Other(t)) = t
                         /\ \A u \in Defaults : u # t => u = Sides!Other(t)
BY DEF Defaults, Sides!Defaults, Sides!Good, Sides!Evil, Sides!Other

LEMMA AutoCallIs ==
  ASSUME NEW C, NEW k \in AutoCalls(C)
  PROVE  /\ k.fun = "autoteam" /\ k.hides \in BOOLEAN /\ k.rank \in [C -> Int] /\ k.left \subseteq C /\ k.first \in Defaults
         /\ k.selected \in BOOLEAN /\ k.sum \in [Defaults -> Nat] /\ k.put \in Puts(C)
         /\ DOMAIN k.put = C \ k.left
         /\ \A c \in DOMAIN k.put : k.put[c] \in Defaults
BY DEF AutoCalls, Puts

\* The call e after c was picked in the call k
PickedTo(k, e, c, w) ==
  /\ e.hides = k.hides /\ e.rank = k.rank /\ e.left = k.left \ {c} /\ e.put = Sides!With(k.put, c, k.first)
  /\ e.sum = [t \in Defaults |-> IF t = k.first /\ w > 0 THEN k.sum[t] + w ELSE k.sum[t]]
  /\ e.selected <=> w > 0
  /\ e.first = IF w > 0 THEN k.first ELSE Sides!Other(k.first)

LEMMA PickTypes ==
  ASSUME NEW C, NEW k \in AutoCalls(C), NEW c \in k.left, NEW w \in Int, NEW e,
         e = [k EXCEPT !.left = @ \ {c}, !.put = Sides!With(@, c, k.first),
                !.sum = [t \in Defaults |-> IF t = k.first /\ w > 0 THEN k.sum[t] + w ELSE k.sum[t]],
                !.selected = w > 0, !.first = IF w > 0 THEN @ ELSE Sides!Other(@)]
  PROVE  e \in AutoCalls(C) /\ PickedTo(k, e, c, w)
<1> DEFINE L == k.left \ {c}
           P == Sides!With(k.put, c, k.first)
           S == [t \in Defaults |-> IF t = k.first /\ w > 0 THEN k.sum[t] + w ELSE k.sum[t]]
           F == IF w > 0 THEN k.first ELSE Sides!Other(k.first)
<1>1. PICK b \in BOOLEAN : b <=> w > 0
  OBVIOUS
<1>2. b = (w > 0)
  BY <1>1
<1>3. e = [k EXCEPT !.left = L, !.put = P, !.sum = S, !.selected = b, !.first = F]
  BY <1>2
<1>4. /\ L \in SUBSET C /\ P \in Puts(C) /\ S \in [Defaults -> Nat] /\ F \in Defaults
      /\ DOMAIN P = C \ L
  <2>1. c \in C /\ k.put \in Puts(C) /\ k.first \in Defaults /\ k.sum \in [Defaults -> Nat]
        /\ DOMAIN k.put = C \ k.left /\ k.left \subseteq C
    BY AutoCallIs
  <2>2. P \in Puts(C) /\ DOMAIN P = DOMAIN k.put \cup {c}
    <3>1. PICK D \in SUBSET C : k.put \in [D -> Defaults]
      BY <2>1 DEF Puts
    <3>2. P = [d \in D \cup {c} |-> IF d = c THEN k.first ELSE k.put[d]]
      BY <3>1 DEF Sides!With
    <3>3. P \in [D \cup {c} -> Defaults] /\ D \cup {c} \in SUBSET C
      BY <2>1, <3>1, <3>2
    <3> HIDE DEF P
    <3> QED BY <3>1, <3>3 DEF Puts
  <2>3. S \in [Defaults -> Nat]
    <3>1. ASSUME NEW t \in Defaults
          PROVE  (IF t = k.first /\ w > 0 THEN k.sum[t] + w ELSE k.sum[t]) \in Nat
      <4>1. k.sum[t] \in Nat
        BY <2>1
      <4> QED BY <4>1
    <3> QED BY <3>1
  <2>4. F \in Defaults
    BY <2>1, TeamsAre
  <2>5. L \in SUBSET C /\ DOMAIN k.put \cup {c} = C \ L
    BY <2>1
  <2> QED BY <2>2, <2>3, <2>4, <2>5
<1> HIDE DEF L, P, S, F
<1>5. /\ e.hides = k.hides /\ e.rank = k.rank /\ e.left = L /\ e.put = P /\ e.sum = S /\ e.selected = b /\ e.first = F
      /\ e \in AutoCalls(C)
  BY <1>3, <1>4 DEF AutoCalls
<1> QED BY <1>1, <1>5 DEF PickedTo, L, P, S, F

\* How a pick changes who plays where
LEMMA PlayingAfter ==
  ASSUME NEW C, IsFiniteSet(C), NEW A, A \subseteq C, NEW k \in AutoCalls(C),
         NEW c \in k.left, NEW e, NEW w \in Int, PickedTo(k, e, c, w), NEW t \in Defaults
  PROVE  /\ Playing(k, A, t) \in Nat
         /\ Playing(e, A, t) = IF c \in A /\ t = k.first THEN Playing(k, A, t) + 1
                               ELSE Playing(k, A, t)
<1>1. /\ c \in C /\ k.put \in Puts(C) /\ k.first \in Defaults /\ DOMAIN k.put = C \ k.left
      /\ k.left \subseteq C
  BY AutoCallIs
<1> DEFINE f == k.put
           u == k.first
           g == e.put
<1>2. PICK D \in SUBSET C : f \in [D -> Defaults]
  BY <1>1 DEF Puts
<1>3. g = [d \in D \cup {c} |-> IF d = c THEN u ELSE f[d]]
  BY <1>2 DEF PickedTo, Sides!With
<1>4. /\ DOMAIN g = DOMAIN f \cup {c} /\ g[c] = u /\ \A d \in DOMAIN f : d # c => g[d] = f[d]
      /\ c \notin DOMAIN f /\ DOMAIN f \subseteq C
  BY <1>1, <1>2, <1>3
<1>5. In(k, A, t) = {d \in DOMAIN f \cap A : f[d] = t} /\ In(e, A, t) = {d \in DOMAIN g \cap A : g[d] = t}
  BY DEF In
<1> HIDE DEF f, g
<1>6. c \notin In(k, A, t) /\ In(k, A, t) \subseteq C
  BY <1>4, <1>5
<1>7. In(e, A, t) = IF c \in A /\ t = u THEN In(k, A, t) \cup {c} ELSE In(k, A, t)
  BY <1>4, <1>5
<1>8. IsFiniteSet(In(k, A, t))
  BY <1>6, FS_Subset
<1>9. Cardinality(In(k, A, t)) \in Nat
        /\ Cardinality(In(k, A, t) \cup {c}) = Cardinality(In(k, A, t)) + 1
  BY <1>6, <1>8, FS_AddElement, FS_CardinalityType
<1> QED BY <1>7, <1>9 DEF Playing

LEMMA PickHidden ==
  ASSUME NEW C, IsFiniteSet(C), NEW A, A \subseteq C, NEW k \in AutoCalls(C),
         RanksOK(k, C, A), NEW c \in k.left, \A d \in k.left : k.rank[d] <= k.rank[c],
         k.sum[k.first] <= k.sum[Sides!Other(k.first)],
         NEW e, PickedTo(k, e, c, 1), HiddenOK(k, A)
  PROVE  HiddenOK(e, A)
<1>1. /\ c \in C /\ k.rank \in [C -> Int] /\ k.first \in Defaults /\ k.sum \in [Defaults -> Nat]
      /\ k.left \subseteq C /\ DOMAIN k.put = C \ k.left /\ k.put \in Puts(C)
  BY AutoCallIs
<1> DEFINE O(t) == Sides!Other(t)
           P(t) == Playing(k, A, t)
           Q(t) == Playing(e, A, t)
<1>2. /\ e.left = k.left \ {c} /\ e.first = k.first /\ e.selected
      /\ \A t \in Defaults : e.sum[t] = IF t = k.first THEN k.sum[t] + 1 ELSE k.sum[t]
  BY <1>1 DEF PickedTo
<1>3. \A t \in Defaults :
        /\ P(t) \in Nat
        /\ Q(t) = IF c \in A /\ t = k.first THEN P(t) + 1 ELSE P(t)
  BY PlayingAfter
<1>4. DOMAIN e.put = DOMAIN k.put \cup {c}
  <2>1. PICK D \in SUBSET C : k.put \in [D -> Defaults]
    BY <1>1 DEF Puts
  <2>2. e.put = [d \in D \cup {c} |-> IF d = c THEN k.first ELSE k.put[d]]
    BY <2>1 DEF PickedTo, Sides!With
  <2> QED BY <2>1, <2>2
<1>5. c \notin A => k.left \cap A = {}
  <2> SUFFICES ASSUME c \notin A, NEW d \in k.left \cap A PROVE FALSE
    OBVIOUS
  <2>1. k.rank[c] = -2 /\ k.rank[d] >= -1 /\ k.rank[d] <= k.rank[c]
    BY <1>1 DEF RanksOK
  <2>2. k.rank[d] \in Int
    BY <1>1
  <2> QED BY <2>1, <2>2
<1>6. ASSUME c \in A
      PROVE  \A t \in Defaults : k.sum[t] = P(t)
  BY <1>6 DEF HiddenOK
<1>7. \/ DOMAIN e.put \subseteq A /\ \A t \in Defaults : e.sum[t] = Q(t)
      \/ e.left \cap A = {}
  <2>1. CASE c \notin A
    BY <1>2, <1>5, <2>1
  <2>2. CASE c \in A
    <3>1. DOMAIN k.put \subseteq A
      BY <2>2 DEF HiddenOK
    <3> HIDE DEF P, Q
    <3>2. \A t \in Defaults : e.sum[t] = Q(t)
      BY <1>2, <1>3, <1>6, <2>2
    <3> QED BY <1>4, <2>2, <3>1, <3>2
  <2> QED BY <2>1, <2>2
<1>8. ASSUME NEW t \in Defaults
      PROVE  e.sum[t] <= e.sum[O(t)] + 1 /\ Q(t) <= Q(O(t)) + 1
  <2>1. PICK u \in Defaults : u = O(t) /\ u # t /\ O(u) = t
    BY TeamsAre
  <2>2. /\ k.sum[t] \in Nat /\ k.sum[u] \in Nat /\ k.sum[t] <= k.sum[u] + 1
        /\ P(t) \in Nat /\ P(u) \in Nat /\ P(t) <= P(u) + 1
    BY <1>1, <1>3, <2>1 DEF HiddenOK
  <2>3. t = k.first => k.sum[t] <= k.sum[u]
    BY <2>1
  <2>4. c \in A => k.sum[t] = P(t) /\ k.sum[u] = P(u)
    BY <1>6
  <2>5. /\ e.sum[t] = IF t = k.first THEN k.sum[t] + 1 ELSE k.sum[t]
        /\ e.sum[u] = IF u = k.first THEN k.sum[u] + 1 ELSE k.sum[u]
        /\ Q(t) = IF c \in A /\ t = k.first THEN P(t) + 1 ELSE P(t)
        /\ Q(u) = IF c \in A /\ u = k.first THEN P(u) + 1 ELSE P(u)
    BY <1>2, <1>3
  <2> HIDE DEF P, Q, O
  <2>6. e.sum[t] <= e.sum[u] + 1 /\ Q(t) <= Q(u) + 1
    BY <2>1, <2>2, <2>3, <2>4, <2>5
  <2> QED BY <2>1, <2>6
<1> QED BY <1>2, <1>7, <1>8 DEF HiddenOK

LEMMA PickRanked ==
  ASSUME NEW C, NEW k \in AutoCalls(C), NEW c \in k.left,
         \A d \in k.left : k.rank[d] <= k.rank[c],
         k.sum[k.first] <= k.sum[Sides!Other(k.first)],
         NEW w \in Int, w = k.rank[c], NEW e, PickedTo(k, e, c, w), RankedOK(k, C)
  PROVE  RankedOK(e, C)
<1>1. /\ c \in C /\ k.rank \in [C -> Int] /\ k.first \in Defaults /\ k.sum \in [Defaults -> Nat]
      /\ k.left \subseteq C
  BY AutoCallIs
<1>2. /\ e.left = k.left \ {c} /\ e.rank = k.rank /\ (e.selected <=> w > 0)
      /\ \A t \in Defaults : e.sum[t] = IF t = k.first /\ w > 0 THEN k.sum[t] + w ELSE k.sum[t]
  BY <1>1 DEF PickedTo
<1>3. ASSUME NEW t \in Defaults
      PROVE  \/ e.sum[t] <= e.sum[Sides!Other(t)]
             \/ \E d \in C : e.sum[t] <= e.sum[Sides!Other(t)] + e.rank[d]
  <2>1. PICK u \in Defaults : u = Sides!Other(t) /\ u # t /\ Sides!Other(u) = t
    BY TeamsAre
  <2>2. /\ k.sum[t] \in Nat /\ k.sum[u] \in Nat
        /\ \/ k.sum[t] <= k.sum[u]
           \/ \E d \in C : k.sum[t] <= k.sum[u] + k.rank[d]
    BY <1>1, <2>1 DEF RankedOK
  <2>3. t = k.first => k.sum[t] <= k.sum[u]
    BY <2>1
  <2>4. /\ e.sum[t] = IF t = k.first /\ w > 0 THEN k.sum[t] + w ELSE k.sum[t]
        /\ e.sum[u] = IF u = k.first /\ w > 0 THEN k.sum[u] + w ELSE k.sum[u]
    BY <1>2
  <2>5. CASE t = k.first /\ w > 0
    <3>1. e.sum[t] <= e.sum[u] + e.rank[c]
      BY <1>2, <2>1, <2>2, <2>3, <2>4, <2>5
    <3> QED BY <1>1, <2>1, <3>1
  <2>6. CASE ~(t = k.first /\ w > 0)
    <3>1. k.sum[t] <= k.sum[u] => e.sum[t] <= e.sum[u]
      BY <2>2, <2>4, <2>6
    <3>2. ASSUME NEW d \in C, k.sum[t] <= k.sum[u] + k.rank[d]
          PROVE  e.sum[t] <= e.sum[u] + e.rank[d]
      <4>1. k.rank[d] \in Int
        BY <1>1
      <4> QED BY <1>2, <2>2, <2>4, <2>6, <3>2, <4>1
    <3> QED BY <2>1, <2>2, <3>1, <3>2
  <2> QED BY <2>5, <2>6
<1>4. ~e.selected => \A d \in e.left : e.rank[d] <= 0
  <2> SUFFICES ASSUME ~(w > 0), NEW d \in k.left PROVE k.rank[d] <= 0
    BY <1>2
  <2>1. k.rank[d] \in Int /\ k.rank[d] <= w
    BY <1>1
  <2> QED BY <2>1
<1> QED BY <1>3, <1>4 DEF RankedOK

-----------------------------------------------------------------------------
(* autoteam() runs.                                                        *)

LEMMA BestExists ==
  ASSUME NEW C, IsFiniteSet(C), NEW k \in AutoCalls(C), k.left # {}
  PROVE  \E c \in k.left : \A d \in k.left : k.rank[d] <= k.rank[c]
<1>1. IsFiniteSet(k.left) /\ \A c \in k.left : k.rank[c] \in Int
  BY AutoCallIs, FS_Subset
<1>2. PICK S, f : S = k.left /\ f = k.rank
  OBVIOUS
<1> QED BY <1>1, <1>2, Greatest

LEMMA MaxIs ==
  ASSUME NEW S, IsFiniteSet(S), S # {}, \A x \in S : x \in Int
  PROVE  Sides!Max(S) \in S /\ \A y \in S : y <= Sides!Max(S)
<1>1. PICK x \in S : \A y \in S : y <= x
  <2> DEFINE f == [x \in S |-> x]
  <2>1. \A x \in S : f[x] = x
    OBVIOUS
  <2> HIDE DEF f
  <2>2. \E x \in S : \A y \in S : f[y] <= f[x]
    BY <2>1, Greatest
  <2> QED BY <2>1, <2>2
<1>2. \E x1 \in S : \A y \in S : x1 >= y
  BY <1>1
<1>3. Sides!Max(S) = CHOOSE x1 \in S : \A y \in S : x1 >= y
  BY DEF Sides!Max
<1>4. Sides!Max(S) \in S /\ \A y \in S : Sides!Max(S) >= y
  BY <1>2, <1>3
<1> QED BY <1>4

\* AutoOK as it is said of any call
LEMMA PickKeeps ==
  ASSUME PeopleOK, AutoOK, Sides!Pick
  PROVE  AutoOK' /\ call'.fun = "autoteam"
<1> DEFINE C == Sides!clients
           A == Sides!Active
<1>1. call.fun = "autoteam" /\ UNCHANGED <<team, watchers, bots, mode, dorefresh>>
  BY DEF Sides!Pick
<1>2. /\ call \in AutoCalls(C) /\ RanksOK(call, C, A)
      /\ call.hides => HiddenOK(call, A)
      /\ ~call.hides => RankedOK(call, C)
      /\ IsFiniteSet(C) /\ A \subseteq C
  BY <1>1 DEF AutoOK, PeopleOK, Sides!Active
<1>3. PICK c \in Sides!Best :
        /\ Sides!Picks(c)
        /\ call' = [call EXCEPT
             !.left = @ \ {c},
             !.put = Sides!With(@, c, call.first),
             !.sum = [t \in Defaults |-> IF t = call.first /\ Sides!Worth(c) > 0
                                         THEN call.sum[t] + Sides!Worth(c) ELSE call.sum[t]],
             !.selected = Sides!Worth(c) > 0,
             !.first = IF Sides!Worth(c) > 0 THEN @ ELSE Sides!Other(@)]
  BY DEF Sides!Pick, Defaults
<1>4. PICK w : w = Sides!Worth(c)
  OBVIOUS
<1>5. PICK e : e = call'
  OBVIOUS
<1>6. c \in call.left /\ \A d \in call.left : call.rank[d] <= call.rank[c]
  BY <1>3 DEF Sides!Best
<1>7. call.sum[call.first] <= call.sum[Sides!Other(call.first)]
  BY <1>3 DEF Sides!Picks
<1>8. call.rank[c] \in Int
  BY <1>2, <1>6, AutoCallIs
<1>9. /\ w \in Int /\ (call.hides => w = 1) /\ (~call.hides => w = call.rank[c])
  BY <1>4, <1>8 DEF Sides!Worth
<1> HIDE DEF C, A
<1>10. PICK k : k = call
  OBVIOUS
<1>11. e = [k EXCEPT !.left = @ \ {c}, !.put = Sides!With(@, c, k.first),
              !.sum = [t \in Defaults |-> IF t = k.first /\ w > 0 THEN k.sum[t] + w ELSE k.sum[t]],
              !.selected = w > 0, !.first = IF w > 0 THEN @ ELSE Sides!Other(@)]
  BY <1>3, <1>4, <1>5, <1>10
<1>12. e \in AutoCalls(C) /\ PickedTo(k, e, c, w)
  BY <1>2, <1>6, <1>9, <1>10, <1>11, PickTypes
<1>13. RanksOK(e, C, A)
  BY <1>2, <1>10, <1>12 DEF RanksOK, PickedTo
<1>19. e.hides = call.hides
  BY <1>10, <1>12 DEF PickedTo
<1>14. e.hides => HiddenOK(e, A)
  BY <1>2, <1>6, <1>7, <1>9, <1>10, <1>12, <1>19, PickHidden
<1>15. ~e.hides => RankedOK(e, C)
  BY <1>2, <1>6, <1>7, <1>9, <1>10, <1>12, <1>19, PickRanked
<1>16. C' = C /\ A' = A
  BY <1>1 DEF C, A, Sides!clients, Sides!Active
<1>17. /\ call' \in AutoCalls(C') /\ RanksOK(call', C', A')
       /\ call'.hides => HiddenOK(call', A')
       /\ ~call'.hides => RankedOK(call', C')
  BY <1>5, <1>12, <1>13, <1>14, <1>15, <1>16
<1>18. call'.fun = "autoteam"
  BY <1>5, <1>12, AutoCallIs
<1> QED BY <1>17, <1>18 DEF AutoOK, C, A, HiddenOK, RankedOK, RanksOK, AutoCalls, Playing, In

LEMMA NextRoundKeeps ==
  ASSUME PeopleOK, AutoOK, Sides!NextRound
  PROVE  AutoOK' /\ call'.fun = "autoteam"
<1> DEFINE C == Sides!clients
           A == Sides!Active
<1>1. call.fun = "autoteam" /\ UNCHANGED <<team, watchers, bots, mode, dorefresh>>
  BY DEF Sides!NextRound, Sides!RoundOver
<1>2. /\ call \in AutoCalls(C) /\ RanksOK(call, C, A)
      /\ call.hides => HiddenOK(call, A)
      /\ ~call.hides => RankedOK(call, C)
      /\ IsFiniteSet(C)
  BY <1>1 DEF AutoOK, PeopleOK
<1>3. call' = [call EXCEPT !.selected = FALSE, !.first = Sides!Other(@)] /\ call.selected
  BY DEF Sides!NextRound
<1>4. ASSUME call.left # {}
      PROVE  \/ call.sum[Sides!Other(call.first)] < call.sum[call.first]
             \/ ~call.hides /\ \A c \in call.left : call.rank[c] <= 0
  <2>1. PICK c \in call.left : \A d \in call.left : call.rank[d] <= call.rank[c]
    <3> HIDE DEF C
    <3> QED BY <1>2, <1>4, BestExists
  <2>2. ~Sides!Picks(c)
    BY <2>1 DEF Sides!NextRound, Sides!RoundOver, Sides!Best
  <2>3. PICK u \in Defaults : u = Sides!Other(call.first)
    BY <1>2, AutoCallIs, TeamsAre
  <2>4. call.sum[u] \in Nat /\ call.sum[call.first] \in Nat /\ \A d \in call.left : call.rank[d] \in Int
    BY <1>2, AutoCallIs
  <2>5. CASE ~(call.sum[call.first] <= call.sum[Sides!Other(call.first)])
    BY <2>3, <2>4, <2>5
  <2>6. CASE ~(Sides!Worth(c) > 0)
    <3>1. ~call.hides /\ ~(call.rank[c] > 0)
      BY <2>6 DEF Sides!Worth
    <3> QED BY <2>1, <2>4, <3>1
  <2> QED BY <2>2, <2>5, <2>6 DEF Sides!Picks
<1> HIDE DEF C, A
<1>5. PICK k, e : k = call /\ e = call'
  OBVIOUS
<1>6. PICK u \in Defaults : u = Sides!Other(k.first) /\ Sides!Other(u) = k.first
  BY <1>2, <1>5, AutoCallIs, TeamsAre
<1>7. e = [k EXCEPT !.selected = FALSE, !.first = u]
  BY <1>3, <1>5, <1>6
<1>8. /\ e \in AutoCalls(C) /\ e.selected = FALSE /\ e.first = u /\ e.rank = k.rank /\ e.hides = k.hides
      /\ e.left = k.left /\ e.sum = k.sum /\ e.put = k.put
  BY <1>2, <1>5, <1>7 DEF AutoCalls
<1>9. RanksOK(e, C, A)
  BY <1>2, <1>5, <1>8 DEF RanksOK
<1>10. k.sum[u] \in Nat /\ k.sum[k.first] \in Nat
  BY <1>2, <1>5, AutoCallIs
<1>11. ASSUME k.hides PROVE HiddenOK(e, A)
  <2>1. HiddenOK(k, A)
    BY <1>2, <1>5, <1>11
  <2>2. e.left = {} \/ e.sum[e.first] <= e.sum[Sides!Other(e.first)]
    BY <1>4, <1>5, <1>6, <1>8, <1>10, <1>11
  <2>3. \A t : Playing(e, A, t) = Playing(k, A, t)
    BY <1>8 DEF Playing, In
  <2> QED BY <1>8, <2>1, <2>2, <2>3 DEF HiddenOK
<1>12. ASSUME ~k.hides PROVE RankedOK(e, C)
  <2>1. RankedOK(k, C)
    BY <1>2, <1>5, <1>12
  <2>2. e.sum[e.first] <= e.sum[Sides!Other(e.first)] \/ \A c \in e.left : e.rank[c] <= 0
    BY <1>4, <1>5, <1>6, <1>8, <1>10
  <2> QED BY <1>8, <2>1, <2>2 DEF RankedOK
<1>13. C' = C /\ A' = A
  BY <1>1 DEF C, A, Sides!clients, Sides!Active
<1>14. /\ call' \in AutoCalls(C') /\ RanksOK(call', C', A')
       /\ call'.hides => HiddenOK(call', A')
       /\ ~call'.hides => RankedOK(call', C')
  BY <1>5, <1>8, <1>9, <1>11, <1>12, <1>13
<1>15. call'.fun = "autoteam"
  BY <1>5, <1>8, AutoCallIs
<1> QED BY <1>14, <1>15 DEF AutoOK, C, A, HiddenOK, RankedOK, RanksOK, AutoCalls, Playing, In

LEMMA ChangeMapKeeps ==
  ASSUME PeopleOK, NEW next, Sides!ChangeMap(next)
  PROVE  AutoOK' /\ call'.fun = "autoteam"
<1> DEFINE C == Sides!clients
           A == Sides!Active
<1>1. UNCHANGED <<team, watchers>> /\ IsFiniteSet(C) /\ A \subseteq C
  BY DEF Sides!ChangeMap, PeopleOK, Sides!Active
<1>2. PICK rank \in [A -> Sides!Ranks] :
        call' = Sides!Autoteam([c \in C |-> IF c \in A THEN rank[c] ELSE Sides!SpectatorRank], Sides!hidefrags)
  BY DEF Sides!ChangeMap
<1> HIDE DEF C, A
<1> DEFINE r == [c \in C |-> IF c \in A THEN rank[c] ELSE -2]
<1>3. r \in [C -> Int] /\ \A c \in C : IF c \in A THEN r[c] >= -1 ELSE r[c] = -2
  <2>1. ASSUME NEW c \in A PROVE rank[c] \in Int /\ rank[c] >= -1
    <3>1. rank[c] \in Sides!Ranks
      BY <1>2, <2>1
    <3> QED BY <3>1 DEF Sides!Ranks
  <2> QED BY <2>1
<1>4. PICK e : e = call'
  OBVIOUS
<1>5. r = [c \in C |-> IF c \in A THEN rank[c] ELSE Sides!SpectatorRank]
  BY DEF Sides!SpectatorRank
<1>6. e = [fun |-> "autoteam", hides |-> Sides!hidefrags, rank |-> r, left |-> C, first |-> 2, selected |-> FALSE,
           sum |-> [t \in Defaults |-> 0], put |-> <<>>]
  <2>1. DOMAIN r = C
    OBVIOUS
  <2> HIDE DEF r
  <2> QED BY <1>2, <1>4, <1>5, <2>1 DEF Sides!Autoteam, Sides!Good, Defaults
<1> HIDE DEF r
<1>7. <<>> \in Puts(C) /\ DOMAIN <<>> = {}
  <2>1. <<>> \in [{} -> Defaults] /\ {} \in SUBSET C /\ DOMAIN <<>> = {}
    OBVIOUS
  <2> QED BY <2>1 DEF Puts
<1>8. [t \in Defaults |-> 0] \in [Defaults -> Nat] /\ 2 \in Defaults
  BY TeamsAre
<1>9. e \in AutoCalls(C)
  BY <1>3, <1>6, <1>7, <1>8 DEF AutoCalls, Sides!hidefrags
<1>10. RanksOK(e, C, A)
  BY <1>3, <1>6 DEF RanksOK
<1>11. /\ e.put = <<>> /\ e.left = C /\ e.selected = FALSE /\ e.first \in Defaults
       /\ \A t \in Defaults : e.sum[t] = 0
  BY <1>6, <1>8
<1>12. HiddenOK(e, A)
  <2>1. \A t : Playing(e, A, t) = 0
    <3>1. \A t : In(e, A, t) = {}
      BY <1>7, <1>11 DEF In
    <3> QED BY <3>1, FS_EmptySet DEF Playing
  <2>2. \A t \in Defaults : e.sum[t] = 0 /\ e.sum[Sides!Other(t)] = 0
    BY <1>11, TeamsAre
  <2>3. DOMAIN e.put \subseteq A
    BY <1>7, <1>11
  <2> QED BY <1>11, <2>1, <2>2, <2>3 DEF HiddenOK
<1>13. RankedOK(e, C)
  <2>1. \A t \in Defaults : e.sum[t] = 0 /\ e.sum[Sides!Other(t)] = 0
    BY <1>11, TeamsAre
  <2> QED BY <1>11, <2>1 DEF RankedOK
<1>14. C' = C /\ A' = A
  BY <1>1 DEF C, A, Sides!clients, Sides!Active
<1>15. call' \in AutoCalls(C') /\ RanksOK(call', C', A') /\ HiddenOK(call', A') /\ RankedOK(call', C')
  BY <1>4, <1>9, <1>10, <1>12, <1>13, <1>14
<1>16. call'.fun = "autoteam"
  BY <1>4, <1>9, AutoCallIs
<1> QED BY <1>15, <1>16 DEF AutoOK, C, A, HiddenOK, RankedOK, RanksOK, AutoCalls, Playing, In

\* When nobody picks any more, the teams are fair.
LEMMA FairInTheEnd ==
  ASSUME PeopleOK, AutoOK
  PROVE  AutoteamIsFair
<1> SUFFICES ASSUME Sides!Teamed PROVE AutoteamIsFair
  BY DEF AutoteamIsFair, Sides!AutoteamIsFair
<1> DEFINE C == Sides!clients
           A == Sides!Active
<1>1. /\ call \in AutoCalls(C)
      /\ call.hides => HiddenOK(call, A)
      /\ ~call.hides => RankedOK(call, C)
      /\ IsFiniteSet(C) /\ A \subseteq C /\ ~call.selected
  BY DEF AutoOK, PeopleOK, Sides!Active, Sides!Teamed, Sides!RoundOver
<1>2. ASSUME call.left # {}
      PROVE  ~(call.sum[call.first] <= call.sum[Sides!Other(call.first)])
  <2>1. PICK c \in call.left : \A d \in call.left : call.rank[d] <= call.rank[c]
    <3> HIDE DEF C
    <3> QED BY <1>1, <1>2, BestExists
  <2>2. ~Sides!Picks(c)
    BY <2>1 DEF Sides!Teamed, Sides!RoundOver, Sides!Best
  <2> QED BY <1>1, <2>2 DEF Sides!Picks
<1> HIDE DEF C, A
<1>3. PICK k : k = call
  OBVIOUS
<1>4. DOMAIN k.put = C \ k.left /\ k.left \subseteq C /\ k.rank \in [C -> Int] /\ k.sum \in [Defaults -> Nat]
  BY <1>1, <1>3, AutoCallIs
<1>5. 1 \in Defaults /\ 2 \in Defaults /\ Sides!Other(1) = 2 /\ Sides!Other(2) = 1
  BY TeamsAre DEF Sides!Other
<1>6. ASSUME k.hides
      PROVE  DOMAIN k.put = C /\ Playing(k, A, 2) - Playing(k, A, 1) \in -1 .. 1
  <2>1. HiddenOK(k, A) /\ ~k.selected
    BY <1>1, <1>3, <1>6
  <2>2. k.left = {}
    BY <1>2, <1>3, <2>1 DEF HiddenOK
  <2>3. Playing(k, A, 1) \in Nat /\ Playing(k, A, 2) \in Nat
    <3>1. \A t : In(k, A, t) \subseteq C
      BY <1>4 DEF In
    <3>2. \A t : IsFiniteSet(In(k, A, t))
      BY <1>1, <3>1, FS_Subset
    <3> QED BY <3>2, FS_CardinalityType DEF Playing
  <2>4. Playing(k, A, 1) <= Playing(k, A, 2) + 1 /\ Playing(k, A, 2) <= Playing(k, A, 1) + 1
    BY <1>5, <2>1 DEF HiddenOK
  <2> QED BY <1>4, <2>2, <2>3, <2>4
<1> DEFINE S == {0} \cup {k.rank[c] : c \in C}
           best == Sides!Max(S)
<1>7. ASSUME ~k.hides
      PROVE  /\ \A c \in C : k.rank[c] > 0 => c \in DOMAIN k.put
             /\ k.sum[2] - k.sum[1] \in -best .. best
  <2>1. RankedOK(k, C) /\ ~k.selected
    BY <1>1, <1>3, <1>7
  <2>2. \A c \in C : k.rank[c] > 0 => c \in DOMAIN k.put
    <3> SUFFICES ASSUME NEW c \in k.left, k.rank[c] > 0 PROVE FALSE
      BY <1>4
    <3>1. \A d \in k.left : k.rank[d] <= 0
      BY <1>2, <1>3, <2>1 DEF RankedOK
    <3>2. k.rank[c] \in Int
      BY <1>4
    <3> QED BY <3>1, <3>2
  <2>3. IsFiniteSet(S) /\ S # {} /\ \A x \in S : x \in Int
    <3>1. IsFiniteSet({k.rank[c] : c \in C})
      BY <1>1, FiniteImage
    <3>2. IsFiniteSet({0})
      BY FS_Singleton
    <3>3. \A c \in C : k.rank[c] \in Int
      BY <1>4
    <3>4. IsFiniteSet(S)
      BY <3>1, <3>2, FS_Union
    <3> QED BY <3>3, <3>4
  <2>4. best \in Int /\ 0 <= best /\ \A c \in C : k.rank[c] <= best
    <3>1. best \in S /\ \A y \in S : y <= best
      <4> HIDE DEF S
      <4> QED BY <2>3, MaxIs
    <3>2. best \in Int
      BY <2>3, <3>1
    <3>3. \A c \in C : k.rank[c] \in S
      OBVIOUS
    <3> HIDE DEF best
    <3> QED BY <3>1, <3>2, <3>3
  <2>5. ASSUME NEW t \in Defaults, NEW u \in Defaults, u = Sides!Other(t)
        PROVE  k.sum[t] <= k.sum[u] + best
    <3>1. k.sum[t] \in Nat /\ k.sum[u] \in Nat
      BY <1>4
    <3>2. \A c \in C : k.rank[c] \in Int
      BY <1>4
    <3>3. k.sum[t] <= k.sum[u] \/ \E c \in C : k.sum[t] <= k.sum[u] + k.rank[c]
      BY <2>1, <2>5 DEF RankedOK
    <3> HIDE DEF best
    <3> QED BY <2>4, <3>1, <3>2, <3>3
  <2>6. k.sum[1] \in Nat /\ k.sum[2] \in Nat /\ k.sum[1] <= k.sum[2] + best /\ k.sum[2] <= k.sum[1] + best
    BY <1>4, <1>5, <2>5
  <2> HIDE DEF best
  <2> QED BY <2>2, <2>4, <2>6
<1>8. Sides!Good = 2 /\ Sides!Evil = 1
  BY DEF Sides!Good, Sides!Evil
<1>9. \A t : Playing(k, A, t) = Sides!Cardinality({c \in DOMAIN call.put \cap A : call.put[c] = t})
  BY <1>3, SameCardinality DEF Playing, In
<1> QED
  <2>1. CASE call.hides
    BY <1>3, <1>6, <1>8, <1>9, <2>1 DEF AutoteamIsFair, Sides!AutoteamIsFair, C, A
  <2>2. CASE ~call.hides
    BY <1>3, <1>7, <1>8, <2>2 DEF AutoteamIsFair, Sides!AutoteamIsFair, C
  <2> QED BY <2>1, <2>2

-----------------------------------------------------------------------------
(* Who is there.                                                           *)

LEMMA PeopleKeep ==
  ASSUME PeopleOK, AutoOK, Sides!Next
  PROVE  PeopleOK'
<1>1. Sides!clients = DOMAIN team /\ Sides!clients' = DOMAIN team'
  BY DEF Sides!clients
<1>2. Defaults \subseteq Names
  BY NamesAssumption DEF Defaults, Names, Sides!Defaults, Sides!Names, Sides!Evil, Sides!Good
<1>3. ASSUME UNCHANGED <<team, watchers>> PROVE PeopleOK'
  BY <1>1, <1>3 DEF PeopleOK
<1>4. ASSUME NEW c, Sides!Connect(c) PROVE PeopleOK'
  <2>1. PICK t \in Sides!Worst : team' = Sides!With(team, c, t)
    BY <1>4 DEF Sides!Connect
  <2>2. t \in Names
    BY <1>2, <2>1 DEF Sides!Worst, Defaults
  <2>3. team' = [d \in DOMAIN team \cup {c} |-> IF d = c THEN t ELSE team[d]]
    BY <2>1 DEF Sides!With
  <2>4. team' \in [DOMAIN team' -> Names] /\ DOMAIN team' = DOMAIN team \cup {c}
    BY <1>1, <2>2, <2>3 DEF PeopleOK
  <2>5. IsFiniteSet(DOMAIN team')
    BY <1>1, <2>4, FS_AddElement DEF PeopleOK
  <2>6. watchers' \subseteq DOMAIN team'
    BY <1>1, <1>4, <2>4 DEF Sides!Connect, PeopleOK
  <2> QED BY <1>1, <2>4, <2>5, <2>6 DEF PeopleOK
<1>5. ASSUME NEW c, Sides!Leave(c) PROVE PeopleOK'
  <2>1. team' = [d \in DOMAIN team \ {c} |-> team[d]]
    BY <1>1, <1>5 DEF Sides!Leave, Sides!Restrict
  <2>2. team' \in [DOMAIN team' -> Names] /\ DOMAIN team' = DOMAIN team \ {c}
    BY <1>1, <2>1 DEF PeopleOK
  <2>3. IsFiniteSet(DOMAIN team')
    BY <1>1, <2>2, FS_Subset DEF PeopleOK
  <2>4. watchers' \subseteq DOMAIN team'
    BY <1>1, <1>5, <2>2 DEF Sides!Leave, PeopleOK
  <2> QED BY <1>1, <2>2, <2>3, <2>4 DEF PeopleOK
<1>6. ASSUME NEW c, Sides!Spectate(c) PROVE PeopleOK'
  BY <1>1, <1>6 DEF Sides!Spectate, Sides!Active, PeopleOK
<1>7. ASSUME NEW c, Sides!Unspectate(c) PROVE PeopleOK'
  BY <1>1, <1>7 DEF Sides!Unspectate, PeopleOK
<1>8. ASSUME NEW c, NEW t \in Names, Sides!Switch(c, t) PROVE PeopleOK'
  BY <1>1, <1>8 DEF Sides!Switch, PeopleOK
<1>9. ASSUME Sides!EndAutoteam PROVE PeopleOK'
  <2>1. call \in AutoCalls(Sides!clients)
    BY <1>9 DEF Sides!EndAutoteam, Sides!Teamed, Sides!RoundOver, AutoOK
  <2>2. PICK p : p = call.put
    OBVIOUS
  <2>3. \A d \in DOMAIN p : p[d] \in Names
    BY <1>2, <2>1, <2>2, AutoCallIs
  <2>4. team' = [d \in DOMAIN team |-> IF d \in DOMAIN p THEN p[d] ELSE team[d]]
    BY <1>1, <1>9, <2>2 DEF Sides!EndAutoteam
  <2>5. team' \in [DOMAIN team -> Names] /\ DOMAIN team' = DOMAIN team
    BY <1>1, <2>3, <2>4 DEF PeopleOK
  <2>6. watchers' = watchers
    BY <1>9 DEF Sides!EndAutoteam
  <2> QED BY <1>1, <2>5, <2>6 DEF PeopleOK
<1>10. ASSUME Sides!Step PROVE PeopleOK'
  <2>1. ASSUME NEW next, Sides!ChangeMap(next) PROVE PeopleOK'
    BY <1>3, <2>1 DEF Sides!ChangeMap
  <2>2. ASSUME NEW t, Sides!DelBot(t) \/ \E u \in Names : Sides!SetBotTeam(t, u) PROVE PeopleOK'
    BY <1>3, <2>2 DEF Sides!DelBot, Sides!SetBotTeam
  <2>3. ASSUME NEW b \in BOOLEAN, Sides!CheckAI(b) PROVE PeopleOK'
    BY <1>3, <2>3 DEF Sides!CheckAI
  <2>4. ASSUME Sides!AddBot PROVE PeopleOK'
    BY <1>3, <2>4 DEF Sides!AddBot
  <2> QED BY <1>4, <1>5, <1>6, <1>7, <1>8, <1>10, <2>1, <2>2, <2>3, <2>4 DEF Sides!Step, Names
<1>11. ASSUME Sides!Pick \/ Sides!NextRound \/ Sides!Shift \/ Sides!EndBalance PROVE PeopleOK'
  BY <1>3, <1>11 DEF Sides!Pick, Sides!NextRound, Sides!Shift, Sides!EndBalance
<1> QED BY <1>9, <1>10, <1>11 DEF Sides!Next

\* A call of balanceteams() after another part of it is done
LEMMA CallParts ==
  ASSUME NEW s, NEW g, NEW z, NEW o, NEW B, NEW e, e = AsCall(s, g, z, o, B)
  PROVE  /\ e.fun = "balanceteams" /\ IsCall(e)
         /\ e.teams = s /\ e.left = g /\ e.says = z /\ e.ofbots = o /\ e.before = B
BY DEF AsCall, IsCall

LEMMA CallWith ==
  ASSUME NEW k, IsCall(k), k.fun = "balanceteams", NEW r, NEW l, NEW y, NEW p,
         NEW d, d = [k EXCEPT !.teams = r, !.left = l, !.says = y, !.ofbots = p]
  PROVE  d = AsCall(r, l, y, p, k.before)
<1>1. PICK s, g, z, o, B : k = AsCall(s, g, z, o, B) /\ B = k.before
  BY Zenon DEF IsCall
<1>2. k = AsCall(s, g, z, o, B)
  BY <1>1
<1>3. d = AsCall(r, l, y, p, B)
  BY <1>2 DEF AsCall
<1> QED BY <1>1, <1>3, Zenon

LEMMA TailWith ==
  ASSUME NEW k, IsCall(k), k.fun = "balanceteams", NEW r, NEW c, c = [k EXCEPT !.teams = r]
  PROVE  c = AsCall(r, k.left, k.says, k.ofbots, k.before)
<1>1. PICK s, g, z, o, B : k = AsCall(s, g, z, o, B) /\ g = k.left /\ z = k.says /\ o = k.ofbots /\ B = k.before
  BY Zenon DEF IsCall
<1>2. k = AsCall(s, g, z, o, B)
  BY <1>1
<1>3. c = AsCall(r, g, z, o, B)
  BY <1>2 DEF AsCall
<1> QED BY <1>1, <1>3, Zenon

LEMMA ShiftKeepsCall ==
  ASSUME CallOK, Sides!Shift
  PROVE  CallOK' /\ call'.fun = "balanceteams"
<1>1. IsCall(call)
  BY DEF Sides!Shift, CallOK
<1>2. ASSUME NEW r, NEW l, NEW y, NEW p,
             \/ call' = [call EXCEPT !.teams = r, !.left = l, !.says = y, !.ofbots = p]
             \/ call' = [call EXCEPT !.teams = r]
      PROVE  CallOK' /\ call'.fun = "balanceteams"
  <2>1. PICK k, c, d : /\ k = call /\ c = [k EXCEPT !.teams = r]
                       /\ d = [k EXCEPT !.teams = r, !.left = l, !.says = y, !.ofbots = p]
    OBVIOUS
  <2>2. IsCall(k) /\ k.fun = "balanceteams"
    BY <1>1, <2>1 DEF Sides!Shift
  <2>3. call' = c \/ call' = d
    BY <1>2, <2>1, Zenon
  <2>6. c = AsCall(r, k.left, k.says, k.ofbots, k.before)
    <3>1. c = [k EXCEPT !.teams = r]
      BY <2>1
    <3> QED BY <2>2, <3>1, TailWith
  <2>7. d = AsCall(r, l, y, p, k.before)
    <3>1. d = [k EXCEPT !.teams = r, !.left = l, !.says = y, !.ofbots = p]
      BY <2>1
    <3> QED BY <2>2, <3>1, CallWith
  <2>4. ASSUME NEW e, e = c \/ e = d PROVE e.fun = "balanceteams" /\ IsCall(e)
    <3>1. CASE e = c
      BY <2>6, <3>1, CallParts
    <3>2. CASE e = d
      BY <2>7, <3>2, CallParts
    <3> QED BY <2>4, <3>1, <3>2
  <2>5. call'.fun = "balanceteams" /\ IsCall(call')
    BY <2>3, <2>4, Zenon
  <2> QED BY <2>5, Zenon DEF CallOK, IsCall
<1>3. CASE call.left[call.says[Head(call.teams).team]] > 0
  <2>1. PICK x, r : x = call.says[Head(call.teams).team] /\ r = Sides!Lifted(Sides!Scored(call.teams))
    OBVIOUS
  <2>2. PICK itself :
          call' = [call EXCEPT !.teams = r, !.left = [call.left EXCEPT ![x] = @ - 1],
                     !.says = IF itself THEN [call.says EXCEPT ![x] = Sides!Goes(r)] ELSE call.says,
                     !.ofbots = IF itself THEN call.ofbots \ {x} ELSE call.ofbots]
    BY <1>3, <2>1, Zenon DEF Sides!Shift
  <2> QED BY <1>2, <2>2, Zenon
<1>4. CASE ~(call.left[call.says[Head(call.teams).team]] > 0)
  <2>1. call' = [call EXCEPT !.teams = Tail(call.teams)]
    BY <1>4, Zenon DEF Sides!Shift
  <2> QED BY <1>2, <2>1, Zenon
<1> QED BY <1>3, <1>4

LEMMA CallKeeps ==
  ASSUME PeopleOK, AutoOK, CallOK, Sides!Next
  PROVE  AutoOK' /\ CallOK'
<1>1. ASSUME Sides!Shift PROVE AutoOK' /\ CallOK'
  BY <1>1, ShiftKeepsCall DEF AutoOK
<1>2. ASSUME call'.fun = "autoteam" PROVE CallOK'
  BY <1>2 DEF CallOK
<1>3. ASSUME Sides!Pick \/ Sides!NextRound \/ \E next : Sides!ChangeMap(next) PROVE AutoOK' /\ CallOK'
  BY <1>2, <1>3, PickKeeps, NextRoundKeeps, ChangeMapKeeps
<1>4. ASSUME call' = Sides!Idle PROVE AutoOK' /\ CallOK'
  BY <1>4 DEF AutoOK, CallOK, Sides!Idle
<1>5. ASSUME NEW b, Sides!CheckAI(b) PROVE AutoOK' /\ CallOK'
  <2>1. call' = Sides!Idle \/ \E s, o : call' = Sides!Balance(s, o)
    BY <1>5, Zenon DEF Sides!CheckAI
  <2>2. ASSUME NEW s, NEW o, call' = Sides!Balance(s, o) PROVE AutoOK' /\ CallOK'
    <3>1. PICK s1, g, z, B : call' = AsCall(s1, g, z, o, B)
      BY <2>2, Zenon DEF Sides!Balance, AsCall
    <3>2. PICK e : e = call' /\ e.fun = "balanceteams" /\ IsCall(e)
      BY <3>1, CallParts
    <3> QED BY <3>2 DEF AutoOK, CallOK, IsCall
  <2> QED BY <1>4, <2>1, <2>2
<1>6. ASSUME call = Sides!Idle, Sides!Step PROVE AutoOK' /\ CallOK'
  <2>1. \/ call' = call
        \/ \E next : Sides!ChangeMap(next)
        \/ \E b : Sides!CheckAI(b)
    BY <1>6, Zenon DEF Sides!Step, Sides!Connect, Sides!Leave, Sides!Spectate, Sides!Unspectate, Sides!Switch,
       Sides!AddBot, Sides!DelBot, Sides!SetBotTeam
  <2> QED BY <1>3, <1>4, <1>5, <1>6, <2>1, Zenon
<1>7. ASSUME Sides!EndAutoteam \/ Sides!EndBalance PROVE AutoOK' /\ CallOK'
  BY <1>4, <1>7, Zenon DEF Sides!EndAutoteam, Sides!EndBalance
<1> QED BY <1>1, <1>3, <1>6, <1>7, Zenon DEF Sides!Next

-----------------------------------------------------------------------------
(* A bot goes from the first team to the last.                             *)

\* The list r after a point went from the first to the last of s, who was
\* put behind the first k.
Moved(s, r, k) ==
  LET n == Len(s) IN
  /\ Len(r) = n
  /\ r[1].team = s[1].team /\ r[1].score = s[1].score - 1
  /\ \A i \in 2 .. k : r[i] = s[i] /\ s[i].score > s[n].score
  /\ r[k + 1].team = s[n].team /\ r[k + 1].score = s[n].score + 1
  /\ \A i \in k + 2 .. n : r[i] = s[i - 1] /\ s[i - 1].score = s[n].score

LEMMA LiftIs ==
  ASSUME NEW K, NEW s \in Seq(Places), ListOK(s, K), NEW n, n = Len(s), n >= 2,
         s[1].score > s[n].score + 1, NEW r, r = Sides!Lifted(Sides!Scored(s))
  PROVE  r \in Seq(Places) /\ \E k \in 1 .. n - 1 : Moved(s, r, k)
<1>1. n \in Nat /\ \A i \in 1 .. n : s[i] \in Places
  OBVIOUS
<1>2. PICK z : z = Sides!Scored(s)
  OBVIOUS
<1>3. z = [i \in 1 .. n |-> [s[i] EXCEPT !.score = @ + (IF i = n THEN 1 ELSE 0) - (IF i = 1 THEN 1 ELSE 0)]]
  BY <1>2 DEF Sides!Scored
<1>4. \A i \in 1 .. n : s[i].score \in Nat /\ s[i].team \in Names
  BY <1>1 DEF Places
<1>5. /\ Len(z) = n /\ \A i \in 1 .. n : z[i] \in Places
      /\ z[1].team = s[1].team /\ z[1].score = s[1].score - 1
      /\ z[n].team = s[n].team /\ z[n].score = s[n].score + 1
      /\ \A i \in 2 .. n - 1 : z[i] = s[i]
  <2>1. ASSUME NEW i \in 1 .. n
        PROVE  /\ z[i].team = s[i].team
               /\ z[i].score = s[i].score + (IF i = n THEN 1 ELSE 0) - (IF i = 1 THEN 1 ELSE 0)
               /\ z[i] = [team |-> z[i].team, score |-> z[i].score]
               /\ i # 1 /\ i # n => z[i] = s[i]
    <3>1. PICK p \in Places : p = s[i]
      BY <1>1
    <3>2. PICK v : v = p.score + (IF i = n THEN 1 ELSE 0) - (IF i = 1 THEN 1 ELSE 0)
      OBVIOUS
    <3>3. z[i] = [p EXCEPT !.score = v]
      BY <1>3, <3>1, <3>2
    <3>4. p = [team |-> p.team, score |-> p.score] /\ p.score \in Nat
      BY DEF Places
    <3>5. z[i] = [team |-> p.team, score |-> v]
      BY <3>3, <3>4
    <3>6. i # 1 /\ i # n => v = p.score
      BY <3>2, <3>4
    <3> QED BY <3>1, <3>2, <3>4, <3>5, <3>6
  <2>2. Len(z) = n
    BY <1>1, <1>3
  <2>3. ASSUME NEW i \in 1 .. n PROVE z[i] \in Places
    <3>1. PICK v : v = s[i].score + (IF i = n THEN 1 ELSE 0) - (IF i = 1 THEN 1 ELSE 0)
      OBVIOUS
    <3>2. s[i].team \in Names /\ s[i].score \in Nat /\ s[n].score \in Nat
      BY <1>1, <1>4
    <3>3. v \in Nat
      BY <1>1, <3>1, <3>2
    <3>4. z[i] = [team |-> s[i].team, score |-> v]
      BY <2>1, <3>1
    <3> QED BY <3>2, <3>3, <3>4 DEF Places
  <2>4. \A i \in 1 .. n : z[i].team = s[i].team /\ (i # 1 /\ i # n => z[i] = s[i])
    BY <2>1, Zenon
  <2>5. \A i \in 1 .. n : z[i].score = s[i].score + (IF i = n THEN 1 ELSE 0) - (IF i = 1 THEN 1 ELSE 0)
    BY <2>1, Zenon
  <2>6. z[1].team = s[1].team /\ z[1].score = s[1].score - 1
    <3>1. 1 \in 1 .. n /\ 1 # n /\ s[1].score \in Nat
      BY <1>1, <1>4
    <3> QED BY <2>4, <2>5, <3>1
  <2>7. z[n].team = s[n].team /\ z[n].score = s[n].score + 1
    <3>1. n \in 1 .. n /\ 1 # n /\ s[n].score \in Nat
      BY <1>1, <1>4
    <3> QED BY <2>4, <2>5, <3>1
  <2>8. \A i \in 2 .. n - 1 : z[i] = s[i]
    BY <1>1, <2>4
  <2> QED BY <2>2, <2>3, <2>6, <2>7, <2>8
<1> DEFINE U == {j \in 1 .. n - 1 : z[j].score >= z[n].score}
           k == Sides!Max({0} \cup U)
<1>6. k \in 1 .. n - 1 /\ z[k].score >= z[n].score /\ \A j \in k + 1 .. n - 1 : ~(z[j].score >= z[n].score)
  <2>1. {0} \cup U \subseteq 0 .. n - 1 /\ 1 \in U
    BY <1>1, <1>4, <1>5
  <2>2. IsFiniteSet({0} \cup U)
    <3>1. PICK X : X = 0 .. n - 1 /\ IsFiniteSet(X)
      BY <1>1, FS_Interval
    <3> HIDE DEF U
    <3> QED BY <2>1, <3>1, FS_Subset
  <2>3. \A x \in {0} \cup U : x \in Int
    BY <1>1, <2>1
  <2>4. k \in {0} \cup U /\ \A y \in {0} \cup U : y <= k
    <3> HIDE DEF U
    <3> QED BY <2>2, <2>3, MaxIs
  <2>5. k \in U
    <3> HIDE DEF k
    <3> QED BY <1>1, <2>1, <2>4
  <2> HIDE DEF k
  <2> QED BY <1>1, <2>1, <2>4, <2>5
<1>7. r = [i \in 1 .. n |-> IF i <= k THEN z[i] ELSE IF i = k + 1 THEN z[n] ELSE z[i - 1]]
  BY <1>2, <1>5 DEF Sides!Lifted
<1> HIDE DEF k
<1>8. r \in Seq(Places) /\ Len(r) = n
  <2>1. ASSUME NEW i \in 1 .. n
        PROVE  (IF i <= k THEN z[i] ELSE IF i = k + 1 THEN z[n] ELSE z[i - 1]) \in Places
    BY SMTT(30), <1>1, <1>5, <1>6
  <2>2. r \in [1 .. n -> Places]
    BY <1>7, <2>1
  <2> QED BY <1>1, <2>2
<1>9. r[1].team = s[1].team /\ r[1].score = s[1].score - 1
  BY <1>1, <1>5, <1>6, <1>7
<1>10. r[k + 1].team = s[n].team /\ r[k + 1].score = s[n].score + 1
  BY <1>1, <1>5, <1>6, <1>7
<1>11. ASSUME NEW i \in 2 .. k PROVE r[i] = s[i] /\ s[i].score > s[n].score
  <2>1. r[i] = s[i]
    BY <1>1, <1>5, <1>6, <1>7
  <2>2. s[k].score >= s[n].score + 1
    <3>1. k \in 2 .. n - 1
      BY <1>1, <1>6
    <3>2. z[k] = s[k]
      BY <1>5, <3>1
    <3> QED BY <1>5, <1>6, <3>2
  <2>4. s[i].score >= s[k].score
    <3>1. i \in DOMAIN s /\ k \in DOMAIN s /\ 2 <= i /\ (i < k \/ i = k) /\ s[k].score \in Nat
      BY <1>1, <1>4, <1>6
    <3> QED BY <3>1 DEF ListOK
  <2>3. s[i].score \in Nat /\ s[k].score \in Nat /\ s[n].score \in Nat
    BY <1>1, <1>4, <1>6
  <2> QED BY <2>1, <2>2, <2>3, <2>4
<1>12. ASSUME NEW i \in k + 2 .. n PROVE r[i] = s[i - 1] /\ s[i - 1].score = s[n].score
  <2>1. PICK j : j = i - 1 /\ j \in k + 1 .. n - 1 /\ j \in 2 .. n - 1 /\ i \in 1 .. n
    BY <1>1, <1>6
  <2>2. r[i] = z[j] /\ z[j] = s[j]
    BY <1>1, <1>5, <1>6, <1>7, <2>1
  <2>3. ~(s[j].score >= s[n].score + 1) /\ s[j].score >= s[n].score
    <3>1. ~(z[j].score >= z[n].score)
      BY <1>6, <2>1
    <3>2. j \in DOMAIN s /\ n \in DOMAIN s /\ 2 <= j /\ j < n
      BY <1>1, <2>1
    <3> QED BY <1>5, <2>2, <3>1, <3>2 DEF ListOK
  <2>4. s[j].score \in Nat /\ s[n].score \in Nat
    BY <1>1, <1>4, <2>1
  <2> QED BY <2>1, <2>2, <2>3, <2>4
<1> QED BY SMTT(30), <1>6, <1>8, <1>9, <1>10, <1>11, <1>12 DEF Moved

LEMMA MovedList ==
  ASSUME NEW K, NEW s \in Seq(Places), NEW r \in Seq(Places), ListOK(s, K), NEW n, n = Len(s), n >= 2,
         s[1].score > s[n].score + 1, NEW k \in 1 .. n - 1, Moved(s, r, k)
  PROVE  ListOK(r, K)
<1>1. n \in Nat /\ \A i \in 1 .. n : s[i] \in Places /\ r[i] \in Places
  BY DEF Moved
<1>2. \A i \in 1 .. n : s[i].score \in Nat /\ r[i].score \in Nat
  BY <1>1 DEF Places
<1> DEFINE g == [i \in 1 .. n |-> IF i <= k THEN i ELSE IF i = k + 1 THEN n ELSE i - 1]
<1>3. \A i \in 1 .. n : g[i] \in 1 .. n
  BY <1>1
<1>4. \A i, j \in 1 .. n : g[i] = g[j] => i = j
  BY <1>1
<1>5. \A i \in 1 .. n : r[i].team = s[g[i]].team
  <2> SUFFICES ASSUME NEW i \in 1 .. n PROVE r[i].team = s[g[i]].team
    OBVIOUS
  <2>1. i = 1 \/ i \in 2 .. k \/ i = k + 1 \/ i \in k + 2 .. n
    BY <1>1
  <2>2. i = 1 => g[i] = 1
    BY <1>1
  <2>3. i \in 2 .. k => g[i] = i
    BY <1>1
  <2>4. i = k + 1 => g[i] = n
    BY <1>1
  <2>5. i \in k + 2 .. n => g[i] = i - 1
    BY <1>1
  <2> HIDE DEF g
  <2> QED BY <2>1, <2>2, <2>3, <2>4, <2>5 DEF Moved
<1> HIDE DEF g
<1>6. \A i \in DOMAIN r : r[i].team \in K
  BY <1>1, <1>3, <1>5 DEF ListOK, Moved
<1>7. \A i, j \in DOMAIN r : r[i].team = r[j].team => i = j
  <2>1. \A i, j \in 1 .. n : s[i].team = s[j].team => i = j
    BY SMTT(30), <1>1 DEF ListOK
  <2>2. DOMAIN r = 1 .. n
    BY <1>1 DEF Moved
  <2> SUFFICES ASSUME NEW i \in 1 .. n, NEW j \in 1 .. n, r[i].team = r[j].team PROVE i = j
    BY <2>2
  <2>3. s[g[i]].team = s[g[j]].team
    BY <1>5
  <2>4. g[i] = g[j]
    BY <1>3, <2>1, <2>3
  <2> QED BY <1>4, <2>4
<1>8. r[1].score >= r[n].score
  <2>1. n = k + 1 \/ n \in k + 2 .. n
    BY <1>1
  <2>2. n = k + 1 => r[n].score = s[n].score + 1
    BY DEF Moved
  <2>3. n \in k + 2 .. n => r[n].score = s[n].score
    BY DEF Moved
  <2>4. r[1].score = s[1].score - 1 /\ s[1].score \in Nat /\ s[n].score \in Nat
    BY <1>1, <1>2 DEF Moved
  <2> QED BY <2>1, <2>2, <2>3, <2>4
<1>9. ASSUME NEW i \in 1 .. n, NEW j \in 1 .. n, 2 <= i, i < j
      PROVE  r[i].score >= r[j].score
  <2>1. s[n].score \in Nat
    BY <1>1, <1>2
  <2>2. j \in 2 .. k => r[j].score = s[j].score
    BY DEF Moved
  <2>3. j = k + 1 => r[j].score = s[n].score + 1
    BY DEF Moved
  <2>4. j \in k + 2 .. n => r[j].score = s[n].score
    BY DEF Moved
  <2>5. i \in 2 .. k => r[i].score = s[i].score /\ s[i].score \in Nat /\ s[i].score > s[n].score
    BY <1>1, <1>2 DEF Moved
  <2>6. i = k + 1 => r[i].score = s[n].score + 1
    BY DEF Moved
  <2>7. i \in k + 2 .. n => r[i].score = s[n].score
    BY DEF Moved
  <2>8. i \in DOMAIN s /\ j \in DOMAIN s
    BY <1>1
  <2>9. s[i].score >= s[j].score
    BY <1>9, <2>8 DEF ListOK
  <2>10. \/ i \in 2 .. k /\ (j \in 2 .. k \/ j = k + 1 \/ j \in k + 2 .. n)
         \/ i = k + 1 /\ j \in k + 2 .. n
         \/ i \in k + 2 .. n /\ j \in k + 2 .. n
    BY <1>1, <1>9
  <2> QED BY <2>1, <2>2, <2>3, <2>4, <2>5, <2>6, <2>7, <2>9, <2>10
<1>10. DOMAIN r = 1 .. n /\ Len(r) = n
  BY <1>1 DEF Moved
<1> QED BY <1>6, <1>7, <1>8, <1>9, <1>10 DEF ListOK

LEMMA BoundsOf ==
  ASSUME NEW B \in UNION {[D -> Nat] : D \in SUBSET Names}, NEW k, k.before = B, NEW v \in Int, NEW w \in Int
  PROVE  /\ AtMost(k, v) /\ w <= v => AtMost(k, w)
         /\ AtLeast(k, v) /\ v <= w => AtLeast(k, w)
<1>1. PICK D \in SUBSET Names : B \in [D -> Nat]
  OBVIOUS
<1>2. \A t \in D : B[t] \in Nat
  BY <1>1
<1> QED BY <1>1, <1>2 DEF AtMost, AtLeast

LEMMA BalanceIs ==
  ASSUME NEW k \in BalanceCalls
  PROVE  /\ k.fun = "balanceteams" /\ k.teams \in Seq(Places) /\ k.left \in [Names -> Nat]
         /\ k.says \in [Names -> Names] /\ k.ofbots \in SUBSET Names
         /\ k.before \in UNION {[D -> Nat] : D \in SUBSET Names}
BY DEF BalanceCalls

Wide(s) == s # <<>> /\ s[1].score > s[Len(s)].score + 1

LEMMA TwoOrMore == \A n \in Nat : n >= 1 /\ n # 1 => n >= 2
OBVIOUS

LEMMA WideIsLong ==
  ASSUME NEW s \in Seq(Places), Wide(s)
  PROVE  Len(s) >= 2 /\ Len(s) # 1
<1>1. Len(s) \in Nat /\ Len(s) >= 1 /\ s[1] \in Places /\ s[Len(s)] \in Places
  BY DEF Wide
<1>2. s[1].score \in Nat /\ s[Len(s)].score \in Nat
  BY <1>1 DEF Places
<1>3. Len(s) # 1
  BY <1>2 DEF Wide
<1> QED BY <1>1, <1>3, TwoOrMore, Zenon

\* One less for x, and one more for y
Given(f, x, y) == [t \in Names |-> IF t = x THEN f[t] - 1 ELSE IF t = y THEN f[t] + 1 ELSE f[t]]
Less(f, x) == [t \in Names |-> IF t = x THEN f[t] - 1 ELSE f[t]]

\* In the call k, of members m, a point goes from the first to the last,
\* behind the first i, and a bot to the one who is last then.
Moves(k, m, e, q, i) ==
  /\ k \in BalanceCalls /\ e.before = k.before /\ e.teams \in Seq(Places) /\ m \in [Names -> Nat]
  /\ Len(k.teams) >= 2 /\ Wide(k.teams) /\ i \in 1 .. Len(k.teams) - 1
  /\ ListOK(k.teams, DOMAIN k.before) /\ ListOK(e.teams, DOMAIN k.before)
  /\ Moved(k.teams, e.teams, i)
  /\ PlaceOK(k, m)
  /\ q = Given(m, k.teams[1].team, e.teams[Len(k.teams)].team)

LEMMA BoundsBetween ==
  ASSUME NEW k \in BalanceCalls, NEW v \in Nat, NEW w \in Nat, v > w + 1, AtMost(k, v), AtLeast(k, w)
  PROVE  /\ AtMost(k, v - 1) /\ AtLeast(k, v - 1) /\ AtLeast(k, v - 2)
         /\ AtMost(k, w + 1) /\ AtLeast(k, w + 1) /\ AtMost(k, w + 2)
<1>1. ASSUME NEW x \in Int, NEW y \in Int
      PROVE  /\ AtMost(k, x) /\ y <= x => AtMost(k, y)
             /\ AtLeast(k, x) /\ x <= y => AtLeast(k, y)
  BY BalanceIs, BoundsOf
<1> QED BY <1>1

LEMMA MovedPlaces ==
  ASSUME NEW k, NEW m, NEW e, NEW q, NEW i, Moves(k, m, e, q, i)
  PROVE  PlaceOK(e, q)
<1>17. PICK s, r, B, n : s = k.teams /\ r = e.teams /\ B = k.before /\ B = e.before /\ n = Len(s)
  BY DEF Moves
<1>18. /\ s \in Seq(Places) /\ r \in Seq(Places) /\ B \in UNION {[D -> Nat] : D \in SUBSET Names}
       /\ m \in [Names -> Nat] /\ i \in 1 .. n - 1 /\ n >= 2
       /\ ListOK(s, DOMAIN B) /\ ListOK(r, DOMAIN B) /\ Moved(s, r, i) /\ PlaceOK(k, m)
  BY <1>17, BalanceIs, Zenon DEF Moves
<1>19. s[1].score > s[n].score + 1
  BY <1>17 DEF Moves, Wide
<1>20. q = Given(m, s[1].team, r[n].team)
  BY <1>17 DEF Moves
<1>21. PICK a \in Nat, b \in Nat : a = s[1].score /\ b = s[n].score /\ a > b + 1
  <2>1. 1 \in 1 .. n /\ n \in 1 .. n /\ DOMAIN s = 1 .. n
    BY <1>17, <1>18
  <2>2. s[1] \in Places /\ s[n] \in Places
    BY <1>18, <2>1
  <2>3. s[1].score \in Nat /\ s[n].score \in Nat
    BY <2>2 DEF Places
  <2> QED BY <1>19, <2>3, Zenon
<1>22. r[1].score = a - 1
  <2>1. r[1].score = s[1].score - 1
    BY <1>18, Zenon DEF Moved
  <2> QED BY <1>21, <2>1
<1> USE <1>17, <1>18, <1>20
<1>1. n \in Nat /\ n # 1 /\ Len(r) = n /\ \A j \in 1 .. n : s[j] \in Places /\ r[j] \in Places
  <2>1. n \in Nat
    BY <1>17, <1>18
  <2>2. n # 1 /\ Len(r) = n
    BY <1>17, <1>18, <2>1 DEF Moved
  <2> QED BY <1>17, <1>18, <2>1, <2>2
<1>2. \A j \in 1 .. n : /\ s[j].score \in Nat /\ s[j].team \in Names /\ m[s[j].team] \in Nat
                        /\ r[j].score \in Nat /\ r[j].team \in Names
  BY <1>1 DEF Places
<1>3. ASSUME NEW v
      PROVE  (AtMost(e, v) <=> AtMost(k, v)) /\ (AtLeast(e, v) <=> AtLeast(k, v))
  BY DEF AtMost, AtLeast
<1>4. ASSUME NEW v \in Int, NEW w \in Int
      PROVE  /\ AtMost(k, v) /\ w <= v => AtMost(k, w)
             /\ AtLeast(k, v) /\ v <= w => AtLeast(k, w)
  BY BoundsOf
<1> DEFINE P(j, v, t, f) ==
             /\ AtMost(k, v) /\ AtLeast(k, v)
             /\ \/ f[t] = v
                \/ j # n /\ f[t] = v - 1 /\ AtLeast(k, v - 1)
                \/ j = n /\ f[t] = v + 1 /\ AtMost(k, v + 1)
<1>5. \A j \in 1 .. n : P(j, s[j].score, s[j].team, m)
  BY <1>1 DEF PlaceOK
<1>6. \A j, l \in 1 .. n : r[j].team = r[l].team => j = l
  <2>1. DOMAIN r = 1 .. n
    BY <1>1
  <2>2. \A j, l \in DOMAIN r : r[j].team = r[l].team => j = l
    BY Zenon DEF ListOK
  <2> QED BY <2>1, <2>2, Zenon
<1>7. 1 \in 1 .. n /\ n \in 1 .. n /\ \A j \in 1 .. n : r[j].team = r[n].team => j = n
  BY <1>1, <1>6
<1>8. r[1].team = s[1].team /\ \A j \in 1 .. n : r[j].team = r[1].team => j = 1
  BY <1>6, <1>7 DEF Moved
<1>9. ASSUME NEW j \in 1 .. n
      PROVE  /\ j = 1 => q[r[j].team] = m[r[j].team] - 1
             /\ j = n => q[r[j].team] = m[r[j].team] + 1
             /\ j # 1 /\ j # n => q[r[j].team] = m[r[j].team]
  <2>1. PICK t \in Names : t = r[j].team /\ (j = 1 <=> t = s[1].team) /\ (j = n <=> t = r[n].team)
    BY <1>2, <1>7, <1>8
  <2>2. q[t] = IF t = s[1].team THEN m[t] - 1 ELSE IF t = r[n].team THEN m[t] + 1 ELSE m[t]
    BY <2>1 DEF Given
  <2>3. j = n => j # 1
    BY <1>1
  <2> QED BY <2>1, <2>2, <2>3
<1>23. \A j \in 1 .. n : /\ j = 1 => q[r[j].team] = m[r[j].team] - 1
                         /\ j = n => q[r[j].team] = m[r[j].team] + 1
                         /\ j # 1 /\ j # n => q[r[j].team] = m[r[j].team]
  BY <1>9, Zenon
<1>10. \A j \in 1 .. n : m[r[j].team] \in Nat
  BY <1>2
<1>11. 1 \in 1 .. n /\ n \in 1 .. n /\ s[1].score \in Nat /\ s[n].score \in Nat /\ m[s[1].team] \in Nat
       /\ m[s[n].team] \in Nat
  BY <1>1, <1>2
<1>24. AtMost(k, a) /\ AtLeast(k, b)
  <2>1. a = s[1].score /\ b = s[n].score
    BY <1>21
  <2> QED BY <1>5, <1>7, <2>1, Zenon
<1>25. /\ AtMost(k, a - 1) /\ AtLeast(k, a - 1) /\ AtLeast(k, a - 2)
       /\ AtMost(k, b + 1) /\ AtLeast(k, b + 1) /\ AtMost(k, b + 2)
  <2>1. k \in BalanceCalls /\ a > b + 1
    BY <1>21, Zenon DEF Moves
  <2> QED BY <1>24, <2>1, BoundsBetween, Zenon
<1> HIDE DEF P
<1>12. P(1, r[1].score, r[1].team, q)
  <2>1. PICK x \in Nat : x = m[s[1].team]
    BY <1>11
  <2>2. q[r[1].team] = x - 1
    <3>1. q[r[1].team] = m[r[1].team] - 1
      BY <1>7, <1>23, Zenon
    <3>2. r[1].team = s[1].team
      BY <1>8, Zenon
    <3>3. m[r[1].team] = x
      BY <2>1, <3>2, Zenon
    <3> QED BY <3>1, <3>3, Zenon
  <2>3. x = a \/ x = a - 1
    <3>1. P(1, a, s[1].team, m)
      BY <1>5, <1>7, <1>21, Zenon
    <3> QED BY <1>1, <2>1, <3>1 DEF P
  <2>4. P(1, a - 1, r[1].team, q)
    <3>1. x - 1 = a - 1 \/ x - 1 = (a - 1) - 1
      BY <2>3
    <3>2. AtLeast(k, (a - 1) - 1)
      BY <1>25
    <3>3. 1 # n
      BY <1>1
    <3> QED BY <1>25, <2>2, <3>1, <3>2, <3>3, Zenon DEF P
  <2> QED BY <1>22, <2>4, Zenon
<1>13. ASSUME NEW j \in 2 .. i PROVE P(j, r[j].score, r[j].team, q)
  <2>1. r[j] = s[j] /\ j \in 1 .. n /\ j # n /\ j # 1
    BY <1>1 DEF Moved
  <2>2. q[r[j].team] = m[s[j].team]
    BY SMTT(30), <1>2, <1>9, <2>1
  <2> QED BY <1>5, <2>1, <2>2 DEF P
<1>14. P(i + 1, r[i + 1].score, r[i + 1].team, q)
  <2>1. PICK v \in Nat : v = s[n].score /\ r[i + 1].score = v + 1 /\ r[i + 1].team = s[n].team
    BY <1>11 DEF Moved
  <2>2. PICK x \in Nat : x = m[s[n].team]
    BY <1>11
  <2>3. AtMost(k, v) /\ AtLeast(k, v) /\ (x = v \/ x = v + 1)
    BY <1>5, <1>11, <2>1, <2>2 DEF P
  <2>4. AtMost(k, s[1].score)
    BY <1>5, <1>11 DEF P
  <2>5. AtMost(k, v + 1) /\ AtMost(k, v + 2) /\ AtLeast(k, v + 1)
    BY <1>21, <1>25, <2>1, Zenon
  <2>6. i + 1 \in 1 .. n /\ i + 1 # 1
    BY <1>1
  <2>7. IF i + 1 = n THEN q[r[i + 1].team] = x + 1 ELSE q[r[i + 1].team] = x
    BY SMTT(30), <1>9, <2>1, <2>2, <2>6
  <2>8. P(i + 1, v + 1, s[n].team, q)
    <3>1. (v + 1) - 1 = v /\ (v + 1) + 1 = v + 2
      OBVIOUS
    <3> QED BY <2>1, <2>3, <2>5, <2>7, <3>1 DEF P
  <2> QED BY <2>1, <2>8
<1>15. ASSUME NEW j \in i + 2 .. n PROVE P(j, r[j].score, r[j].team, q)
  <2>1. PICK l : l = j - 1 /\ l \in 1 .. n /\ l # n /\ l # 1 /\ j \in 1 .. n /\ j # 1
    BY <1>1
  <2>2. PICK v \in Nat : v = s[n].score /\ s[l].score = v /\ r[j] = s[l]
    BY <1>11, <2>1 DEF Moved
  <2>3. PICK x \in Nat : x = m[s[l].team]
    BY <1>2, <2>1
  <2>4. AtMost(k, v) /\ AtLeast(k, v) /\ (x = v \/ (x = v - 1 /\ AtLeast(k, v - 1)))
    BY <1>5, <2>1, <2>2, <2>3 DEF P
  <2>5. AtMost(k, s[1].score)
    BY <1>5, <1>11 DEF P
  <2>6. AtMost(k, v + 1)
    BY <1>21, <1>25, <2>2, Zenon
  <2>7. IF j = n THEN q[r[j].team] = x + 1 ELSE q[r[j].team] = x
    <3>1. m[r[j].team] = x
      BY <2>2, <2>3
    <3>2. j \in 1 .. n /\ j # 1
      BY <2>1
    <3> QED BY <1>9, <3>1, <3>2
  <2>8. P(j, v, s[l].team, q)
    <3>1. r[j].team = s[l].team
      BY <2>2
    <3>2. CASE x = v
      BY <2>4, <2>6, <2>7, <3>1, <3>2 DEF P
    <3>3. CASE x = v - 1 /\ AtLeast(k, v - 1)
      BY SMTT(30), <2>4, <2>6, <2>7, <3>1, <3>3 DEF P
    <3> QED BY <2>4, <3>2, <3>3
  <2> QED BY <2>2, <2>8
<1>16. ASSUME NEW j \in 1 .. n PROVE P(j, r[j].score, r[j].team, q)
  <2>1. j = 1 \/ j \in 2 .. i \/ j = i + 1 \/ j \in i + 2 .. n
    BY <1>1
  <2> QED BY <1>12, <1>13, <1>14, <1>15, <2>1
<1> QED
  <2>1. DOMAIN e.teams = 1 .. n /\ Len(e.teams) = n /\ e.teams = r
    BY <1>1
  <2>2. ASSUME NEW j \in 1 .. n, NEW v, NEW t, P(j, v, t, q)
        PROVE  /\ AtMost(e, v) /\ AtLeast(e, v)
               /\ \/ q[t] = v
                  \/ j # n /\ q[t] = v - 1 /\ AtLeast(e, v - 1)
                  \/ j = n /\ q[t] = v + 1 /\ AtMost(e, v + 1)
    BY <1>3, <2>2 DEF P
  <2>3. ASSUME NEW j \in 1 .. n
        PROVE  /\ AtMost(e, r[j].score) /\ AtLeast(e, r[j].score)
               /\ \/ q[r[j].team] = r[j].score
                  \/ j # n /\ q[r[j].team] = r[j].score - 1 /\ AtLeast(e, r[j].score - 1)
                  \/ j = n /\ q[r[j].team] = r[j].score + 1 /\ AtMost(e, r[j].score + 1)
    <3>1. PICK v, t : v = r[j].score /\ t = r[j].team
      OBVIOUS
    <3>2. P(j, v, t, q)
      BY <1>16, <3>1
    <3>3. /\ AtMost(e, v) /\ AtLeast(e, v)
          /\ \/ q[t] = v
             \/ j # n /\ q[t] = v - 1 /\ AtLeast(e, v - 1)
             \/ j = n /\ q[t] = v + 1 /\ AtMost(e, v + 1)
      BY SMTT(30), <2>2, <3>2
    <3> QED BY <3>1, <3>3
  <2> HIDE DEF P
  <2> QED BY <2>1, <2>3 DEF PlaceOK

\* The places that are listed are between the members before.
LEMMA PlacesBound ==
  ASSUME NEW k \in BalanceCalls, NEW m \in [Names -> Nat], PlaceOK(k, m), NEW i \in DOMAIN k.teams,
         NEW t, t = k.teams[i].team
  PROVE  AtMost(k, m[t]) /\ AtLeast(k, m[t])
<1>1. PICK s \in Seq(Places) : s = k.teams
  BY BalanceIs
<1>2. s[i] \in Places /\ i \in DOMAIN s
  BY <1>1
<1>3. PICK v \in Nat : v = s[i].score
  BY <1>2 DEF Places
<1>4. AtMost(k, v) /\ AtLeast(k, v)
      /\ \/ m[t] = v
         \/ m[t] = v - 1 /\ AtLeast(k, v - 1)
         \/ m[t] = v + 1 /\ AtMost(k, v + 1)
  BY <1>1, <1>3 DEF PlaceOK
<1>5. ASSUME NEW x \in Int, NEW w \in Int
      PROVE  /\ AtMost(k, x) /\ w <= x => AtMost(k, w)
             /\ AtLeast(k, x) /\ x <= w => AtLeast(k, w)
  BY BalanceIs, BoundsOf
<1>6. AtMost(k, v - 1) /\ AtLeast(k, v + 1)
  BY <1>4, <1>5
<1> QED BY <1>4, <1>6

\* In the call k, of members m and bots b, the team x gives a bot to y, which
\* makes the call e, the members q and the bots c of it.
Gives(k, m, b, s, n, x, g, r, y, l, e, c, q) ==
  /\ k \in BalanceCalls /\ m \in [Names -> Nat] /\ b \in [Names -> Nat]
  /\ BalanceOK(k, m, b) /\ \A t \in Names : b[t] <= m[t]
  /\ s \in Seq(Places) /\ s = k.teams /\ n \in Nat /\ n = Len(s) /\ Wide(s)
  /\ x \in Names /\ x = s[1].team /\ g \in [Names -> Nat] /\ g = k.left /\ g[x] > 0
  /\ r = Sides!Lifted(Sides!Scored(s)) /\ y = r[Len(r)].team
  /\ l = Less(g, x)
  /\ e.fun = "balanceteams" /\ e.teams = r /\ e.left = l /\ e.before = k.before /\ IsCall(e)
  /\ e.says \in [Names -> Names] /\ e.ofbots \in SUBSET Names
  /\ c = Given(b, x, y) /\ q = Given(m, x, y)

LEMMA OneGoes ==
  ASSUME NEW u \in Nat, NEW w \in Nat, NEW v \in Nat, NEW z \in Nat, v <= u, v + z = u + w,
         NEW f, NEW j, f = v - 1, j = z + 1
  PROVE  f <= u /\ f < u /\ f + j = u + w
OBVIOUS

LEMMA CallIn ==
  ASSUME NEW e, IsCall(e), e.teams \in Seq(Places), e.left \in [Names -> Nat], e.says \in [Names -> Names],
         e.ofbots \in SUBSET Names, e.before \in UNION {[D -> Nat] : D \in SUBSET Names}
  PROVE  e \in BalanceCalls
<1>1. PICK s \in Seq(Places), g \in [Names -> Nat], z \in [Names -> Names], o \in SUBSET Names,
           B \in UNION {[D -> Nat] : D \in SUBSET Names} : e = AsCall(s, g, z, o, B)
  BY Zenon DEF IsCall
<1> QED BY <1>1 DEF AsCall, BalanceCalls

LEMMA GiveKeeps ==
  ASSUME NEW k, NEW m, NEW b, NEW s, NEW n, NEW x, NEW g, NEW r, NEW y, NEW l, NEW e, NEW c, NEW q,
         Gives(k, m, b, s, n, x, g, r, y, l, e, c, q)
  PROVE  /\ BalanceOK(e, q, c) /\ x \in Names /\ y \in Names /\ x # y /\ c \in [Names -> Nat]
         /\ Cardinality(DOMAIN k.before) = 2 => Leads(e, q, x, y) /\ q[x] < k.before[x]
<1> SUFFICES
      ASSUME k \in BalanceCalls, m \in [Names -> Nat], b \in [Names -> Nat], BalanceOK(k, m, b),
             \A t \in Names : b[t] <= m[t], s \in Seq(Places), s = k.teams, n \in Nat, n = Len(s), Wide(s),
             x \in Names, x = s[1].team, g \in [Names -> Nat], g = k.left, g[x] > 0,
             r = Sides!Lifted(Sides!Scored(s)), y = r[Len(r)].team, l = Less(g, x),
             e.fun = "balanceteams", e.teams = r, e.left = l, e.before = k.before, IsCall(e),
             e.says \in [Names -> Names], e.ofbots \in SUBSET Names,
             c = Given(b, x, y), q = Given(m, x, y)
      PROVE  /\ BalanceOK(e, q, c) /\ x \in Names /\ y \in Names /\ x # y /\ c \in [Names -> Nat]
             /\ Cardinality(DOMAIN k.before) = 2 => Leads(e, q, x, y) /\ q[x] < k.before[x]
  BY Zenon DEF Gives
<1>0. PICK B : B = k.before
  OBVIOUS
<1> DEFINE K == DOMAIN B
<1>1. /\ k \in BalanceCalls /\ k.fun = "balanceteams" /\ s \in Seq(Places) /\ k.left \in [Names -> Nat]
      /\ B \in UNION {[D -> Nat] : D \in SUBSET Names}
      /\ ListOK(s, K) /\ PlaceOK(k, m) /\ K # {}
  BY <1>0, BalanceIs DEF BalanceOK
<1>2. n >= 2
  BY <1>1, WideIsLong
<1>3. r \in Seq(Places) /\ \E i \in 1 .. n - 1 : Moved(s, r, i)
  <2> HIDE DEF K
  <2> QED BY <1>1, <1>2, LiftIs DEF Wide
<1>4. PICK i \in 1 .. n - 1 : Moved(s, r, i)
  BY <1>3
<1>5. ListOK(r, K)
  <2> HIDE DEF K
  <2> QED BY <1>1, <1>2, <1>3, <1>4, MovedList DEF Wide
<1>6. Len(r) = n /\ y = r[n].team /\ x = r[1].team /\ s[1] \in Places /\ r[n] \in Places /\ r[1] \in Places
  BY SMTT(30), <1>1, <1>2, <1>3, <1>4 DEF Moved
<1>7. x \in Names /\ y \in Names /\ x # y
  <2>1. x \in Names /\ y \in Names
    BY <1>6 DEF Places
  <2>2. 1 \in DOMAIN r /\ n \in DOMAIN r /\ n # 1
    BY <1>2, <1>3, <1>6
  <2> QED BY <1>5, <1>6, <2>1, <2>2 DEF ListOK
<1>8. g[x] \in Nat /\ b[x] \in Nat /\ g[x] <= b[x]
  BY <1>1, <1>7 DEF BalanceOK
<1>9. c \in [Names -> Nat] /\ c[x] = b[x] - 1 /\ q \in [Names -> Nat]
  <2>1. \A t \in Names : b[t] \in Nat /\ m[t] \in Nat
    OBVIOUS
  <2>2. b[x] >= 1 /\ m[x] >= 1
    BY SMTT(30), <1>7, <1>8, <2>1
  <2>3. \A t \in Names : /\ (IF t = x THEN b[t] - 1 ELSE IF t = y THEN b[t] + 1 ELSE b[t]) \in Nat
                         /\ (IF t = x THEN m[t] - 1 ELSE IF t = y THEN m[t] + 1 ELSE m[t]) \in Nat
    <3> SUFFICES ASSUME NEW t \in Names
                 PROVE  /\ (IF t = x THEN b[t] - 1 ELSE IF t = y THEN b[t] + 1 ELSE b[t]) \in Nat
                        /\ (IF t = x THEN m[t] - 1 ELSE IF t = y THEN m[t] + 1 ELSE m[t]) \in Nat
      OBVIOUS
    <3>1. b[t] \in Nat /\ m[t] \in Nat
      BY <2>1
    <3>2. CASE t = x
      BY <2>2, <3>1, <3>2
    <3> QED BY <3>1, <3>2
  <2> QED BY <1>7, <2>3 DEF Given
<1>10. l \in [Names -> Nat] /\ \A t \in Names : l[t] = IF t = x THEN g[t] - 1 ELSE g[t]
  <2>1. \A t \in Names : g[t] \in Nat
    BY <1>1
  <2>2. ASSUME NEW t \in Names PROVE (IF t = x THEN g[t] - 1 ELSE g[t]) \in Nat
    <3>1. PICK v \in Nat : v = g[t]
      BY <2>1
    <3>2. t = x => v > 0
      BY <1>8, <3>1
    <3>3. t = x => v - 1 \in Nat
      BY <3>2
    <3> QED BY <3>1, <3>3
  <2>3. l = [t \in Names |-> IF t = x THEN g[t] - 1 ELSE g[t]]
    BY Zenon DEF Less
  <2> QED BY <2>2, <2>3, Zenon
<1>12. e \in BalanceCalls
  BY <1>0, <1>1, <1>3, <1>10, CallIn
<1>13. PlaceOK(e, q)
  <2>1. q = Given(m, k.teams[1].team, e.teams[Len(k.teams)].team)
    BY <1>6, Zenon
  <2>2. Moves(k, m, e, q, i)
    BY <1>0, <1>1, <1>2, <1>3, <1>4, <1>5, <2>1, Zenon DEF Moves
  <2> QED BY <2>2, MovedPlaces
<1>14. \A t \in Names : m[t] \in Nat
  OBVIOUS
<1>15. ASSUME NEW t \in K PROVE AtMost(e, q[t]) /\ AtLeast(e, q[t])
  <2>1. t \in Names
    BY <1>1
  <2>2. CASE t # x /\ t # y
    <3>1. q[t] = m[t]
      BY <2>1, <2>2 DEF Given
    <3>2. AtMost(k, m[t]) /\ AtLeast(k, m[t])
      BY <1>0 DEF BalanceOK
    <3> QED BY <3>1, <3>2 DEF AtMost, AtLeast
  <2>3. CASE t = x \/ t = y
    <3>1. PICK j \in DOMAIN r : t = r[j].team
      <4>1. 1 \in DOMAIN r /\ n \in DOMAIN r
        BY <1>2, <1>3, <1>6
      <4> QED BY <1>6, <2>3, <4>1
    <3>2. e.before = B /\ e.teams = r /\ PlaceOK(e, q)
      BY <1>0, <1>13
    <3> QED BY <1>9, <1>12, <3>1, <3>2, PlacesBound
  <2> QED BY <2>2, <2>3
<1>16. \A t \in Names : e.left[t] <= c[t]
  <2> SUFFICES ASSUME NEW t \in Names PROVE l[t] <= c[t]
    OBVIOUS
  <2>1. g[t] \in Nat /\ b[t] \in Nat /\ g[t] <= b[t]
    BY <1>1 DEF BalanceOK
  <2> QED BY SMTT(30), <1>7, <2>1 DEF Given, Less
<1>17. ASSUME Cardinality(K) = 2 PROVE TwoOK(e, q, c) /\ Leads(e, q, x, y) /\ q[x] < B[x]
  <2>1. PICK h, d \in K :
          /\ Leads(k, m, h, d)
          /\ b[h] = g[h]
          /\ \/ s = <<[team |-> h, score |-> m[h]], [team |-> d, score |-> m[d]]>>
             \/ Len(s) = 1 /\ b[h] = 0
    BY <1>0, <1>17, Zenon DEF BalanceOK, TwoOK
  <2>2. s = <<[team |-> h, score |-> m[h]], [team |-> d, score |-> m[d]]>>
    BY <2>1, WideIsLong, Zenon
  <2>3. n = 2 /\ i = 1 /\ s[1].team = h /\ s[1].score = m[h] /\ s[n].team = d /\ s[n].score = m[d]
    BY <1>2, <2>2
  <2>4. x = h /\ y = d /\ r[1].score = m[h] - 1 /\ r[2].score = m[d] + 1 /\ r[1].team = h /\ r[2].team = d
    BY <1>4, <1>6, <2>3 DEF Moved
  <2>5. r = <<[team |-> h, score |-> m[h] - 1], [team |-> d, score |-> m[d] + 1]>>
    <3>1. r[1] = [team |-> h, score |-> m[h] - 1] /\ r[2] = [team |-> d, score |-> m[d] + 1]
      BY <1>6, <2>3, <2>4 DEF Places
    <3>2. Len(r) = 2
      BY <1>6, <2>3
    <3> QED BY <1>3, <3>1, <3>2
  <2>6. h \in Names /\ d \in Names /\ m[h] \in Nat /\ m[d] \in Nat /\ m[h] > m[d] + 1
    BY <1>7, <1>14, <2>3, <2>4 DEF Wide
  <2>7. q[h] = m[h] - 1 /\ q[d] = m[d] + 1 /\ c[h] = l[h]
    BY SMTT(30), <1>9, <1>10, <2>1, <2>4, <2>6 DEF Given
  <2>8. q[d] <= q[h]
    BY SMTT(30), <2>6, <2>7
  <2>9. PICK u, w : u = B[h] /\ w = B[d] /\ u \in Nat /\ w \in Nat
    BY <1>1, <2>1
  <2>10. K = {h, d} /\ h # d /\ w <= u /\ m[h] <= u /\ m[h] + m[d] = u + w
    BY <1>0, <2>1, <2>9, Zenon DEF Leads
  <2>11. q[h] <= u /\ q[h] < u /\ q[h] + q[d] = u + w
    <3>1. /\ m[h] \in Nat /\ m[d] \in Nat /\ q[h] = m[h] - 1 /\ q[d] = m[d] + 1
          /\ m[h] <= u /\ m[h] + m[d] = u + w /\ u \in Nat /\ w \in Nat
      BY <2>6, <2>7, <2>9, <2>10, Zenon
    <3>2. PICK v, z, f, j : v = m[h] /\ z = m[d] /\ f = q[h] /\ j = q[d]
      OBVIOUS
    <3>3. v <= u /\ v + z = u + w /\ f = v - 1 /\ j = z + 1 /\ u \in Nat /\ w \in Nat /\ v \in Nat /\ z \in Nat
      BY <3>1, <3>2
    <3>4. f <= u /\ f < u /\ f + j = u + w
      BY <3>3, OneGoes
    <3> QED BY <3>2, <3>4, Zenon
  <2>12. Leads(e, q, h, d)
    BY <1>0, <2>8, <2>9, <2>10, <2>11, Zenon DEF Leads
  <2>13. TwoOK(e, q, c)
    BY <1>0, <2>1, <2>5, <2>7, <2>12 DEF TwoOK
  <2> QED BY <2>4, <2>9, <2>11, <2>12, <2>13, Zenon
<1> QED BY <1>0, <1>1, <1>5, <1>7, <1>9, <1>12, <1>13, <1>15, <1>16, <1>17 DEF BalanceOK

LEMMA TailIs ==
  ASSUME NEW s \in Seq(Places), NEW n \in Nat, n = Len(s), n >= 2, NEW r, r = Tail(s)
  PROVE  /\ r \in Seq(Places) /\ Len(r) = n - 1 /\ DOMAIN r = 1 .. n - 1
         /\ \A i \in 1 .. n - 1 : r[i] = s[i + 1] /\ i + 1 \in DOMAIN s
OBVIOUS

LEMMA TailList ==
  ASSUME NEW s \in Seq(Places), NEW n \in Nat, n = Len(s), n >= 2, NEW K, ListOK(s, K), NEW r, r = Tail(s)
  PROVE  ListOK(r, K)
<1>1. /\ r \in Seq(Places) /\ Len(r) = n - 1 /\ DOMAIN r = 1 .. n - 1
      /\ \A i \in 1 .. n - 1 : r[i] = s[i + 1] /\ i + 1 \in DOMAIN s
  BY TailIs
<1>2. /\ \A i \in DOMAIN s : s[i].team \in K
      /\ \A i, j \in DOMAIN s : s[i].team = s[j].team => i = j
      /\ \A i, j \in DOMAIN s : 2 <= i /\ i < j => s[i].score >= s[j].score
  BY Zenon DEF ListOK
<1>3. \A i \in DOMAIN r : r[i].team \in K
  BY <1>1, <1>2, Zenon
<1>4. ASSUME NEW i \in DOMAIN r, NEW j \in DOMAIN r, r[i].team = r[j].team PROVE i = j
  <2>1. i \in 1 .. n - 1 /\ j \in 1 .. n - 1
    BY <1>1
  <2>2. i + 1 = j + 1
    BY <1>1, <1>2, <1>4, <2>1, Zenon
  <2> QED BY <2>1, <2>2
<1>5. ASSUME NEW i \in DOMAIN r, NEW j \in DOMAIN r, i < j PROVE r[i].score >= r[j].score
  <2>1. i \in 1 .. n - 1 /\ j \in 1 .. n - 1
    BY <1>1
  <2>2. 2 <= i + 1 /\ i + 1 < j + 1
    BY <1>5, <2>1
  <2>3. s[i + 1].score >= s[j + 1].score
    BY <1>1, <1>2, <2>1, <2>2, Zenon
  <2> QED BY <1>1, <2>1, <2>3, Zenon
<1>6. r[1].score >= r[Len(r)].score
  <2>1. 1 \in DOMAIN r /\ n - 1 \in DOMAIN r
    BY <1>1
  <2>2. CASE n - 1 = 1
    <3>1. r[1] \in Places
      BY <1>1, <2>1
    <3>2. r[1].score \in Nat
      BY <3>1 DEF Places
    <3> QED BY <1>1, <2>2, <3>2
  <2>3. CASE 1 < n - 1
    BY <1>1, <1>5, <2>1, <2>3, Zenon
  <2> QED BY <2>2, <2>3
<1> QED BY <1>3, <1>4, <1>5, <1>6, Zenon DEF ListOK

LEMMA TailKeeps ==
  ASSUME NEW k \in BalanceCalls, NEW m \in [Names -> Nat], NEW b \in [Names -> Nat], BalanceOK(k, m, b),
         NEW s \in Seq(Places), s = k.teams, NEW n \in Nat, n = Len(s), Wide(s),
         NEW g \in [Names -> Nat], g = k.left, g[s[1].team] = 0,
         NEW r, r = Tail(s),
         NEW e, e.fun = "balanceteams", e.teams = r, e.left = g, e.before = k.before, IsCall(e),
         e.says \in [Names -> Names], e.ofbots \in SUBSET Names
  PROVE  BalanceOK(e, m, b)
<1>1. n >= 2
  BY WideIsLong
<1>2. /\ r \in Seq(Places) /\ Len(r) = n - 1 /\ DOMAIN r = 1 .. n - 1
      /\ \A i \in 1 .. n - 1 : r[i] = s[i + 1] /\ i + 1 \in DOMAIN s
  BY <1>1, TailIs
<1>3. /\ ListOK(s, DOMAIN k.before) /\ PlaceOK(k, m) /\ DOMAIN k.before # {}
      /\ \A t \in DOMAIN k.before : AtMost(k, m[t]) /\ AtLeast(k, m[t])
      /\ \A t \in Names : g[t] <= b[t]
      /\ Cardinality(DOMAIN k.before) = 2 => TwoOK(k, m, b)
  BY Zenon DEF BalanceOK
<1>4. ListOK(r, DOMAIN k.before)
  BY <1>1, <1>3, TailList, Zenon
<1>5. \A v : (AtMost(e, v) <=> AtMost(k, v)) /\ (AtLeast(e, v) <=> AtLeast(k, v))
  BY DEF AtMost, AtLeast
<1>6. e \in BalanceCalls
  BY <1>2, BalanceIs, CallIn
<1>7. PlaceOK(e, m)
  <2>1. e.teams = r /\ DOMAIN e.teams = 1 .. n - 1 /\ Len(e.teams) = n - 1
    BY <1>2, Zenon
  <2>2. ASSUME NEW i \in DOMAIN e.teams
        PROVE  LET v == e.teams[i].score
                   t == e.teams[i].team IN
               /\ AtMost(e, v) /\ AtLeast(e, v)
               /\ \/ m[t] = v
                  \/ i # Len(e.teams) /\ m[t] = v - 1 /\ AtLeast(e, v - 1)
                  \/ i = Len(e.teams) /\ m[t] = v + 1 /\ AtMost(e, v + 1)
    <3>1. PICK v, t : v = s[i + 1].score /\ t = s[i + 1].team
      OBVIOUS
    <3>2. i \in 1 .. n - 1
      BY <2>1, Zenon
    <3>3. i + 1 \in DOMAIN s /\ v = e.teams[i].score /\ t = e.teams[i].team
      BY <1>2, <2>1, <3>1, <3>2, Zenon
    <3>4. /\ AtMost(k, v) /\ AtLeast(k, v)
          /\ \/ m[t] = v
             \/ i + 1 # n /\ m[t] = v - 1 /\ AtLeast(k, v - 1)
             \/ i + 1 = n /\ m[t] = v + 1 /\ AtMost(k, v + 1)
      BY <1>3, <3>1, <3>3, Zenon DEF PlaceOK
    <3>5. i + 1 = n <=> i = n - 1
      BY SMTT(30), <1>1, <3>2
    <3>6. /\ AtMost(e, v) /\ AtLeast(e, v)
          /\ \/ m[t] = v
             \/ i # n - 1 /\ m[t] = v - 1 /\ AtLeast(e, v - 1)
             \/ i = n - 1 /\ m[t] = v + 1 /\ AtMost(e, v + 1)
      BY <1>5, <3>4, <3>5, Zenon
    <3> QED BY <2>1, <3>3, <3>6, Zenon
  <2> QED BY <2>2, Zenon DEF PlaceOK
<1>8. ASSUME Cardinality(DOMAIN k.before) = 2 PROVE TwoOK(e, m, b)
  <2>1. PICK h, l \in DOMAIN k.before :
          /\ Leads(k, m, h, l)
          /\ b[h] = g[h]
          /\ \/ s = <<[team |-> h, score |-> m[h]], [team |-> l, score |-> m[l]]>>
             \/ Len(s) = 1 /\ b[h] = 0
    BY <1>3, <1>8, Zenon DEF TwoOK
  <2>2. s = <<[team |-> h, score |-> m[h]], [team |-> l, score |-> m[l]]>>
    BY <2>1, WideIsLong, Zenon
  <2>3. Len(s) = 2 /\ s[1].team = h
    BY <2>2
  <2>4. Len(r) = 1 /\ b[h] = 0
    BY <1>2, <2>1, <2>3
  <2>5. Leads(e, m, h, l)
    BY <2>1, Zenon DEF Leads
  <2> QED BY <2>1, <2>4, <2>5, Zenon DEF TwoOK
<1> QED BY <1>3, <1>4, <1>5, <1>6, <1>7, <1>8, Zenon DEF BalanceOK

-----------------------------------------------------------------------------
(* calcteams() lists the teams with members, and the names the server gives. *)

\* What calcteams() knows of the teams P of sizes f
Ranked(s, P, f) ==
  /\ s \in Seq(Places)
  /\ \A i \in DOMAIN s : s[i].team \in P /\ s[i].score = f[s[i].team]
  /\ \A i, j \in DOMAIN s : s[i].team = s[j].team => i = j
  /\ \A i, j \in DOMAIN s : i < j => s[i].score >= s[j].score
  /\ P # {} => s # <<>>

LEMMA Arranged ==
  ASSUME NEW S, IsFiniteSet(S), NEW R,
         \A x, y \in S : <<x, y>> \in R \/ <<y, x>> \in R,
         \A x, y, z \in S : <<x, y>> \in R /\ <<y, z>> \in R => <<x, z>> \in R
  PROVE  \E s \in Sides!SetToSeqs(S) : \A i, j \in DOMAIN s : i < j => s[i] # s[j] /\ <<s[i], s[j]>> \in R
<1>1. PICK n : n = Cardinality(S) /\ n = Sides!Cardinality(S) /\ n \in Nat
  BY SameCardinality, FS_CardinalityType
<1>2. PICK s \in [1 .. n -> S] : \A i, j \in 1 .. n : i < j => s[i] # s[j] /\ <<s[i], s[j]>> \in R
  BY <1>1, Sorting
<1>3. ASSUME NEW i \in 1 .. n, NEW j \in 1 .. n, i # j PROVE s[i] # s[j]
  <2>1. i < j \/ j < i
    BY <1>1, <1>3
  <2> QED BY <1>2, <2>1, Zenon
<1>4. s \in Sides!SetToSeqs(S)
  BY <1>1, <1>2, <1>3, Zenon DEF Sides!SetToSeqs
<1>5. DOMAIN s = 1 .. n
  BY <1>2
<1> QED BY <1>2, <1>4, <1>5, Zenon

LEMMA PlacesOf ==
  ASSUME NEW P \in SUBSET Names, NEW f \in [Names -> Nat],
         NEW S, S = {[team |-> t, score |-> f[t]] : t \in P},
         NEW s \in Sides!SetToSeqs(S), IsFiniteSet(S),
         \A i, j \in DOMAIN s : i < j => s[i].score >= s[j].score
  PROVE  Ranked(s, P, f)
<1>1. PICK n : n = Cardinality(S) /\ n = Sides!Cardinality(S) /\ n \in Nat
  BY SameCardinality, FS_CardinalityType
<1>2. s \in [1 .. n -> S] /\ \A i, j \in 1 .. n : i # j => s[i] # s[j]
  BY <1>1, Zenon DEF Sides!SetToSeqs
<1>3. \A x \in S : x.team \in P /\ x.score = f[x.team] /\ x \in Places /\ x = [team |-> x.team, score |-> f[x.team]]
  BY DEF Places
<1>4. DOMAIN s = 1 .. n /\ s \in Seq(Places) /\ Len(s) = n
  <2>1. s \in [1 .. n -> Places]
    BY <1>2, <1>3
  <2>2. n \in Nat
    BY <1>1
  <2> QED BY <2>1, <2>2
<1>5. \A i \in DOMAIN s : s[i] \in S
  BY <1>2, <1>4
<1>6. \A i, j \in DOMAIN s : s[i].team = s[j].team => i = j
  <2> SUFFICES ASSUME NEW i \in DOMAIN s, NEW j \in DOMAIN s, s[i].team = s[j].team PROVE i = j
    OBVIOUS
  <2>1. s[i] = s[j]
    BY <1>3, <1>5, Zenon
  <2> QED BY <1>2, <1>4, <2>1, Zenon
<1>7. P # {} => s # <<>>
  <2>1. P # {} => S # {}
    OBVIOUS
  <2>2. S # {} => n # 0
    BY <1>1, FS_EmptySet
  <2>3. s = <<>> => n = 0
    <3>1. s = <<>> => Len(s) = 0
      OBVIOUS
    <3> QED BY <1>4, <3>1, Zenon
  <2> QED BY <2>1, <2>2, <2>3, Zenon
<1> QED BY <1>3, <1>4, <1>5, <1>6, <1>7, Zenon DEF Ranked

LEMMA BothLists ==
  ASSUME NEW X, NEW s \in Seq(X), NEW z \in Seq(X)
  PROVE  s \o z \in Seq(X) /\ Len(s \o z) = Len(s) + Len(z) /\ Len(s) \in Nat /\ Len(z) \in Nat
OBVIOUS

LEMMA RankedBoth ==
  ASSUME NEW P, NEW Q, P \cap Q = {}, NEW f, \A t \in P : f[t] \in Nat, \A t \in Q : f[t] = 0,
         NEW s, NEW z, Ranked(s, P, f), Ranked(z, Q, f), NEW r, r = s \o z
  PROVE  Ranked(r, P \cup Q, f)
<1>1. s \in Seq(Places) /\ z \in Seq(Places)
  BY DEF Ranked
<1>2. PICK n, k : n = Len(s) /\ k = Len(z) /\ n \in Nat /\ k \in Nat
  BY <1>1, BothLists, Zenon
<1>3. /\ r \in Seq(Places) /\ DOMAIN s = 1 .. n /\ DOMAIN z = 1 .. k /\ DOMAIN r = 1 .. n + k
      /\ \A i \in 1 .. n : r[i] = s[i]
      /\ \A i \in n + 1 .. n + k : r[i] = z[i - n] /\ i - n \in 1 .. k
  <2>1. r \in Seq(Places) /\ Len(r) = n + k
    BY <1>1, <1>2, BothLists, Zenon
  <2>2. DOMAIN s = 1 .. n /\ DOMAIN z = 1 .. k /\ DOMAIN r = 1 .. n + k
    BY <1>1, <1>2, <2>1
  <2>3. \A i \in 1 .. n : r[i] = s[i]
    BY <1>1, <1>2
  <2>4. ASSUME NEW i \in n + 1 .. n + k PROVE r[i] = z[i - n] /\ i - n \in 1 .. k
    <3>1. i \in Int /\ n < i /\ i <= n + k
      BY <1>2
    <3> QED BY <1>1, <1>2, <3>1
  <2> QED BY <2>1, <2>2, <2>3, <2>4
<1>4. \A i \in DOMAIN r : i \in 1 .. n \/ i \in n + 1 .. n + k
  <2>1. \A i \in 1 .. n + k : i \in 1 .. n \/ i \in n + 1 .. n + k
    BY <1>2
  <2> QED BY <1>3, <2>1, Zenon
<1>5. \A i \in 1 .. n : r[i].team \in P /\ r[i].score = f[r[i].team] /\ r[i].score \in Nat
  <2>1. \A i \in 1 .. n : s[i].team \in P /\ s[i].score = f[s[i].team]
    BY <1>3, Zenon DEF Ranked
  <2> QED BY <1>3, <2>1
<1>6. \A i \in n + 1 .. n + k : r[i].team \in Q /\ r[i].score = f[r[i].team] /\ r[i].score = 0
  <2>1. \A i \in 1 .. k : z[i].team \in Q /\ z[i].score = f[z[i].team]
    BY <1>3, Zenon DEF Ranked
  <2>2. ASSUME NEW i \in n + 1 .. n + k PROVE r[i].team \in Q /\ r[i].score = f[r[i].team] /\ r[i].score = 0
    <3>1. PICK l \in 1 .. k : r[i] = z[l]
      BY <1>3, Zenon
    <3> QED BY <2>1, <3>1, Zenon
  <2> QED BY <2>2, Zenon
<1>7. ASSUME NEW i \in DOMAIN r, NEW j \in DOMAIN r, r[i].team = r[j].team PROVE i = j
  <2>1. CASE i \in 1 .. n /\ j \in 1 .. n
    <3>1. s[i].team = s[j].team
      BY <1>3, <1>7, <2>1, Zenon
    <3> QED BY <1>3, <2>1, <3>1, Zenon DEF Ranked
  <2>2. CASE i \in n + 1 .. n + k /\ j \in n + 1 .. n + k
    <3>1. z[i - n].team = z[j - n].team /\ i - n \in DOMAIN z /\ j - n \in DOMAIN z
      BY <1>3, <1>7, <2>2, Zenon
    <3>2. i - n = j - n
      BY <3>1, Zenon DEF Ranked
    <3>3. i \in Int /\ j \in Int /\ n \in Int
      BY <1>2, <2>2
    <3> QED BY <3>2, <3>3
  <2>3. CASE i \in 1 .. n /\ j \in n + 1 .. n + k
    BY <1>5, <1>6, <1>7, <2>3
  <2>4. CASE j \in 1 .. n /\ i \in n + 1 .. n + k
    BY <1>5, <1>6, <1>7, <2>4
  <2> QED BY <1>4, <2>1, <2>2, <2>3, <2>4, Zenon
<1>8. ASSUME NEW i \in DOMAIN r, NEW j \in DOMAIN r, i < j PROVE r[i].score >= r[j].score
  <2>1. CASE i \in 1 .. n /\ j \in 1 .. n
    <3>1. s[i].score >= s[j].score
      BY <1>3, <1>8, <2>1, Zenon DEF Ranked
    <3> QED BY <1>3, <2>1, <3>1, Zenon
  <2>2. CASE j \in n + 1 .. n + k
    <3>1. r[i].score \in Nat /\ r[j].score = 0
      BY <1>4, <1>5, <1>6, <2>2
    <3> QED BY <3>1
  <2>3. ~(i \in n + 1 .. n + k /\ j \in 1 .. n)
    BY <1>2, <1>8
  <2> QED BY <1>4, <2>1, <2>2, <2>3, Zenon
<1>9. P \cup Q # {} => r # <<>>
  <2>1. P # {} => n # 0
    BY <1>1, <1>2 DEF Ranked
  <2>2. Q # {} => k # 0
    BY <1>1, <1>2 DEF Ranked
  <2>3. r = <<>> => n + k = 0
    BY <1>2, <1>3
  <2> QED BY <1>2, <2>1, <2>2, <2>3
<1> QED BY <1>3, <1>4, <1>5, <1>6, <1>7, <1>8, <1>9, Zenon DEF Ranked

LEMMA MembersAre ==
  ASSUME PeopleOK, BotsOK
  PROVE  /\ Membership \in [Names -> Nat]
         /\ \A t \in Names : bots[t] <= Membership[t] /\ Membership[t] = Sides!Members(t)
<1>1. ASSUME NEW t \in Names PROVE Sides!Humans(t) \in Nat
  <2>1. PICK S : S = {c \in Sides!Active : team[c] = t}
    OBVIOUS
  <2>2. S \subseteq Sides!clients
    BY <2>1 DEF Sides!Active
  <2>3. Cardinality(S) \in Nat
    BY <2>2, FS_Subset, FS_CardinalityType DEF PeopleOK
  <2> QED BY <2>1, <2>3, SameCardinality, Zenon DEF Sides!Humans
<1>2. ASSUME NEW t \in Names PROVE Sides!Members(t) \in Nat /\ bots[t] <= Sides!Members(t)
  BY <1>1, <1>2 DEF Sides!Members, BotsOK
<1> QED BY <1>2, Zenon DEF Membership

\* The places of the teams P of sizes f
Scores(P, f) == {[team |-> t, score |-> f[t]] : t \in P}

LEMMA CalcteamsAre ==
  LET present == {t \in Sides!Names : Sides!Members(t) > 0}
      scores == CHOOSE s \in Sides!SetToSeqs({[team |-> t, score |-> Sides!Members(t)] : t \in present}) :
                  \A i, j \in DOMAIN s : i < j => Sides!Larger(s[i], s[j])
      empty == CHOOSE s \in Sides!SetToSeqs({[team |-> t, score |-> 0] : t \in Sides!Defaults \ present}) :
                  \A i, j \in DOMAIN s : i < j => s[i].team > s[j].team
  IN  Sides!Calcteams = IF Len(scores) >= Sides!Cardinality(Sides!Defaults) THEN scores ELSE scores \o empty
BY Zenon DEF Sides!Calcteams, Sides!InOrder

LEMMA PlaceIs ==
  ASSUME NEW S \in SUBSET Places
  PROVE  /\ \A x \in S : x.score \in Nat /\ x.team \in Int
         /\ \A x, y \in S : x.team = y.team /\ x.score = y.score => x = y
<1>1. \A x \in S : x.score \in Nat /\ x.team \in Names /\ x = [team |-> x.team, score |-> x.score]
  BY DEF Places
<1>2. Names \subseteq Int
  BY NamesAssumption DEF Names, Sides!Names
<1> QED BY <1>1, <1>2

LEMMA ByScore ==
  ASSUME NEW S \in SUBSET Places, IsFiniteSet(S),
         NEW s, s = CHOOSE z \in Sides!SetToSeqs(S) :
                      \A i, j \in DOMAIN z : i < j => Sides!Larger(z[i], z[j])
  PROVE  s \in Sides!SetToSeqs(S) /\ \A i, j \in DOMAIN s : i < j => s[i].score >= s[j].score
<1> DEFINE R == {p \in S \X S : p[1] = p[2] \/ Sides!Larger(p[1], p[2])}
<1>1. \A x, y \in S : <<x, y>> \in R <=> x = y \/ Sides!Larger(x, y)
  OBVIOUS
<1> HIDE DEF R
<1>2. ASSUME NEW x \in S, NEW y \in S PROVE x = y \/ Sides!Larger(x, y) \/ Sides!Larger(y, x)
  <2>1. x.score \in Nat /\ y.score \in Nat /\ x.team \in Int /\ y.team \in Int
        /\ (x.team = y.team /\ x.score = y.score => x = y)
    BY PlaceIs
  <2> QED BY <2>1 DEF Sides!Larger
<1>3. ASSUME NEW x \in S, NEW y \in S, NEW z \in S, Sides!Larger(x, y), Sides!Larger(y, z)
      PROVE  Sides!Larger(x, z)
  <2>1. /\ x.score \in Nat /\ y.score \in Nat /\ x.team \in Int /\ y.team \in Int
        /\ z.score \in Nat /\ z.team \in Int
    BY PlaceIs
  <2> QED BY <1>3, <2>1 DEF Sides!Larger
<1>4. /\ \A x, y \in S : <<x, y>> \in R \/ <<y, x>> \in R
      /\ \A x, y, z \in S : <<x, y>> \in R /\ <<y, z>> \in R => <<x, z>> \in R
  BY <1>1, <1>2, <1>3, Zenon
<1>5. PICK z \in Sides!SetToSeqs(S) : \A i, j \in DOMAIN z : i < j => z[i] # z[j] /\ <<z[i], z[j]>> \in R
  BY <1>4, Arranged
<1>6. \A i \in DOMAIN z : z[i] \in S
  BY <1>5, Zenon DEF Sides!SetToSeqs
<1>7. \A i, j \in DOMAIN z : i < j => Sides!Larger(z[i], z[j])
  BY <1>1, <1>5, <1>6, Zenon
<1>8. s \in Sides!SetToSeqs(S) /\ \A i, j \in DOMAIN s : i < j => Sides!Larger(s[i], s[j])
  BY <1>5, <1>7, Zenon
<1>9. \A i \in DOMAIN s : s[i] \in S
  BY <1>8, Zenon DEF Sides!SetToSeqs
<1>10. \A x, y \in S : Sides!Larger(x, y) => x.score >= y.score
  BY PlaceIs DEF Sides!Larger
<1> QED BY <1>8, <1>9, <1>10, Zenon

LEMMA ByName ==
  ASSUME NEW S \in SUBSET Places, IsFiniteSet(S), \A x \in S : x.score = 0,
         NEW s, s = CHOOSE z \in Sides!SetToSeqs(S) :
                      \A i, j \in DOMAIN z : i < j => z[i].team > z[j].team
  PROVE  s \in Sides!SetToSeqs(S) /\ \A i, j \in DOMAIN s : i < j => s[i].score >= s[j].score
<1> DEFINE R == {p \in S \X S : p[1].team >= p[2].team}
<1>1. \A x, y \in S : <<x, y>> \in R <=> x.team >= y.team
  OBVIOUS
<1> HIDE DEF R
<1>2. \A x \in S : x.team \in Int
  BY PlaceIs
<1>3. /\ \A x, y \in S : <<x, y>> \in R \/ <<y, x>> \in R
      /\ \A x, y, z \in S : <<x, y>> \in R /\ <<y, z>> \in R => <<x, z>> \in R
  BY <1>1, <1>2
<1>4. PICK z \in Sides!SetToSeqs(S) : \A i, j \in DOMAIN z : i < j => z[i] # z[j] /\ <<z[i], z[j]>> \in R
  BY <1>3, Arranged
<1>5. \A i \in DOMAIN z : z[i] \in S
  BY <1>4, Zenon DEF Sides!SetToSeqs
<1>6. \A x, y \in S : x # y /\ <<x, y>> \in R => x.team > y.team
  <2> SUFFICES ASSUME NEW x \in S, NEW y \in S, x # y, x.team >= y.team PROVE x.team > y.team
    BY <1>1
  <2>1. x.team # y.team
    BY PlaceIs
  <2> QED BY <1>2, <2>1
<1>7. \A i, j \in DOMAIN z : i < j => z[i].team > z[j].team
  BY <1>4, <1>5, <1>6, Zenon
<1>8. s \in Sides!SetToSeqs(S)
  BY <1>4, <1>7, Zenon
<1>9. \A i \in DOMAIN s : s[i] \in S
  BY <1>8, Zenon DEF Sides!SetToSeqs
<1>10. ASSUME NEW i \in DOMAIN s, NEW j \in DOMAIN s PROVE s[i].score >= s[j].score
  <2>1. s[i].score = 0 /\ s[j].score = 0
    BY <1>9, Zenon
  <2> QED BY <2>1
<1> QED BY <1>8, <1>10, Zenon

LEMMA ScoresAre ==
  ASSUME NEW P \in SUBSET Names, NEW f \in [Names -> Nat], NEW S, S = Scores(P, f)
  PROVE  S \in SUBSET Places /\ IsFiniteSet(S)
<1>1. IsFiniteSet(P)
  <2>1. IsFiniteSet(Names)
    BY NamesAssumption, FS_Interval DEF Names, Sides!Names
  <2> QED BY <2>1, FS_Subset
<1>2. PICK g : g = [t \in P |-> [team |-> t, score |-> f[t]]]
  OBVIOUS
<1>3. S = {g[t] : t \in P}
  BY <1>2 DEF Scores
<1>4. IsFiniteSet({g[t] : t \in P})
  BY <1>1, FiniteImage
<1>5. IsFiniteSet(S)
  BY <1>3, <1>4, Zenon
<1> QED BY <1>5 DEF Scores, Places

LEMMA CalcteamsIs ==
  ASSUME PeopleOK, BotsOK, NEW s, s = Sides!Calcteams
  PROVE  \E P \in SUBSET Names : P # {} /\ Ranked(s, P, Membership)
<1> DEFINE present == {t \in Sides!Names : Sides!Members(t) > 0}
           missing == Sides!Defaults \ present
           taken == {[team |-> t, score |-> Sides!Members(t)] : t \in present}
           free == {[team |-> t, score |-> 0] : t \in missing}
           scores == CHOOSE z \in Sides!SetToSeqs(taken) : \A i, j \in DOMAIN z : i < j => Sides!Larger(z[i], z[j])
           empty == CHOOSE z \in Sides!SetToSeqs(free) : \A i, j \in DOMAIN z : i < j => z[i].team > z[j].team
<1>1. PICK f \in [Names -> Nat] : f = Membership
  BY MembersAre
<1>2. \A t \in Names : f[t] = Sides!Members(t)
  BY <1>1, MembersAre, Zenon
<1>3. present \in SUBSET Names /\ missing \in SUBSET Names /\ present \cap missing = {}
  <2>1. Sides!Defaults \subseteq Names
    BY NamesAssumption DEF Names, Sides!Names, Sides!Defaults, Sides!Good, Sides!Evil
  <2> QED BY <2>1 DEF Names
<1>4. ASSUME NEW t \in missing PROVE f[t] = 0
  <2>1. t \in Names /\ ~(Sides!Members(t) > 0)
    BY <1>3, <1>4 DEF Names
  <2>2. f[t] \in Nat /\ f[t] = Sides!Members(t)
    BY <1>2, <2>1
  <2> QED BY <2>1, <2>2
<1>5. taken = Scores(present, f) /\ free = Scores(missing, f)
  BY <1>2, <1>3, <1>4 DEF Scores
<1>6. s = IF Len(scores) >= Sides!Cardinality(Sides!Defaults) THEN scores ELSE scores \o empty
  BY CalcteamsAre, Zenon
<1> HIDE DEF present, missing
<1>7. taken \in SUBSET Places /\ IsFiniteSet(taken) /\ free \in SUBSET Places /\ IsFiniteSet(free)
  BY <1>3, <1>5, ScoresAre
<1>8. \A x \in free : x.score = 0
  OBVIOUS
<1> HIDE DEF taken, free
<1>9. Ranked(scores, present, f)
  <2>1. scores \in Sides!SetToSeqs(taken) /\ \A i, j \in DOMAIN scores : i < j => scores[i].score >= scores[j].score
    BY <1>7, ByScore, Zenon
  <2> HIDE DEF scores
  <2> QED BY <1>3, <1>5, <1>7, <2>1, PlacesOf DEF Scores
<1>10. Ranked(empty, missing, f)
  <2>1. empty \in Sides!SetToSeqs(free) /\ \A i, j \in DOMAIN empty : i < j => empty[i].score >= empty[j].score
    BY <1>7, <1>8, ByName, Zenon
  <2> HIDE DEF empty
  <2> QED BY <1>3, <1>5, <1>7, <2>1, PlacesOf DEF Scores
<1> HIDE DEF scores, empty
<1>11. Ranked(scores \o empty, present \cup missing, f)
  BY <1>3, <1>4, <1>9, <1>10, RankedBoth
<1>12. present \cup missing # {}
  BY DEF missing, Sides!Defaults
<1>13. CASE s = scores /\ present # {}
  BY <1>1, <1>3, <1>9, <1>13, Zenon
<1>14. CASE s = scores \o empty
  <2>1. present \cup missing \in SUBSET Names
    BY <1>3
  <2> QED BY <1>1, <1>11, <1>12, <1>14, <2>1, Zenon
<1>15. Len(scores) >= Sides!Cardinality(Sides!Defaults) => present # {}
  <2> SUFFICES ASSUME present = {} PROVE ~(Len(scores) >= Sides!Cardinality(Sides!Defaults))
    OBVIOUS
  <2>1. DOMAIN scores = {}
    BY <1>9 DEF Ranked
  <2>2. Len(scores) = 0
    BY <1>9, <2>1 DEF Ranked
  <2>3. Sides!Cardinality(Sides!Defaults) = 2
    <3>1. Sides!Defaults = {1} \cup {2} /\ 2 \notin {1}
      BY DEF Sides!Defaults, Sides!Good, Sides!Evil
    <3>2. IsFiniteSet({1}) /\ Cardinality({1}) = 1
      BY FS_Singleton
    <3>3. Cardinality({1} \cup {2}) = Cardinality({1}) + 1
      BY <3>1, <3>2, FS_AddElement
    <3> QED BY <3>1, <3>2, <3>3, SameCardinality
  <2> QED BY <2>2, <2>3
<1> QED BY <1>6, <1>13, <1>14, <1>15

-----------------------------------------------------------------------------
(* balanceteams() begins with that list, and ends even.                     *)

TeamsOf(s) == {s[i].team : i \in DOMAIN s}

Two(s, K) ==
  /\ Len(s) = 2 /\ s = <<s[1], s[2]>> /\ K = {s[1].team, s[2].team}
  /\ 1 \in DOMAIN s /\ 2 \in DOMAIN s /\ s[1] \in Places /\ s[2] \in Places

LEMMA TwoPlaces ==
  ASSUME NEW s, NEW P, NEW f, Ranked(s, P, f), NEW h, NEW l, h # l,
         NEW K, K = TeamsOf(s), K = {h, l}
  PROVE  Two(s, K)
<1>0. s \in Seq(Places) /\ \A i, j \in DOMAIN s : s[i].team = s[j].team => i = j
  BY Zenon DEF Ranked
<1>10. K = {s[i].team : i \in DOMAIN s}
  BY DEF TeamsOf
<1>1. PICK n : n = Len(s) /\ n \in Nat /\ DOMAIN s = 1 .. n
  BY <1>0
<1>2. \A i \in 1 .. n : s[i].team = h \/ s[i].team = l
  BY <1>1, <1>10
<1>3. PICK i, j : i \in 1 .. n /\ j \in 1 .. n /\ s[i].team = h /\ s[j].team = l
  BY <1>1, <1>10
<1>4. i # j /\ \A z \in 1 .. n : z = i \/ z = j
  <2>1. ASSUME NEW z \in 1 .. n PROVE z = i \/ z = j
    BY <1>0, <1>1, <1>2, <1>3, Zenon
  <2> QED BY <1>3, <2>1, Zenon
<1>5. n = 2
  <2>1. n >= 2
    BY <1>1, <1>3, <1>4
  <2>2. n < 3
    <3> SUFFICES ASSUME n >= 3 PROVE FALSE
      BY <1>1
    <3>1. 1 \in 1 .. n /\ 2 \in 1 .. n /\ 3 \in 1 .. n
      BY <1>1
    <3> QED BY <1>4, <3>1
  <2> QED BY <1>1, <2>1, <2>2
<1>6. Len(s) = 2
  BY <1>1, <1>5
<1>7. s = <<s[1], s[2]>>
  BY <1>0, <1>6
<1>8. K = {s[1].team, s[2].team}
  <2>1. 1 \in DOMAIN s /\ 2 \in DOMAIN s /\ \A z \in DOMAIN s : z = 1 \/ z = 2
    BY <1>1, <1>5
  <2>2. s[1].team \in K /\ s[2].team \in K /\ \A x \in K : x = s[1].team \/ x = s[2].team
    <3>1. s[1].team \in K /\ s[2].team \in K
      BY <1>10, <2>1
    <3>2. ASSUME NEW x \in K PROVE x = s[1].team \/ x = s[2].team
      <4>1. PICK z \in DOMAIN s : x = s[z].team
        BY <1>10
      <4> QED BY <2>1, <4>1, Zenon
    <3> QED BY <3>1, <3>2, Zenon
  <2> QED BY <2>2, Zenon
<1>9. 1 \in DOMAIN s /\ 2 \in DOMAIN s /\ s[1] \in Places /\ s[2] \in Places
  <2>1. 1 \in DOMAIN s /\ 2 \in DOMAIN s
    BY <1>1, <1>5
  <2> QED BY <1>0, <2>1
<1> QED BY <1>6, <1>7, <1>8, <1>9, Zenon DEF Two

LEMMA PairIs ==
  ASSUME NEW S, IsFiniteSet(S), Cardinality(S) = 2
  PROVE  \E u, v : S = {u, v} /\ u # v
<1>1. PICK u : u \in S
  BY FS_EmptySet
<1>2. Cardinality(S \ {u}) = Cardinality(S) - 1 /\ IsFiniteSet(S \ {u})
  BY <1>1, FS_RemoveElement
<1>3. Cardinality(S \ {u}) = 1
  BY <1>2
<1>4. PICK v : S \ {u} = {v}
  BY <1>2, <1>3, FS_Singleton
<1> QED BY <1>1, <1>4

LEMMA BalanceStarts ==
  ASSUME PeopleOK, BotsOK, NEW o \in Sides!OfBots, NEW k, k = Sides!Balance(Sides!Calcteams, o)
  PROVE  BalanceOK(k, Membership, bots) /\ ListsOK(k, bots) /\ Unbent(k)
<1>1. PICK s : s = Sides!Calcteams
  OBVIOUS
<1>2. PICK P \in SUBSET Names : P # {} /\ Ranked(s, P, Membership)
  BY <1>1, CalcteamsIs
<1>3. PICK m \in [Names -> Nat] : m = Membership /\ \A t \in Names : m[t] = Sides!Members(t)
  BY MembersAre
<1>4. /\ s \in Seq(Places) /\ s # <<>>
      /\ \A i \in DOMAIN s : s[i].team \in P /\ s[i].score = m[s[i].team]
      /\ \A i, j \in DOMAIN s : s[i].team = s[j].team => i = j
      /\ \A i, j \in DOMAIN s : i < j => s[i].score >= s[j].score
  BY <1>2, <1>3, Zenon DEF Ranked
<1>5. PICK K : K = {s[i].team : i \in DOMAIN s} /\ K = TeamsOf(s)
  BY DEF TeamsOf
<1>6. PICK B : B = [t \in K |-> Sides!Members(t)]
  OBVIOUS
<1>19. PICK z : z = [t \in Names |-> t]
  OBVIOUS
<1>7. k = AsCall(s, bots, z, o, B)
  BY <1>1, <1>5, <1>6, <1>19, Zenon DEF Sides!Balance, AsCall, Names
<1>8. K \in SUBSET Names /\ DOMAIN B = K /\ B \in [K -> Nat] /\ \A t \in K : B[t] = m[t] /\ m[t] \in Nat
  <2>1. K \in SUBSET Names
    BY <1>4, <1>5
  <2> QED BY <1>3, <1>6, <2>1
<1>9. PICK n \in Nat : n = Len(s) /\ n >= 1 /\ DOMAIN s = 1 .. n
  BY <1>4
<1>10. 1 \in DOMAIN s /\ n \in DOMAIN s
  BY <1>9
<1>20. z \in [Names -> Names] /\ o \in SUBSET Names /\ \A t \in Names : z[t] = t
  <2>1. o \in SUBSET Names
    BY Zenon DEF Sides!OfBots, Names
  <2> QED BY <1>19, <2>1
<1>11. /\ k.fun = "balanceteams" /\ k.teams = s /\ k.left = bots /\ k.before = B
       /\ k.says = z /\ k.ofbots = o
  BY <1>7, CallParts
<1>12. k \in BalanceCalls
  <2>1. bots \in [Names -> Nat] /\ B \in UNION {[D -> Nat] : D \in SUBSET Names}
    BY <1>8 DEF BotsOK
  <2>2. IsCall(k)
    BY <1>7, CallParts
  <2> QED BY <1>4, <1>11, <1>20, <2>1, <2>2, CallIn
<1>21. Unbent(k)
  BY <1>11, <1>20 DEF Unbent
<1>13. K # {}
  BY <1>5, <1>10
<1>14. ListOK(s, K)
  <2>1. \A i \in DOMAIN s : s[i].team \in K
    BY <1>5
  <2>2. s[1].score >= s[n].score
    <3>1. s[1].score \in Nat
      <4>1. s[1] \in Places
        BY <1>4, <1>10
      <4> QED BY <4>1 DEF Places
    <3>2. CASE n = 1
      BY <3>1, <3>2
    <3>3. CASE 1 < n
      BY <1>4, <1>10, <3>3, Zenon
    <3> QED BY <1>9, <3>2, <3>3
  <2> QED BY <1>4, <1>9, <2>1, <2>2, Zenon DEF ListOK
<1>15. ASSUME NEW t \in K PROVE AtMost(k, m[t]) /\ AtLeast(k, m[t])
  <2>1. t \in DOMAIN k.before /\ m[t] = k.before[t] /\ m[t] \in Nat
    BY <1>8, <1>11
  <2>2. m[t] <= k.before[t] /\ m[t] >= k.before[t]
    BY <2>1
  <2> QED BY <2>1, <2>2, Zenon DEF AtMost, AtLeast
<1>16. PlaceOK(k, m)
  <2>1. \A i \in DOMAIN k.teams : k.teams[i].team \in K /\ k.teams[i].score = m[k.teams[i].team]
    BY <1>4, <1>5, <1>11
  <2> QED BY <1>15, <2>1, Zenon DEF PlaceOK
<1>17. \A t \in Names : bots[t] <= bots[t]
  BY DEF BotsOK
<1>18. ASSUME Cardinality(K) = 2 PROVE TwoOK(k, m, bots)
  <2>1. PICK u, v : K = {u, v} /\ u # v
    <3>1. IsFiniteSet(K)
      <4>1. IsFiniteSet(Names)
        BY NamesAssumption, FS_Interval DEF Names, Sides!Names
      <4> QED BY <1>8, <4>1, FS_Subset
    <3> QED BY <1>18, <3>1, PairIs
  <2>2. Len(s) = 2 /\ s = <<s[1], s[2]>> /\ K = {s[1].team, s[2].team}
        /\ 1 \in DOMAIN s /\ 2 \in DOMAIN s /\ s[1] \in Places /\ s[2] \in Places
    <3>1. Two(s, K)
      BY <1>2, <1>5, <2>1, TwoPlaces, Zenon
    <3> QED BY <3>1, Zenon DEF Two
  <2>3. PICK h, l : h = s[1].team /\ l = s[2].team
    OBVIOUS
  <2>4. 1 \in DOMAIN s /\ 2 \in DOMAIN s /\ s[1] \in Places /\ s[2] \in Places
    BY <2>2, Zenon
  <2>5. s[1].score = m[h] /\ s[2].score = m[l] /\ h # l /\ h \in K /\ l \in K
    BY <1>4, <1>5, <2>3, <2>4
  <2>6. m[l] <= m[h]
    <3>1. s[1].score >= s[2].score
      BY <1>4, <2>4
    <3>2. m[h] \in Nat /\ m[l] \in Nat
      BY <1>8, <2>5
    <3> QED BY <2>5, <3>1, <3>2
  <2>7. s[1] = [team |-> h, score |-> m[h]] /\ s[2] = [team |-> l, score |-> m[l]]
    BY <2>3, <2>4, <2>5 DEF Places
  <2>8. s = <<[team |-> h, score |-> m[h]], [team |-> l, score |-> m[l]]>>
    BY <2>2, <2>7, Zenon
  <2>9. K = {h, l}
    BY <2>1, <2>2, <2>3
  <2>10. Leads(k, m, h, l)
    <3>1. PICK i, w : i = m[h] /\ w = m[l] /\ i \in Nat /\ w \in Nat /\ i = B[h] /\ w = B[l] /\ w <= i
      BY <1>8, <2>5, <2>6
    <3>2. i <= i /\ i + w = i + w
      BY <3>1
    <3> QED BY <1>8, <1>11, <2>5, <2>9, <3>1, <3>2, Zenon DEF Leads
  <2> QED BY <1>8, <1>11, <2>5, <2>8, <2>9, <2>10, Zenon DEF TwoOK
<1>22. BalanceOK(k, m, bots)
  BY <1>8, <1>11, <1>12, <1>13, <1>14, <1>15, <1>16, <1>17, <1>18, Zenon DEF BalanceOK
<1>23. ListsOK(k, bots)
  <2>1. \A t \in o : z[t] = t
    BY <1>20
  <2> QED BY <1>8, <1>11, <1>12, <1>13, <1>14, <1>17, <2>1, Zenon DEF ListsOK
<1> QED BY <1>3, <1>21, <1>22, <1>23, Zenon

\* S are the differences between the numbers f of two members of K.
Differ(S, f, K) ==
  /\ \A y \in S : \E t, u \in K : y = f[t] - f[u]
  /\ \A t, u \in K : f[t] - f[u] \in S

LEMMA DifferencesFinite ==
  ASSUME NEW K, IsFiniteSet(K), NEW f, NEW S, Differ(S, f, K)
  PROVE  IsFiniteSet(S)
<1> DEFINE g == [p \in K \X K |-> f[p[1]] - f[p[2]]]
<1>1. \A t, u \in K : <<t, u>> \in K \X K /\ g[<<t, u>>] = f[t] - f[u]
  OBVIOUS
<1> HIDE DEF g
<1>2. IsFiniteSet(K \X K)
  BY FS_Product
<1>3. IsFiniteSet({g[p] : p \in K \X K})
  BY <1>2, FiniteImage
<1>4. ASSUME NEW y \in S PROVE y \in {g[p] : p \in K \X K}
  <2>1. PICK t, u \in K : y = f[t] - f[u]
    BY Zenon DEF Differ
  <2>2. y = g[<<t, u>>] /\ <<t, u>> \in K \X K
    BY <1>1, <2>1, Zenon
  <2> QED BY <2>2, Zenon
<1> QED BY <1>3, <1>4, FS_Subset

LEMMA GreatestDifference ==
  ASSUME NEW K, IsFiniteSet(K), K # {}, NEW f, \A t \in K : f[t] \in Nat,
         NEW S, Differ(S, f, K), NEW x, x = Sides!Max(S)
  PROVE  (\A t, u \in K : f[t] - f[u] <= x) /\ x \in Int /\ \E t, u \in K : x = f[t] - f[u]
<1>1. IsFiniteSet(S)
  BY DifferencesFinite
<1>2. S # {}
  BY DEF Differ
<1>3. ASSUME NEW y \in S PROVE y \in Int
  <2>1. PICK t, u \in K : y = f[t] - f[u]
    BY Zenon DEF Differ
  <2>2. PICK a, b : a = f[t] /\ b = f[u] /\ a \in Nat /\ b \in Nat
    OBVIOUS
  <2> QED BY <2>1, <2>2
<1>4. x \in S /\ \A y \in S : y <= x
  BY <1>1, <1>2, <1>3, MaxIs
<1> QED BY <1>3, <1>4, Zenon DEF Differ

\* The largest difference between two teams of K
SpreadOf(f, K) == Sides!Max({f[t] - f[u] : t, u \in K})

LEMMA SpreadIs ==
  ASSUME NEW K, IsFiniteSet(K), K # {}, NEW f, \A t \in K : f[t] \in Nat,
         NEW x, x = SpreadOf(f, K)
  PROVE  (\A t, u \in K : f[t] - f[u] <= x) /\ x \in Int /\ \E t, u \in K : x = f[t] - f[u]
<1> DEFINE S == {f[t] - f[u] : t, u \in K}
<1>1. x = Sides!Max(S)
  BY DEF SpreadOf
<1>2. Differ(S, f, K)
  <2>1. \A y \in S : \E t, u \in K : y = f[t] - f[u]
    OBVIOUS
  <2>2. \A t, u \in K : f[t] - f[u] \in S
    OBVIOUS
  <2> HIDE DEF S
  <2> QED BY <2>1, <2>2, Zenon DEF Differ
<1> HIDE DEF S
<1> QED BY <1>1, <1>2, GreatestDifference

LEMMA SpreadFits ==
  ASSUME NEW k \in BalanceCalls, NEW K, K = DOMAIN k.before, K # {},
         NEW f, \A t \in K : f[t] \in Nat /\ AtMost(k, f[t]) /\ AtLeast(k, f[t])
  PROVE  SpreadOf(f, K) <= Sides!Max({1, SpreadOf(k.before, K)})
<1>1. PICK B : B = k.before
  OBVIOUS
<1>2. K \in SUBSET Names /\ \A t \in K : B[t] \in Nat
  <2>1. PICK D \in SUBSET Names : B \in [D -> Nat]
    <3>1. B \in UNION {[D -> Nat] : D \in SUBSET Names}
      BY <1>1, BalanceIs, Zenon
    <3> QED BY <3>1
  <2> QED BY <1>1, <2>1
<1>3. IsFiniteSet(K)
  <2>1. IsFiniteSet(Names)
    BY NamesAssumption, FS_Interval DEF Names, Sides!Names
  <2> QED BY <1>2, <2>1, FS_Subset
<1>4. PICK x : x = SpreadOf(f, K) /\ x \in Int /\ \E t, u \in K : x = f[t] - f[u]
  <2>1. \A z \in K : f[z] \in Nat
    OBVIOUS
  <2>2. PICK x : x = SpreadOf(f, K)
    OBVIOUS
  <2>3. (\A v, w \in K : f[v] - f[w] <= x) /\ x \in Int /\ \E v, w \in K : x = f[v] - f[w]
    BY <1>3, <2>1, <2>2, SpreadIs
  <2> QED BY <2>2, <2>3, Zenon
<1>40. PICK t \in K, u \in K : x = f[t] - f[u]
  BY <1>4, Zenon
<1>5. PICK y : y = SpreadOf(B, K) /\ y \in Int /\ \A v, w \in K : B[v] - B[w] <= y
  <2>1. \A z \in K : B[z] \in Nat
    BY <1>2
  <2>2. PICK y : y = SpreadOf(B, K)
    OBVIOUS
  <2>3. (\A v, w \in K : B[v] - B[w] <= y) /\ y \in Int /\ \E v, w \in K : y = B[v] - B[w]
    BY <1>3, <2>1, <2>2, SpreadIs
  <2> QED BY <2>2, <2>3, Zenon
<1>6. PICK v \in K, w \in K : f[t] <= B[v] /\ f[u] >= B[w]
  BY <1>1, <1>40, Zenon DEF AtMost, AtLeast
<1>7. x <= y
  <2>1. PICK a, b, c, d : a = f[t] /\ b = f[u] /\ c = B[v] /\ d = B[w]
    OBVIOUS
  <2>2. a \in Nat /\ b \in Nat /\ c \in Nat /\ d \in Nat
    BY <1>2, <1>40, <1>6, <2>1, Zenon
  <2>3. x = a - b /\ a <= c /\ b >= d /\ c - d <= y
    BY <1>40, <1>5, <1>6, <2>1, Zenon
  <2> QED BY <1>5, <2>2, <2>3
<1>8. PICK z : z = Sides!Max({1, y}) /\ z \in Int /\ y <= z
  <2>1. IsFiniteSet({1, y})
    <3>1. {1, y} = {1} \cup {y}
      OBVIOUS
    <3>2. IsFiniteSet({1}) /\ IsFiniteSet({y})
      BY FS_Singleton
    <3>3. IsFiniteSet({1} \cup {y})
      BY <3>2, FS_Union
    <3> QED BY <3>1, <3>3, Zenon
  <2>2. Sides!Max({1, y}) \in {1, y} /\ y <= Sides!Max({1, y})
    BY <1>5, <2>1, MaxIs
  <2> QED BY <1>5, <2>2
<1>9. x <= z
  BY <1>4, <1>5, <1>7, <1>8
<1> QED BY <1>1, <1>4, <1>5, <1>8, <1>9, Zenon

\* The condition of the loop
GoesOn(s, g) == s # <<>> /\ Head(s).score > s[Len(s)].score + 1 /\ Sides!SumFunction(g) > 0

LEMMA TwoAreEven ==
  ASSUME NEW k \in BalanceCalls, NEW m \in [Names -> Nat], NEW b \in [Names -> Nat],
         TwoOK(k, m, b), NEW s, s = k.teams, NEW g, g = k.left,
         ~GoesOn(s, g),
         NEW t \in DOMAIN k.before, NEW u \in DOMAIN k.before, b[t] > 0
  PROVE  m[t] <= m[u] + 1
<1>1. PICK h, l \in DOMAIN k.before :
        /\ Leads(k, m, h, l) /\ DOMAIN k.before = {h, l} /\ h # l
        /\ b[h] = g[h] /\ m[l] <= m[h]
        /\ \/ s = <<[team |-> h, score |-> m[h]], [team |-> l, score |-> m[l]]>>
           \/ Len(s) = 1 /\ b[h] = 0
  BY Zenon DEF TwoOK, Leads
<1>2. DOMAIN k.before \subseteq Names
  BY BalanceIs
<1>3. g \in [Names -> Nat] /\ IsFiniteSet(Names)
  <2>1. g \in [Names -> Nat]
    BY BalanceIs
  <2>2. IsFiniteSet(Names)
    BY NamesAssumption, FS_Interval DEF Names, Sides!Names
  <2> QED BY <2>1, <2>2
<1>4. Sides!SumFunction(g) \in Nat /\ g[h] <= Sides!SumFunction(g)
  BY <1>2, <1>3, SumBounds
<1>5. m[h] \in Nat /\ m[l] \in Nat /\ g[h] \in Nat /\ m[t] \in Nat /\ m[u] \in Nat
  BY <1>2, <1>3
<1>6. CASE t = h /\ u = l
  <2>1. s = <<[team |-> h, score |-> m[h]], [team |-> l, score |-> m[l]]>>
    BY <1>1, <1>6
  <2>2. s # <<>> /\ Head(s).score = m[h] /\ s[Len(s)].score = m[l]
    BY <2>1
  <2>3. g[h] > 0
    BY <1>1, <1>6
  <2>4. Sides!SumFunction(g) > 0
    BY <1>4, <1>5, <2>3
  <2>5. ~(m[h] > m[l] + 1)
    BY <2>2, <2>4, Zenon DEF GoesOn
  <2> QED BY <1>5, <1>6, <2>5
<1>7. CASE t = l /\ u = h
  BY <1>1, <1>5, <1>7
<1>8. CASE t = u
  BY <1>5, <1>8
<1>9. t \in {h, l} /\ u \in {h, l}
  BY <1>1, Zenon
<1> QED BY <1>6, <1>7, <1>8, <1>9

LEMMA EvenInTheEnd ==
  ASSUME PeopleOK, BotsOK, BalOK
  PROVE  Sides!BotsEvenTeams
<1> SUFFICES ASSUME Sides!Balanced PROVE Sides!BotsEvenTeams
  BY DEF Sides!BotsEvenTeams
<1>1. PICK k, K : k = call /\ K = DOMAIN k.before
  OBVIOUS
<1>2. PICK m \in [Names -> Nat] : m = Membership /\ \A t \in Names : m[t] = Sides!Members(t)
  BY MembersAre
<1>3. ListsOK(k, bots) /\ (Unbent(k) => BalanceOK(k, m, bots)) /\ (~Unbent(k) => BentOK(k, m)) /\ ~Sides!Uneven
  BY <1>1, <1>2, Zenon DEF Sides!Balanced, BalOK
<1>4. k \in BalanceCalls /\ K # {} /\ K \subseteq Names
  <2>1. k \in BalanceCalls /\ K # {}
    BY <1>1, <1>3, Zenon DEF ListsOK
  <2> QED BY <1>1, <2>1, BalanceIs
<1>11. Unbent(k) <=> Sides!Straight
  BY <1>1, Zenon DEF Unbent, Sides!Straight, Names
<1>5. ASSUME Unbent(k), Cardinality(K) = 2, NEW t \in K, NEW u \in K, bots[t] > 0
      PROVE  Sides!Members(t) <= Sides!Members(u) + 1
  <2>1. TwoOK(k, m, bots)
    BY <1>1, <1>3, <1>5, Zenon DEF BalanceOK
  <2>2. PICK s, g : s = k.teams /\ g = k.left
    OBVIOUS
  <2>3. ~GoesOn(s, g)
    BY <1>1, <1>3, <2>2, Zenon DEF Sides!Uneven, Sides!Last, GoesOn
  <2>4. m[t] <= m[u] + 1
    BY <1>1, <1>4, <1>5, <2>1, <2>2, <2>3, TwoAreEven DEF BotsOK
  <2> QED BY <1>2, <1>4, <2>4
<1>12. ASSUME Cardinality(K) = 2, NEW t \in K, NEW u \in K, k.before[t] > k.before[u] + 1
       PROVE  /\ Sides!Members(t) >= Sides!Members(u)
              /\ bots[t] > 0 => Sides!Members(t) < k.before[t]
  <2>1. PICK h, l \in K : Leads(k, m, h, l) /\ (~Unbent(k) => m[h] < k.before[h])
    <3>1. CASE Unbent(k)
      BY <1>1, <1>3, <1>12, <3>1, Zenon DEF BalanceOK, TwoOK
    <3>2. CASE ~Unbent(k)
      BY <1>1, <1>3, <1>12, <3>2, Zenon DEF BentOK
    <3> QED BY <3>1, <3>2
  <2>2. PICK B : B = k.before /\ \A x \in K : B[x] \in Nat /\ m[x] \in Nat /\ Sides!Members(x) = m[x]
    <3>1. k.before \in UNION {[D -> Nat] : D \in SUBSET Names}
      BY <1>4, BalanceIs
    <3>2. \A x \in K : k.before[x] \in Nat
      BY <1>1, <3>1
    <3> QED BY <1>2, <1>4, <3>2
  <2>3. /\ K = {h, l} /\ h # l /\ m[l] <= m[h] /\ B[l] <= B[h]
        /\ m[h] <= B[h] /\ m[h] + m[l] = B[h] + B[l]
    BY <1>1, <2>1, <2>2, Zenon DEF Leads
  <2>4. t = h /\ u = l
    <3>1. B[h] \in Nat /\ B[l] \in Nat /\ B[t] > B[u] + 1
      BY <1>12, <2>2
    <3>2. ~(B[l] > B[h] + 1) /\ ~(B[l] > B[l] + 1) /\ ~(B[h] > B[h] + 1)
      BY <2>3, <3>1
    <3>3. (t = h \/ t = l) /\ (u = h \/ u = l)
      BY <2>3, Zenon
    <3> QED BY <3>1, <3>2, <3>3, Zenon
  <2>5. ASSUME bots[h] > 0, Unbent(k) PROVE m[h] < B[h]
    <3>1. m[h] <= m[l] + 1
      BY <1>2, <1>4, <1>5, <1>12, <2>5, <2>2
    <3>2. B[h] > B[l] + 1
      BY <1>12, <2>2, <2>4
    <3>3. m[h] \in Nat /\ m[l] \in Nat /\ B[h] \in Nat /\ B[l] \in Nat
      BY <2>2
    <3> QED BY <2>3, <3>1, <3>2, <3>3
  <2>6. bots[h] > 0 => m[h] < B[h]
    BY <2>1, <2>2, <2>5, Zenon
  <2>7. m[h] >= m[l]
    BY <2>2, <2>3
  <2> QED BY <2>2, <2>4, <2>6, <2>7, Zenon
<1> DEFINE f == [t \in DOMAIN call.before |-> Sides!Members(t)]
<1>7. ASSUME Unbent(k) PROVE \A t \in K : f[t] \in Nat /\ AtMost(k, f[t]) /\ AtLeast(k, f[t])
  <2>1. \A t \in K : f[t] = m[t] /\ m[t] \in Nat
    BY <1>1, <1>2, <1>4
  <2> HIDE DEF f
  <2> QED BY <1>1, <1>3, <1>7, <2>1, Zenon DEF BalanceOK
<1>8. Unbent(k) => SpreadOf(f, K) <= Sides!Max({1, SpreadOf(k.before, K)})
  <2> HIDE DEF f
  <2> QED BY <1>1, <1>4, <1>7, SpreadFits
<1>9. Unbent(k) => SpreadOf(f, DOMAIN call.before) <= Sides!Max({1, SpreadOf(call.before, DOMAIN call.before)})
  <2> HIDE DEF f
  <2> QED BY <1>1, <1>8, Zenon
<1>10. Sides!Cardinality(DOMAIN call.before) = 2 =>
         \A t, u \in DOMAIN call.before :
           /\ Sides!Straight /\ bots[t] > 0 => Sides!Members(t) <= Sides!Members(u) + 1
           /\ call.before[t] > call.before[u] + 1 =>
                /\ Sides!Members(t) >= Sides!Members(u)
                /\ bots[t] > 0 => Sides!Members(t) < call.before[t]
  BY <1>1, <1>5, <1>11, <1>12, SameCardinality, Zenon
<1> QED BY <1>9, <1>10, <1>11 DEF SpreadOf, Sides!BotsEvenTeams

-----------------------------------------------------------------------------
(* Bots come, go and are moved.                                            *)

\* Who is in a team does not change while the bots do.
LEMMA HumansStay ==
  ASSUME PeopleOK, UNCHANGED <<team, watchers>>
  PROVE  \A t \in Names : /\ Sides!Humans(t)' = Sides!Humans(t) /\ Sides!Humans(t) \in Nat
                          /\ Sides!Members(t)' = Sides!Humans(t) + bots'[t]
                          /\ Sides!Members(t) = Sides!Humans(t) + bots[t]
<1>1. Sides!Active' = Sides!Active /\ Sides!Active \subseteq Sides!clients
  BY DEF Sides!Active, Sides!clients
<1>2. ASSUME NEW t PROVE Sides!Humans(t)' = Sides!Humans(t)
  BY <1>1 DEF Sides!Humans
<1>3. ASSUME NEW t PROVE Sides!Humans(t) \in Nat
  <2>1. PICK S : S = {c \in Sides!Active : team[c] = t}
    OBVIOUS
  <2>2. S \subseteq Sides!clients
    BY <1>1, <2>1
  <2>3. Cardinality(S) \in Nat
    BY <2>2, FS_Subset, FS_CardinalityType DEF PeopleOK
  <2> QED BY <2>1, <2>3, SameCardinality, Zenon DEF Sides!Humans
<1> QED BY <1>2, <1>3 DEF Sides!Members

\* A bot goes from x to y, which may be the same.
LEMMA BotGoes ==
  ASSUME NEW b \in [Names -> Nat], NEW x \in Names, NEW y \in Names, b[x] > 0,
         NEW c, c = [b EXCEPT ![x] = @ - 1, ![y] = @ + 1]
  PROVE  /\ c \in [Names -> Nat]
         /\ x # y => c = Given(b, x, y)
         /\ x = y => c = b
         /\ \A t \in Names : Less(b, x)[t] <= c[t]
<1>1. \A t \in Names : b[t] \in Nat
  OBVIOUS
<1>2. \A t \in Names : Less(b, x)[t] = IF t = x THEN b[t] - 1 ELSE b[t]
  BY DEF Less
<1>3. CASE x # y
  <2>1. c = [t \in Names |-> IF t = x THEN b[t] - 1 ELSE IF t = y THEN b[t] + 1 ELSE b[t]]
    BY <1>3
  <2>2. ASSUME NEW t \in Names PROVE c[t] \in Nat /\ Less(b, x)[t] <= c[t]
    <3>1. PICK v \in Nat : v = b[t] /\ (t = x => v > 0)
      BY <1>1
    <3>2. /\ c[t] = IF t = x THEN v - 1 ELSE IF t = y THEN v + 1 ELSE v
          /\ Less(b, x)[t] = IF t = x THEN v - 1 ELSE v
      BY <1>2, <2>1, <3>1
    <3> QED BY <3>1, <3>2
  <2>3. c \in [Names -> Nat]
    BY <2>1, <2>2
  <2> QED BY <1>3, <2>1, <2>2, <2>3, Zenon DEF Given
<1>4. CASE x = y
  <2>1. c = b
    BY <1>4
  <2>2. ASSUME NEW t \in Names PROVE Less(b, x)[t] <= c[t]
    <3>1. PICK v \in Nat : v = b[t]
      BY <1>1
    <3> QED BY <1>2, <2>1, <3>1
  <2> QED BY <1>4, <2>1, <2>2
<1> QED BY <1>3, <1>4

\* The local variables k, of bots b, after a bot went from x to y and, if it is
\* the one its place points to, took the name of the place with it.
BotGone(k, b, s, x, y, r, itself, e, c) ==
  /\ s \in Seq(Places) /\ s = k.teams /\ Wide(s)
  /\ x = k.says[s[1].team] /\ k.left[x] > 0
  /\ r = Sides!Lifted(Sides!Scored(s)) /\ y = k.says[r[Len(r)].team]
  /\ itself => x \in k.ofbots
  /\ e = AsCall(r, Less(k.left, x), IF itself THEN [k.says EXCEPT ![x] = y] ELSE k.says,
                IF itself THEN k.ofbots \ {x} ELSE k.ofbots, k.before)
  /\ c = [b EXCEPT ![x] = @ - 1, ![y] = @ + 1]

LEMMA ListsGo ==
  ASSUME NEW k, NEW b \in [Names -> Nat], ListsOK(k, b), NEW s, NEW x, NEW y, NEW r, NEW itself, NEW e, NEW c,
         BotGone(k, b, s, x, y, r, itself, e, c)
  PROVE  /\ ListsOK(e, c) /\ c \in [Names -> Nat] /\ x \in Names /\ y \in Names /\ b[x] > 0
         /\ IsCall(e) /\ e.fun = "balanceteams" /\ e.teams = r /\ e.left = Less(k.left, x)
         /\ e.before = k.before /\ e.says \in [Names -> Names] /\ e.ofbots \in SUBSET Names
         /\ e.says = (IF itself THEN [k.says EXCEPT ![x] = y] ELSE k.says)
         /\ itself => k.says[x] = x
         /\ ~Unbent(k) => ~Unbent(e)
         /\ s[1].team \in DOMAIN k.before /\ r[Len(r)].team \in DOMAIN k.before
<1> DEFINE K == DOMAIN k.before
<1>1. PICK g, z, o, B : g = k.left /\ z = k.says /\ o = k.ofbots /\ B = k.before
  OBVIOUS
<1>2. /\ k \in BalanceCalls /\ K # {} /\ ListOK(s, K) /\ \A t \in Names : g[t] <= b[t]
      /\ \A t \in o : z[t] = t
  BY <1>1, Zenon DEF ListsOK, BotGone
<1>3. /\ g \in [Names -> Nat] /\ z \in [Names -> Names] /\ o \in SUBSET Names
      /\ B \in UNION {[D -> Nat] : D \in SUBSET Names} /\ K \in SUBSET Names
  <2>1. /\ g \in [Names -> Nat] /\ z \in [Names -> Names] /\ o \in SUBSET Names
        /\ B \in UNION {[D -> Nat] : D \in SUBSET Names}
    BY <1>1, <1>2, BalanceIs, Zenon
  <2> QED BY <1>1, <2>1
<1>4. PICK n : n = Len(s) /\ n >= 2 /\ s \in Seq(Places) /\ Wide(s) /\ r = Sides!Lifted(Sides!Scored(s))
  BY WideIsLong, Zenon DEF BotGone
<1>5. r \in Seq(Places) /\ \E i \in 1 .. n - 1 : Moved(s, r, i)
  <2> HIDE DEF K
  <2> QED BY <1>2, <1>4, LiftIs DEF Wide
<1>6. PICK i \in 1 .. n - 1 : Moved(s, r, i)
  BY <1>5
<1>7. ListOK(r, K)
  <2> HIDE DEF K
  <2> QED BY <1>2, <1>4, <1>5, <1>6, MovedList DEF Wide
<1>8. Len(r) = n /\ 1 \in DOMAIN s /\ n \in DOMAIN r
  BY SMTT(30), <1>4, <1>5, <1>6 DEF Moved
<1>9. s[1].team \in K /\ r[n].team \in K
  BY <1>2, <1>7, <1>8, Zenon DEF ListOK
<1>10. x = z[s[1].team] /\ y = z[r[n].team] /\ x \in Names /\ y \in Names /\ g[x] > 0
  <2>1. x = z[s[1].team] /\ y = z[r[n].team] /\ g[x] > 0
    BY <1>1, <1>8, Zenon DEF BotGone
  <2> HIDE DEF K
  <2> QED BY <1>3, <1>9, <2>1
<1>11. b[x] > 0
  <2>1. g[x] \in Nat /\ b[x] \in Nat /\ g[x] <= b[x] /\ g[x] > 0
    BY <1>2, <1>3, <1>10
  <2> QED BY <2>1
<1>12. PICK l, z2, o2 : /\ l = Less(g, x) /\ z2 = (IF itself THEN [z EXCEPT ![x] = y] ELSE z)
                        /\ o2 = IF itself THEN o \ {x} ELSE o
  OBVIOUS
<1>13. e = AsCall(r, l, z2, o2, B) /\ c = [b EXCEPT ![x] = @ - 1, ![y] = @ + 1] /\ (itself => x \in o)
  BY <1>1, <1>12, Zenon DEF BotGone
<1>14. l \in [Names -> Nat] /\ \A t \in Names : l[t] <= Less(b, x)[t]
  <2>1. ASSUME NEW t \in Names PROVE (IF t = x THEN g[t] - 1 ELSE g[t]) \in Nat /\ l[t] <= Less(b, x)[t]
    <3>1. g[t] \in Nat /\ b[t] \in Nat /\ g[t] <= b[t]
      BY <1>2, <1>3
    <3>2. t = x => g[t] > 0
      BY <1>10
    <3>3. l[t] = (IF t = x THEN g[t] - 1 ELSE g[t]) /\ Less(b, x)[t] = IF t = x THEN b[t] - 1 ELSE b[t]
      BY <1>12 DEF Less
    <3> QED BY <3>1, <3>2, <3>3
  <2>2. l = [t \in Names |-> IF t = x THEN g[t] - 1 ELSE g[t]]
    BY <1>12, Zenon DEF Less
  <2> QED BY <2>1, <2>2, Zenon
<1>15. /\ c \in [Names -> Nat] /\ \A t \in Names : Less(b, x)[t] <= c[t]
  BY <1>10, <1>11, <1>13, BotGoes
<1>16. z2 \in [Names -> Names] /\ o2 \in SUBSET Names
  <2>1. CASE itself
    BY <1>3, <1>10, <1>12, <2>1
  <2>2. CASE ~itself
    BY <1>3, <1>12, <2>2
  <2> QED BY <2>1, <2>2
<1>17. /\ e.fun = "balanceteams" /\ IsCall(e) /\ e \in BalanceCalls
       /\ e.teams = r /\ e.left = l /\ e.says = z2 /\ e.ofbots = o2 /\ e.before = B
  <2>1. /\ e.fun = "balanceteams" /\ IsCall(e)
        /\ e.teams = r /\ e.left = l /\ e.says = z2 /\ e.ofbots = o2 /\ e.before = B
    BY <1>13, CallParts
  <2>2. e \in BalanceCalls
    BY <1>3, <1>5, <1>14, <1>16, <2>1, CallIn
  <2> QED BY <2>1, <2>2
<1>18. \A t \in Names : l[t] <= c[t]
  <2> SUFFICES ASSUME NEW t \in Names PROVE l[t] <= c[t]
    OBVIOUS
  <2>1. l[t] \in Nat /\ Less(b, x)[t] \in Int /\ c[t] \in Nat /\ l[t] <= Less(b, x)[t] /\ Less(b, x)[t] <= c[t]
    <3>1. Less(b, x)[t] \in Int
      BY DEF Less
    <3> QED BY <1>14, <1>15, <3>1
  <2> QED BY <2>1
<1>19. itself => z[x] = x
  BY <1>2, <1>13
<1>20. ASSUME NEW t \in o2 PROVE z2[t] = t
  <2>1. CASE itself
    <3>1. t \in o /\ t # x /\ z[t] = t /\ t \in Names
      BY <1>2, <1>3, <1>12, <1>20, <2>1
    <3> QED BY <1>3, <1>12, <2>1, <3>1
  <2>2. CASE ~itself
    BY <1>2, <1>12, <1>20, <2>2
  <2> QED BY <2>1, <2>2
<1>21. ListsOK(e, c)
  <2> HIDE DEF K
  <2>1. DOMAIN e.before = K
    BY <1>1, <1>17 DEF K
  <2> QED BY <1>2, <1>7, <1>17, <1>18, <1>20, <2>1, Zenon DEF ListsOK
<1>22. ASSUME ~Unbent(k) PROVE ~Unbent(e)
  <2>1. PICK t \in Names : z[t] # t
    BY <1>1, <1>22 DEF Unbent
  <2>2. CASE itself
    <3>1. t # x
      BY <1>19, <2>1, <2>2
    <3>2. z2[t] = z[t]
      BY <1>3, <1>12, <2>2, <3>1
    <3> QED BY <1>17, <2>1, <3>2 DEF Unbent
  <2>3. CASE ~itself
    BY <1>12, <1>17, <2>1, <2>3 DEF Unbent
  <2> QED BY <2>2, <2>3
<1> QED BY <1>1, <1>8, <1>9, <1>10, <1>11, <1>12, <1>15, <1>16, <1>17, <1>19, <1>21, <1>22, Zenon

\* What BalOK says of a call k, members m and bots b
CallFits(k, m, b) ==
  /\ ListsOK(k, b)
  /\ Unbent(k) => BalanceOK(k, m, b)
  /\ ~Unbent(k) => BentOK(k, m)

\* The members change as the bots do.
LEMMA CallGoes ==
  ASSUME NEW k, NEW m \in [Names -> Nat], NEW b \in [Names -> Nat], CallFits(k, m, b),
         \A t \in Names : b[t] <= m[t],
         NEW s, NEW x, NEW y, NEW r, NEW itself, NEW e, NEW c, BotGone(k, b, s, x, y, r, itself, e, c),
         NEW q, x # y => q = Given(m, x, y), x = y => q = m
  PROVE  CallFits(e, q, c)
<1>1. /\ ListsOK(e, c) /\ c \in [Names -> Nat] /\ x \in Names /\ y \in Names /\ b[x] > 0
      /\ IsCall(e) /\ e.fun = "balanceteams" /\ e.teams = r /\ e.left = Less(k.left, x)
      /\ e.before = k.before /\ e.says \in [Names -> Names] /\ e.ofbots \in SUBSET Names
      /\ e.says = (IF itself THEN [k.says EXCEPT ![x] = y] ELSE k.says)
      /\ itself => k.says[x] = x
      /\ ~Unbent(k) => ~Unbent(e)
      /\ s[1].team \in DOMAIN k.before /\ r[Len(r)].team \in DOMAIN k.before
  BY ListsGo, Zenon DEF CallFits
<1>2. /\ k \in BalanceCalls /\ s \in Seq(Places) /\ s = k.teams /\ Wide(s)
      /\ x = k.says[s[1].team] /\ k.left[x] > 0
      /\ r = Sides!Lifted(Sides!Scored(s)) /\ y = k.says[r[Len(r)].team]
      /\ c = [b EXCEPT ![x] = @ - 1, ![y] = @ + 1]
  BY Zenon DEF BotGone, CallFits, ListsOK
<1>3. DOMAIN k.before \in SUBSET Names /\ k.says \in [Names -> Names] /\ k.left \in [Names -> Nat]
  <2>1. /\ k.says \in [Names -> Names] /\ k.left \in [Names -> Nat]
        /\ k.before \in UNION {[D -> Nat] : D \in SUBSET Names}
    BY <1>2, BalanceIs, Zenon
  <2> QED BY <2>1
<1>4. CASE Unbent(k)
  <2>1. x = s[1].team /\ y = r[Len(r)].team
    <3>1. s[1].team \in Names /\ r[Len(r)].team \in Names
      BY <1>1, <1>3, Zenon
    <3>2. k.says[s[1].team] = s[1].team /\ k.says[r[Len(r)].team] = r[Len(r)].team
      BY <1>4, <3>1 DEF Unbent
    <3> QED BY <1>2, <3>2, Zenon
  <2>2. PICK n \in Nat : n = Len(s)
    <3>1. s \in Seq(Places)
      BY <1>2, Zenon
    <3> QED BY <3>1
  <2>3. PICK l, g : g = k.left /\ l = Less(g, x)
    OBVIOUS
  <2>4. PICK c2, q2 : c2 = Given(b, x, y) /\ q2 = Given(m, x, y)
    OBVIOUS
  <2>5. Gives(k, m, b, s, n, x, g, r, y, l, e, c2, q2)
    BY <1>1, <1>2, <1>3, <1>4, <2>1, <2>2, <2>3, <2>4, Zenon DEF Gives, CallFits
  <2>6. /\ BalanceOK(e, q2, c2) /\ x # y
        /\ Cardinality(DOMAIN k.before) = 2 => Leads(e, q2, x, y) /\ q2[x] < k.before[x]
    BY <2>5, GiveKeeps, Zenon
  <2>7. c = c2 /\ q = q2
    <3>1. c = [b EXCEPT ![x] = @ - 1, ![y] = @ + 1] /\ x \in Names /\ y \in Names /\ b[x] > 0
      BY <1>1, <1>2, Zenon
    <3>2. x # y => c = Given(b, x, y)
      BY <3>1, BotGoes
    <3> QED BY <2>4, <2>6, <3>2, Zenon
  <2>8. ASSUME ~Unbent(e) PROVE BentOK(e, q)
    <3>1. itself
      BY <1>1, <1>4, <2>8, Zenon DEF Unbent
    <3>2. e.says[x] = y /\ e.says[y] = y
      <4>1. k.says[y] = y
        BY <1>1, <1>4 DEF Unbent
      <4> QED BY <1>1, <1>3, <2>6, <3>1, <4>1
    <3>3. x \in DOMAIN e.before /\ y \in DOMAIN e.before
      BY <1>1, <2>1
    <3>4. Cardinality(DOMAIN e.before) = 2 => Leads(e, q, x, y) /\ q[x] < e.before[x]
      BY <1>1, <2>6, <2>7
    <3> QED BY <3>2, <3>3, <3>4, Zenon DEF BentOK
  <2> QED BY <1>1, <2>6, <2>7, <2>8, Zenon DEF CallFits
<1>5. CASE ~Unbent(k)
  <2>1. ASSUME Cardinality(DOMAIN k.before) = 2
        PROVE  \E h, l \in DOMAIN e.before : /\ Leads(e, q, h, l) /\ q[h] < e.before[h]
                                            /\ e.says[h] = l /\ e.says[l] = l
    <3>1. PICK h, l \in DOMAIN k.before :
            Leads(k, m, h, l) /\ m[h] < k.before[h] /\ k.says[h] = l /\ k.says[l] = l
      BY <1>5, <2>1, Zenon DEF CallFits, BentOK
    <3>2. DOMAIN k.before = {h, l}
      BY <3>1, Zenon DEF Leads
    <3>3. x = l /\ y = l
      <4>1. (s[1].team = h \/ s[1].team = l) /\ (r[Len(r)].team = h \/ r[Len(r)].team = l)
        BY <1>1, <3>2
      <4> QED BY <1>2, <3>1, <4>1, Zenon
    <3>4. q = m
      BY <3>3
    <3>5. e.says = k.says
      <4>1. l \in Names /\ k.says = [k.says EXCEPT ![l] = l]
        BY <1>3, <3>1
      <4> QED BY <1>1, <3>3, <4>1, Zenon
    <3>6. Leads(e, q, h, l)
      BY <1>1, <3>1, <3>4, Zenon DEF Leads
    <3> QED BY <1>1, <3>1, <3>4, <3>5, <3>6, Zenon
  <2>2. BentOK(e, q)
    BY <1>1, <2>1, Zenon DEF BentOK
  <2> QED BY <1>1, <1>5, <2>2, Zenon DEF CallFits
<1> QED BY <1>4, <1>5

\* The first place has no bot left and goes.
LEMMA CallShrinks ==
  ASSUME NEW k, NEW m \in [Names -> Nat], NEW b \in [Names -> Nat], CallFits(k, m, b),
         NEW s \in Seq(Places), s = k.teams, Wide(s), ~(k.left[k.says[s[1].team]] > 0),
         NEW e, e = AsCall(Tail(s), k.left, k.says, k.ofbots, k.before)
  PROVE  CallFits(e, m, b)
<1>1. k \in BalanceCalls /\ ListsOK(k, b) /\ ListOK(s, DOMAIN k.before) /\ DOMAIN k.before # {}
  BY Zenon DEF CallFits, ListsOK
<1>2. PICK g, z, o, B : g = k.left /\ z = k.says /\ o = k.ofbots /\ B = k.before
  OBVIOUS
<1>3. /\ g \in [Names -> Nat] /\ z \in [Names -> Names] /\ o \in SUBSET Names
      /\ B \in UNION {[D -> Nat] : D \in SUBSET Names}
  BY <1>1, <1>2, BalanceIs, Zenon
<1>4. PICK n, r : n = Len(s) /\ n \in Nat /\ r = Tail(s) /\ n >= 2
  <2>1. Len(s) \in Nat /\ Len(s) >= 2
    BY WideIsLong
  <2> QED BY <2>1
<1>5. r \in Seq(Places) /\ ListOK(r, DOMAIN k.before)
  BY <1>1, <1>4, TailIs, TailList
<1>6. /\ e.fun = "balanceteams" /\ IsCall(e) /\ e \in BalanceCalls
      /\ e.teams = r /\ e.left = g /\ e.says = z /\ e.ofbots = o /\ e.before = B
  <2>1. /\ e.fun = "balanceteams" /\ IsCall(e)
        /\ e.teams = r /\ e.left = g /\ e.says = z /\ e.ofbots = o /\ e.before = B
    BY <1>2, <1>4, CallParts
  <2>2. e \in BalanceCalls
    BY <1>3, <1>5, <2>1, CallIn
  <2> QED BY <2>1, <2>2
<1>7. ListsOK(e, b)
  BY <1>1, <1>2, <1>5, <1>6, Zenon DEF ListsOK
<1>8. Unbent(e) <=> Unbent(k)
  BY <1>2, <1>6 DEF Unbent
<1>9. ASSUME Unbent(k) PROVE BalanceOK(e, m, b)
  <2>1. s[1].team \in Names
    <3>1. s[1] \in Places
      BY <1>4
    <3> QED BY <3>1 DEF Places
  <2>2. k.says[s[1].team] = s[1].team
    BY <1>9, <2>1 DEF Unbent
  <2>3. g[s[1].team] = 0
    <3>1. g[s[1].team] \in Nat /\ ~(g[s[1].team] > 0)
      BY <1>2, <1>3, <2>1, <2>2
    <3> QED BY <3>1
  <2>4. BalanceOK(k, m, b)
    BY <1>9, Zenon DEF CallFits
  <2> QED BY <1>1, <1>2, <1>3, <1>4, <1>6, <2>3, <2>4, TailKeeps
<1>10. ASSUME ~Unbent(k) PROVE BentOK(e, m)
  <2>1. BentOK(k, m)
    BY <1>10, Zenon DEF CallFits
  <2>2. e.before = k.before /\ e.says = k.says
    BY <1>2, <1>6
  <2>3. \A h, l : Leads(k, m, h, l) => Leads(e, m, h, l)
    BY <2>2, Zenon DEF Leads
  <2> QED BY <2>1, <2>2, <2>3, Zenon DEF BentOK
<1> QED BY <1>7, <1>8, <1>9, <1>10, Zenon DEF CallFits

LEMMA ShiftKeeps ==
  ASSUME PeopleOK, BotsOK, CallOK, BalOK, Sides!Shift
  PROVE  BotsOK' /\ BalOK'
<1>1. PICK k, s, b, m, x, r, y :
        /\ k = call /\ s = k.teams /\ b = bots /\ m = Membership
        /\ x = k.says[Head(s).team] /\ r = Sides!Lifted(Sides!Scored(s)) /\ y = Sides!Goes(r)
  OBVIOUS
<1>2. CallFits(k, m, b) /\ k \in BalanceCalls /\ k.fun = "balanceteams" /\ IsCall(k)
  <2>1. call.fun = "balanceteams"
    BY Zenon DEF Sides!Shift
  <2> QED BY <1>1, <2>1, Zenon DEF BalOK, CallFits, ListsOK, CallOK
<1>3. /\ m \in [Names -> Nat] /\ b \in [Names -> Nat]
      /\ \A t \in Names : b[t] <= m[t]
  <2>1. Membership \in [Names -> Nat] /\ \A t \in Names : bots[t] <= Membership[t]
    BY MembersAre, Zenon
  <2> QED BY <1>1, <2>1, Zenon DEF BotsOK
<1>4. s \in Seq(Places) /\ k.left \in [Names -> Nat]
  BY <1>1, <1>2, BalanceIs, Zenon
<1>6. s # <<>> /\ Head(s).score > Sides!Last(s).score + 1
  BY <1>1, Zenon DEF Sides!Shift, Sides!Uneven
<1>7. Wide(s) /\ x = k.says[s[1].team]
  <2>1. Head(s) = s[1]
    BY <1>4, <1>6
  <2> QED BY <1>1, <1>6, <2>1, Zenon DEF Wide, Sides!Last
<1>8. UNCHANGED <<team, watchers>>
  BY Zenon DEF Sides!Shift
<1>9. CASE k.left[x] > 0
  <2>1. PICK itself \in Sides!IsPointedTo(x) :
          /\ bots' = [b EXCEPT ![x] = @ - 1, ![y] = @ + 1]
          /\ call' = [k EXCEPT !.teams = r, !.left = [k.left EXCEPT ![x] = @ - 1],
                       !.says = IF itself THEN [k.says EXCEPT ![x] = y] ELSE k.says,
                       !.ofbots = IF itself THEN k.ofbots \ {x} ELSE k.ofbots]
    BY <1>1, <1>9, Zenon DEF Sides!Shift
  <2>2. itself => x \in k.ofbots
    BY <1>1, <2>1, Zenon DEF Sides!IsPointedTo
  <2>3. PICK z, o : /\ z = (IF itself THEN [k.says EXCEPT ![x] = y] ELSE k.says)
                    /\ o = IF itself THEN k.ofbots \ {x} ELSE k.ofbots
    OBVIOUS
  <2>4. PICK e, c : e = call' /\ c = bots'
    OBVIOUS
  <2>5. e = AsCall(r, Less(k.left, x), z, o, k.before)
    <3>1. PICK l : l = [k.left EXCEPT ![x] = @ - 1]
      OBVIOUS
    <3>2. e = [k EXCEPT !.teams = r, !.left = l, !.says = z, !.ofbots = o]
      BY <2>1, <2>3, <2>4, <3>1, Zenon
    <3>3. e = AsCall(r, l, z, o, k.before)
      BY <1>2, <3>2, CallWith
    <3>4. l = Less(k.left, x)
      BY <1>4, <3>1 DEF Less
    <3> QED BY <3>3, <3>4, Zenon
  <2>6. y = k.says[r[Len(r)].team]
    BY <1>1, Zenon DEF Sides!Goes, Sides!Last
  <2>7. BotGone(k, b, s, x, y, r, itself, e, c)
    BY <1>1, <1>4, <1>7, <1>9, <2>1, <2>2, <2>3, <2>4, <2>5, <2>6, Zenon DEF BotGone
  <2>8. ListsOK(e, c) /\ c \in [Names -> Nat] /\ x \in Names /\ y \in Names /\ b[x] > 0
    BY <1>2, <1>3, <2>7, ListsGo, Zenon DEF CallFits
  <2>9. (x # y => c = Given(b, x, y)) /\ (x = y => c = b)
    <3>1. c = [b EXCEPT ![x] = @ - 1, ![y] = @ + 1]
      BY <2>1, <2>4, Zenon
    <3> QED BY <1>3, <2>8, <3>1, BotGoes
  <2>10. PICK q : q = Membership'
    OBVIOUS
  <2>11. ASSUME NEW t \in Names
         PROVE  \E h \in Nat : Sides!Members(t)' = h + c[t] /\ m[t] = h + b[t] /\ b[t] \in Nat
    <3>1. PICK h \in Nat : h = Sides!Humans(t) /\ Sides!Members(t)' = h + c[t] /\ Sides!Members(t) = h + b[t]
      BY <1>1, <1>8, <2>4, HumansStay
    <3>2. m[t] = h + b[t] /\ b[t] \in Nat
      BY <1>1, <1>3, <3>1 DEF Membership
    <3> QED BY <3>1, <3>2
  <2>12. q = [t \in Names |-> Sides!Members(t)']
    BY <2>10 DEF Membership, Names, Sides!Names
  <2>13. ASSUME x # y PROVE q = Given(m, x, y)
    <3>1. ASSUME NEW t \in Names
          PROVE  Sides!Members(t)' = IF t = x THEN m[t] - 1 ELSE IF t = y THEN m[t] + 1 ELSE m[t]
      <4>1. PICK h \in Nat : Sides!Members(t)' = h + c[t] /\ m[t] = h + b[t] /\ b[t] \in Nat
        BY <2>11
      <4>2. c[t] = IF t = x THEN b[t] - 1 ELSE IF t = y THEN b[t] + 1 ELSE b[t]
        BY <2>9, <2>13 DEF Given
      <4> QED BY <4>1, <4>2
    <3> QED BY <2>12, <3>1, Zenon DEF Given
  <2>14. ASSUME x = y PROVE q = m
    <3>1. \A t \in Names : Sides!Members(t)' = m[t]
      BY <2>9, <2>11, <2>14
    <3> QED BY <1>3, <2>12, <3>1
  <2>15. CallFits(e, q, c)
    BY <1>2, <1>3, <2>7, <2>13, <2>14, CallGoes
  <2>16. BotsOK'
    BY <2>4, <2>8 DEF BotsOK, Names, Sides!Names
  <2> QED BY <2>4, <2>10, <2>15, <2>16, Zenon DEF BalOK, CallFits
<1>10. CASE ~(k.left[x] > 0)
  <2>1. bots' = b /\ call' = [k EXCEPT !.teams = Tail(s)]
    BY <1>1, <1>10, Zenon DEF Sides!Shift
  <2>2. PICK e, z : e = call' /\ z = Tail(s) /\ e = [k EXCEPT !.teams = z]
    BY <2>1
  <2>3. e = AsCall(z, k.left, k.says, k.ofbots, k.before)
    BY <1>2, <2>2, TailWith
  <2>4. CallFits(e, m, b)
    BY <1>1, <1>2, <1>3, <1>4, <1>7, <1>10, <2>2, <2>3, CallShrinks
  <2>5. Membership' = m
    <3>1. \A t \in Names : Sides!Members(t)' = Sides!Members(t)
      BY <1>1, <1>8, <2>1, HumansStay
    <3> QED BY <1>1, <3>1 DEF Membership, Names, Sides!Names
  <2>6. BotsOK'
    BY <1>3, <2>1 DEF BotsOK, Names, Sides!Names
  <2> QED BY <1>1, <2>1, <2>2, <2>4, <2>5, <2>6, Zenon DEF BalOK, CallFits
<1> QED BY <1>9, <1>10

LEMMA FewerBots ==
  ASSUME NEW b \in [Names -> Nat], NEW t, b[t] > 0, NEW c, c = [b EXCEPT ![t] = @ - 1]
  PROVE  c \in [Names -> Nat]
<1>1. c = [x \in Names |-> IF x = t THEN b[x] - 1 ELSE b[x]]
  OBVIOUS
<1>2. ASSUME NEW x \in Names PROVE (IF x = t THEN b[x] - 1 ELSE b[x]) \in Nat
  <2>1. PICK v \in Nat : v = b[x]
    OBVIOUS
  <2>2. x = t => v - 1 \in Nat
    BY <2>1
  <2> QED BY <2>1, <2>2
<1> QED BY <1>1, <1>2, Zenon

LEMMA MoreBots ==
  ASSUME NEW b \in [Names -> Nat], NEW t, NEW c, c = [b EXCEPT ![t] = @ + 1]
  PROVE  c \in [Names -> Nat]
<1>1. c = [x \in Names |-> IF x = t THEN b[x] + 1 ELSE b[x]]
  OBVIOUS
<1>2. ASSUME NEW x \in Names PROVE (IF x = t THEN b[x] + 1 ELSE b[x]) \in Nat
  OBVIOUS
<1> QED BY <1>1, <1>2, Zenon

LEMMA NoBots == [t \in Names |-> 0] \in [Names -> Nat] /\ Sides!Names = Names
BY DEF Names

\* Between the calls only these change the number of bots of a team.
LEMMA StepKeepsBots ==
  ASSUME BotsOK, Sides!Step
  PROVE  BotsOK'
<1>1. ASSUME bots' = bots \/ bots' = [t \in Sides!Names |-> 0] PROVE BotsOK'
  <2>1. bots' \in [Names -> Nat]
    BY <1>1, NoBots DEF BotsOK
  <2> QED BY <2>1 DEF BotsOK, Names, Sides!Names
<1>2. ASSUME Sides!AddBot PROVE BotsOK'
  <2>1. PICK t : bots' = [bots EXCEPT ![t] = @ + 1]
    BY <1>2, Zenon DEF Sides!AddBot
  <2>2. bots' \in [Names -> Nat]
    <3>1. PICK b, c : b = bots /\ c = [b EXCEPT ![t] = @ + 1] /\ c = bots'
      BY <2>1
    <3> QED BY <3>1, MoreBots DEF BotsOK
  <2> QED BY <2>2 DEF BotsOK, Names, Sides!Names
<1>3. ASSUME NEW t, Sides!DelBot(t) PROVE BotsOK'
  <2>1. PICK b, c : b = bots /\ c = [b EXCEPT ![t] = @ - 1] /\ c = bots' /\ b[t] > 0
    BY <1>3 DEF Sides!DelBot
  <2>2. bots' \in [Names -> Nat]
    BY <2>1, FewerBots DEF BotsOK
  <2> QED BY <2>2 DEF BotsOK, Names, Sides!Names
<1>4. ASSUME NEW t, NEW u, Sides!SetBotTeam(t, u) PROVE BotsOK'
  <2>1. t # u /\ bots[t] > 0 /\ bots' = [bots EXCEPT ![t] = @ - 1, ![u] = @ + 1]
    BY <1>4, Zenon DEF Sides!SetBotTeam
  <2>2. PICK b, c : b = bots /\ c = [b EXCEPT ![t] = @ - 1] /\ b[t] > 0
    BY <2>1
  <2>3. b \in [Names -> Nat] /\ c \in [Names -> Nat]
    BY <2>2, FewerBots DEF BotsOK
  <2>4. PICK d : d = [c EXCEPT ![u] = @ + 1]
    OBVIOUS
  <2>5. d \in [Names -> Nat]
    BY <2>3, <2>4, MoreBots
  <2>6. bots' = d
    <3>1. bots' = [b EXCEPT ![t] = @ - 1, ![u] = @ + 1]
      BY <2>1, <2>2, Zenon
    <3>2. [b EXCEPT ![t] = @ - 1, ![u] = @ + 1] = d
      BY <2>1, <2>2, <2>3, <2>4
    <3> QED BY <3>1, <3>2, Zenon
  <2> QED BY <2>5, <2>6 DEF BotsOK, Names, Sides!Names
<1>5. ASSUME NEW c \in People,
             Sides!Connect(c) \/ Sides!Leave(c) \/ Sides!Spectate(c) \/ Sides!Unspectate(c)
             \/ \E t \in Sides!Names : Sides!Switch(c, t)
      PROVE  bots' = bots \/ bots' = [t \in Sides!Names |-> 0]
  BY <1>5, Zenon DEF Sides!Connect, Sides!Leave, Sides!Spectate, Sides!Unspectate, Sides!Switch
<1>6. ASSUME (\E next : Sides!ChangeMap(next)) \/ \E b : Sides!CheckAI(b)
      PROVE  bots' = bots \/ bots' = [t \in Sides!Names |-> 0]
  BY <1>6, Zenon DEF Sides!ChangeMap, Sides!CheckAI
<1> QED BY <1>1, <1>2, <1>3, <1>4, <1>5, <1>6, Zenon DEF Sides!Step

LEMMA BalanceKeeps ==
  ASSUME PeopleOK, AutoOK, CallOK, BotsOK, BalOK, Sides!Next
  PROVE  BotsOK' /\ BalOK'
<1>1. ASSUME bots' = bots PROVE BotsOK'
  BY <1>1 DEF BotsOK, Names, Sides!Names
<1>2. ASSUME call'.fun # "balanceteams" PROVE BalOK'
  BY <1>2, Zenon DEF BalOK
<1>3. ASSUME call' = Sides!Idle PROVE BalOK'
  BY <1>2, <1>3 DEF Sides!Idle
<1>4. ASSUME call = Sides!Idle, Sides!Step PROVE BotsOK' /\ BalOK'
  <2>1. BotsOK'
    BY <1>4, StepKeepsBots
  <2>2. \/ call' = call
        \/ \E next : Sides!ChangeMap(next)
        \/ \E b : Sides!CheckAI(b)
    BY <1>4, Zenon DEF Sides!Step, Sides!Connect, Sides!Leave, Sides!Spectate, Sides!Unspectate, Sides!Switch,
       Sides!AddBot, Sides!DelBot, Sides!SetBotTeam
  <2>3. ASSUME NEW next, Sides!ChangeMap(next) PROVE BalOK'
    <3>1. PICK rank, hides : call' = Sides!Autoteam(rank, hides)
      BY <2>3, Zenon DEF Sides!ChangeMap
    <3> QED BY <1>2, <3>1 DEF Sides!Autoteam
  <2>4. ASSUME NEW b, Sides!CheckAI(b) PROVE BalOK'
    <3>1. \/ call' = Sides!Idle
          \/ bots' = bots /\ \E o \in Sides!OfBots : call' = Sides!Balance(Sides!Calcteams, o)
      BY <2>4, Zenon DEF Sides!CheckAI
    <3>2. ASSUME bots' = bots, NEW o \in Sides!OfBots, call' = Sides!Balance(Sides!Calcteams, o) PROVE BalOK'
      <4>1. UNCHANGED <<team, watchers>>
        BY <2>4 DEF Sides!CheckAI
      <4>2. BalanceOK(call', Membership, bots) /\ ListsOK(call', bots) /\ Unbent(call')
        BY <3>2, BalanceStarts
      <4>3. Membership' = Membership
        <5>1. \A t \in Names : Sides!Members(t)' = Sides!Members(t)
          BY <3>2, <4>1, HumansStay
        <5> QED BY <5>1 DEF Membership, Names, Sides!Names
      <4> QED BY <3>2, <4>2, <4>3 DEF BalOK
    <3> QED BY <1>3, <3>1, <3>2
  <2> QED BY <1>3, <1>4, <2>1, <2>2, <2>3, <2>4, Zenon
<1>5. ASSUME Sides!Pick \/ Sides!NextRound PROVE BotsOK' /\ BalOK'
  <2>1. call.fun = "autoteam" /\ bots' = bots
    BY <1>5, Zenon DEF Sides!Pick, Sides!NextRound, Sides!RoundOver
  <2>2. call'.fun = "autoteam"
    BY <1>5, PickKeeps, NextRoundKeeps
  <2> QED BY <1>1, <1>2, <2>1, <2>2
<1>6. ASSUME Sides!EndAutoteam \/ Sides!EndBalance PROVE BotsOK' /\ BalOK'
  <2>1. call' = Sides!Idle /\ bots' = bots
    BY <1>6, Zenon DEF Sides!EndAutoteam, Sides!EndBalance
  <2> QED BY <1>1, <1>3, <2>1, Zenon
<1> QED BY <1>4, <1>5, <1>6, ShiftKeeps, Zenon DEF Sides!Next

-----------------------------------------------------------------------------
(* The sum MCLobby.                                                        *)

LEMMA LobbyStarts ==
  ASSUME LobbyInit
  PROVE  SidesInv
<1>1. Sides!Init
  BY DEF LobbyInit, SidesRest
<1>2. call = [fun |-> "none"] /\ team = <<>> /\ watchers = {}
  BY <1>1 DEF Sides!Init, Sides!Idle
<1>3. PeopleOK
  <2>1. <<>> \in [{} -> Names] /\ DOMAIN <<>> = {}
    OBVIOUS
  <2>2. Sides!clients = {}
    BY <1>2, <2>1 DEF Sides!clients
  <2> QED BY <1>2, <2>1, <2>2, FS_EmptySet DEF PeopleOK
<1>4. BotsOK
  BY <1>1, NoBots DEF BotsOK, Sides!Init
<1> QED BY <1>2, <1>3, <1>4 DEF SidesInv, AutoOK, CallOK, BalOK

LEMMA LobbyKeeps ==
  ASSUME SidesInv, [LobbyNext]_<<part, vars, loopVars, teamVars>>
  PROVE  SidesInv'
<1>1. CASE Sides!Next
  BY <1>1, PeopleKeep, CallKeeps, BalanceKeeps, Zenon DEF SidesInv
<1>2. CASE UNCHANGED teamVars
  <2>1. call' = call /\ UNCHANGED <<team, watchers, mode>>
    BY <1>2 DEF teamVars
  <2>2. Sides!clients' = Sides!clients /\ Sides!Active' = Sides!Active
    BY <2>1 DEF Sides!clients, Sides!Active
  <2>3. PeopleOK'
    BY <2>1, <2>2 DEF SidesInv, PeopleOK
  <2>4. CallOK'
    BY <2>1, Zenon DEF SidesInv, CallOK
  <2>5. ASSUME call'.fun = "autoteam"
        PROVE  /\ call' \in AutoCalls(Sides!clients') /\ RanksOK(call', Sides!clients', Sides!Active')
               /\ call'.hides => HiddenOK(call', Sides!Active')
               /\ ~call'.hides => RankedOK(call', Sides!clients')
    <3>1. call.fun = "autoteam"
      BY <2>1, <2>5
    <3> QED BY <2>1, <2>2, <3>1 DEF SidesInv, AutoOK
  <2>6. AutoOK'
    BY <2>5 DEF AutoOK, HiddenOK, RankedOK, RanksOK, AutoCalls, Playing, In
  <2>7. bots' = bots /\ UNCHANGED <<team, watchers>>
    BY <1>2 DEF teamVars
  <2>8. BotsOK'
    BY <2>7 DEF SidesInv, BotsOK, Names, Sides!Names
  <2>9. Membership' = Membership
    <3>1. \A t \in Names : Sides!Members(t)' = Sides!Members(t)
      BY <2>7, HumansStay DEF SidesInv
    <3> QED BY <3>1 DEF Membership, Names, Sides!Names
  <2>10. BalOK'
    BY <2>1, <2>7, <2>9, Zenon DEF SidesInv, BalOK
  <2> QED BY <2>3, <2>4, <2>6, <2>8, <2>10, Zenon DEF SidesInv
<1> QED BY <1>1, <1>2 DEF LobbyNext

\* When autoteam() is done, if the mode that ends hid frags, everybody is in a
\* team and the two teams' numbers of players differ by one at most; otherwise
\* nobody with a rank above 0 is left and the sums of ranks differ by no more
\* than the best player's.
THEOREM AutoteamLeavesFairTeams == LobbySpec => []AutoteamIsFair
<1>1. LobbyInit => SidesInv
  BY LobbyStarts
<1>2. SidesInv /\ [LobbyNext]_<<part, vars, loopVars, teamVars>> => SidesInv'
  BY LobbyKeeps
<1>3. SidesInv => AutoteamIsFair
  BY FairInTheEnd DEF SidesInv
<1> QED BY <1>1, <1>2, <1>3, PTL DEF LobbySpec

\* When balanceteams() is done and no place of its list was renamed on the way,
\* with two teams no bot is in one that is larger than the other by two or
\* more; with more teams the difference between the largest and the smallest
\* has not grown beyond what it was before, or one.  Renamed or not, the larger
\* of two uneven teams has given a bot if it had one and is not the smaller now.
THEOREM BalanceLeavesEvenTeams == LobbySpec => []BotsEvenTeams
<1>1. LobbyInit => SidesInv
  BY LobbyStarts
<1>2. SidesInv /\ [LobbyNext]_<<part, vars, loopVars, teamVars>> => SidesInv'
  BY LobbyKeeps
<1>3. SidesInv => BotsEvenTeams
  BY EvenInTheEnd DEF SidesInv, BotsEvenTeams
<1> QED BY <1>1, <1>2, <1>3, PTL DEF LobbySpec

-----------------------------------------------------------------------------
(* The tables of the bots, when bots are given away.                       *)

BotIds == Loops!BotIds
Owners == Loops!Owners

Fleets == [bots: SUBSET BotIds, owner: [BotIds -> Owners], listed: [LoopSlots -> SUBSET BotIds],
           taken: SUBSET BotIds, reinit: SUBSET BotIds, told: [BotIds -> Owners], dorefresh: BOOLEAN]

\* What shiftai() makes of the tables a when it gives every bot b of f to f[b]
Becomes(d, a, f) ==
  /\ d \in Fleets
  /\ d.bots = a.bots /\ d.told = a.told /\ d.taken = a.taken
  /\ d.owner = [b \in BotIds |-> IF b \in DOMAIN f THEN f[b] ELSE a.owner[b]]
  /\ d.listed = [c \in LoopSlots |-> (a.listed[c] \ DOMAIN f) \cup {b \in DOMAIN f : f[b] = c}]
  /\ d.reinit = (a.reinit \ DOMAIN f) \cup {b \in DOMAIN f : f[b] # NoSlot}
  /\ d.dorefresh = (a.dorefresh \/ DOMAIN f # {})

LEMMA ShiftedIs ==
  ASSUME NEW a \in Fleets, NEW f, DOMAIN f \subseteq BotIds,
         \A b \in DOMAIN f : f[b] \in Owners,
         NEW d, d = Loops!Shifted(a, f)
  PROVE  Becomes(d, a, f)
BY DEF Becomes, Fleets, Loops!Shifted, Owners, BotIds, Loops!Owners, Loops!BotIds

LEMMA FleetsEqual ==
  ASSUME NEW d \in Fleets, NEW e \in Fleets, d.bots = e.bots, d.told = e.told, d.taken = e.taken,
         d.owner = e.owner, d.listed = e.listed, d.reinit = e.reinit, d.dorefresh = e.dorefresh
  PROVE  d = e
BY DEF Fleets

LEMMA SameBecomes ==
  ASSUME NEW a, NEW f, NEW d, NEW e, Becomes(d, a, f), Becomes(e, a, f)
  PROVE  d = e
<1>1. /\ d \in Fleets /\ e \in Fleets /\ d.bots = e.bots /\ d.told = e.told /\ d.taken = e.taken
      /\ d.owner = e.owner /\ d.listed = e.listed /\ d.reinit = e.reinit /\ d.dorefresh = e.dorefresh
  BY Zenon DEF Becomes
<1> QED BY <1>1, FleetsEqual

LEMMA FleetIs ==
  ASSUME NEW a \in Fleets
  PROVE  /\ a.bots \subseteq BotIds /\ a.owner \in [BotIds -> Owners]
         /\ a.listed \in [LoopSlots -> SUBSET BotIds] /\ a.reinit \subseteq BotIds
         /\ a.taken \subseteq BotIds /\ a.told \in [BotIds -> Owners] /\ a.dorefresh \in BOOLEAN
BY DEF Fleets

LEMMA NothingShifted ==
  ASSUME NEW a \in Fleets, NEW f, DOMAIN f = {}
  PROVE  Becomes(a, a, f)
<1>1. /\ a.bots \subseteq BotIds /\ a.owner \in [BotIds -> Owners]
      /\ a.listed \in [LoopSlots -> SUBSET BotIds] /\ a.reinit \subseteq BotIds
      /\ a.taken \subseteq BotIds /\ a.told \in [BotIds -> Owners] /\ a.dorefresh \in BOOLEAN
  BY FleetIs
<1>2. a.owner = [b \in BotIds |-> IF b \in DOMAIN f THEN f[b] ELSE a.owner[b]]
  BY <1>1
<1>3. a.listed = [c \in LoopSlots |-> (a.listed[c] \ DOMAIN f) \cup {b \in DOMAIN f : f[b] = c}]
  BY <1>1
<1>4. a.reinit = (a.reinit \ DOMAIN f) \cup {b \in DOMAIN f : f[b] # NoSlot}
  BY <1>1
<1>5. a.dorefresh = (a.dorefresh \/ DOMAIN f # {})
  BY <1>1
<1> QED BY <1>2, <1>3, <1>4, <1>5 DEF Becomes

\* f, and t for b
And(f, b, t) == [x \in DOMAIN f \cup {b} |-> IF x = b THEN t ELSE f[x]]

LEMMA OneMore ==
  ASSUME NEW a \in Fleets, NEW f, DOMAIN f \subseteq BotIds, NEW b \in BotIds \ DOMAIN f, NEW t \in Owners,
         NEW d, Becomes(d, a, f), NEW e, Becomes(e, d, [x \in {b} |-> t])
  PROVE  Becomes(e, a, And(f, b, t))
<1> DEFINE u == [x \in {b} |-> t]
           g == And(f, b, t)
<1>1. DOMAIN u = {b} /\ u[b] = t /\ DOMAIN g = DOMAIN f \cup {b} /\ g[b] = t /\ \A x \in DOMAIN f : g[x] = f[x] /\ x # b
  BY DEF And
<1> HIDE DEF u, g
<1>2. e.owner = [x \in BotIds |-> IF x \in DOMAIN g THEN g[x] ELSE a.owner[x]]
  BY <1>1 DEF Becomes, u
<1>3. e.listed = [c \in LoopSlots |-> (a.listed[c] \ DOMAIN g) \cup {x \in DOMAIN g : g[x] = c}]
  <2>1. e.listed = [c \in LoopSlots |-> (d.listed[c] \ {b}) \cup {x \in {b} : t = c}]
    BY <1>1 DEF Becomes, u
  <2>2. d.listed = [c \in LoopSlots |-> (a.listed[c] \ DOMAIN f) \cup {x \in DOMAIN f : f[x] = c}]
    BY DEF Becomes
  <2>3. ASSUME NEW c \in LoopSlots
        PROVE  (d.listed[c] \ {b}) \cup {x \in {b} : t = c} = (a.listed[c] \ DOMAIN g) \cup {x \in DOMAIN g : g[x] = c}
    <3>1. d.listed[c] = (a.listed[c] \ DOMAIN f) \cup {x \in DOMAIN f : f[x] = c}
      BY <2>2
    <3> QED BY <1>1, <3>1
  <2> QED BY <2>1, <2>3, Zenon
<1>4. e.reinit = (a.reinit \ DOMAIN g) \cup {x \in DOMAIN g : g[x] # NoSlot}
  <2>1. e.reinit = (d.reinit \ {b}) \cup {x \in {b} : t # NoSlot}
    BY <1>1 DEF Becomes, u
  <2>2. d.reinit = (a.reinit \ DOMAIN f) \cup {x \in DOMAIN f : f[x] # NoSlot}
    BY DEF Becomes
  <2> QED BY <1>1, <2>1, <2>2
<1>5. e.dorefresh = (a.dorefresh \/ DOMAIN g # {})
  BY <1>1 DEF Becomes, u
<1>6. e \in Fleets /\ e.bots = a.bots /\ e.told = a.told /\ e.taken = a.taken
  BY DEF Becomes
<1> QED BY <1>2, <1>3, <1>4, <1>5, <1>6, Zenon DEF Becomes, g

-----------------------------------------------------------------------------
(* The loads, and what the loops have done after some turns.               *)

Size(a, c) == Cardinality(a.listed[c])

LEMMA SizeIsLoad == \A a, c : Loops!Load(a, c) = Size(a, c)
BY DEF Loops!Load, Loops!Cardinality, Size, Cardinality

\* The lists are those of the owners.
Consistent(a) == \A c \in LoopSlots : a.listed[c] = {b \in BotIds : a.owner[b] = c}

LEMMA ConsistentStays ==
  ASSUME NEW a \in Fleets, Consistent(a), NEW f, DOMAIN f \subseteq BotIds, NEW d, Becomes(d, a, f)
  PROVE  Consistent(d)
<1>1. d.owner = [b \in BotIds |-> IF b \in DOMAIN f THEN f[b] ELSE a.owner[b]]
  BY DEF Becomes
<1>2. d.listed = [c \in LoopSlots |-> (a.listed[c] \ DOMAIN f) \cup {b \in DOMAIN f : f[b] = c}]
  BY DEF Becomes
<1>3. ASSUME NEW c \in LoopSlots PROVE d.listed[c] = {b \in BotIds : d.owner[b] = c}
  <2>1. a.listed[c] = {b \in BotIds : a.owner[b] = c}
    BY DEF Consistent
  <2>2. d.listed[c] = (a.listed[c] \ DOMAIN f) \cup {b \in DOMAIN f : f[b] = c}
    BY <1>2
  <2> QED BY <1>1, <2>1, <2>2
<1> QED BY <1>3 DEF Consistent

LEMMA SizeIs ==
  ASSUME NEW a \in Fleets, NEW c \in LoopSlots
  PROVE  IsFiniteSet(a.listed[c]) /\ Size(a, c) \in Nat /\ a.listed[c] \subseteq BotIds
<1>1. a.listed[c] \subseteq BotIds
  BY FleetIs
<1>2. IsFiniteSet(BotIds)
  BY LoopsAssumption, FS_Interval DEF BotIds, Loops!BotIds
<1> QED BY <1>1, <1>2, FS_Subset, FS_CardinalityType DEF Size

\* The sizes after the bot b went from h to l
LEMMA SizeShift ==
  ASSUME NEW a \in Fleets, Consistent(a), NEW b \in BotIds, NEW l \in Owners, a.owner[b] # l,
         NEW u, u = [x \in {b} |-> l], NEW d, Becomes(d, a, u)
  PROVE  \A c \in LoopSlots : Size(d, c) = IF c = l THEN Size(a, c) + 1
                                           ELSE IF c = a.owner[b] THEN Size(a, c) - 1 ELSE Size(a, c)
<1> SUFFICES ASSUME NEW c \in LoopSlots
             PROVE  Size(d, c) = IF c = l THEN Size(a, c) + 1
                                 ELSE IF c = a.owner[b] THEN Size(a, c) - 1 ELSE Size(a, c)
  OBVIOUS
<1>1. d.listed[c] = (a.listed[c] \ {b}) \cup {x \in {b} : l = c}
  <2>1. DOMAIN u = {b} /\ u[b] = l
    OBVIOUS
  <2>2. d.listed = [e \in LoopSlots |-> (a.listed[e] \ DOMAIN u) \cup {x \in DOMAIN u : u[x] = e}]
    BY Zenon DEF Becomes
  <2> QED BY <2>1, <2>2
<1>2. IsFiniteSet(a.listed[c]) /\ Size(a, c) \in Nat
  BY SizeIs
<1>3. b \in a.listed[c] <=> a.owner[b] = c
  BY DEF Consistent
<1>4. CASE c = l
  <2>1. d.listed[c] = a.listed[c] \cup {b} /\ b \notin a.listed[c]
    BY <1>1, <1>3, <1>4
  <2> QED BY <1>2, <1>4, <2>1, FS_AddElement DEF Size
<1>5. CASE c # l /\ c = a.owner[b]
  <2>1. d.listed[c] = a.listed[c] \ {b} /\ b \in a.listed[c]
    BY <1>1, <1>3, <1>5
  <2>2. Cardinality(a.listed[c] \ {b}) = Cardinality(a.listed[c]) - 1
    BY <1>2, <2>1, FS_RemoveElement
  <2> QED BY <1>5, <2>1, <2>2 DEF Size
<1>6. CASE c # l /\ c # a.owner[b]
  <2>1. d.listed[c] = a.listed[c]
    BY <1>1, <1>3, <1>6
  <2> QED BY <1>6, <2>1 DEF Size
<1> QED BY <1>4, <1>5, <1>6
-----------------------------------------------------------------------------
\* The arguments of the loop: the valid clients W, who leaves, and the tables
CallIs(W, who, a) ==
  /\ W \subseteq LoopSlots /\ who \in (LoopSlots \ W) \cup {NoSlot}
  /\ a \in Fleets /\ Consistent(a)
  /\ \A b \in BotIds : a.owner[b] \in W \cup {who, NoSlot}

Takers(W) == IF W = {} THEN {NoSlot} ELSE W

\* removeai() has made d of the tables a: it gave the bots f away.
Removes(W, who, a, d, f) ==
  /\ DOMAIN f \subseteq a.listed[who]
  /\ \A b \in DOMAIN f : f[b] \in Takers(W)
  /\ Becomes(d, a, f)
  /\ \A c, e \in W : Size(d, c) > Size(a, c) => Size(d, c) <= Size(d, e) + 1

\* while(reassignai()) has made d of them: the bots f went from clients that
\* only gave, and stay among the busiest, to clients that only took, and stay
\* among the least busy.
Shares(W, a, d, f) ==
  /\ DOMAIN f \subseteq BotIds
  /\ \A b \in DOMAIN f : /\ a.owner[b] \in W /\ Size(d, a.owner[b]) < Size(a, a.owner[b])
                         /\ f[b] \in W /\ Size(d, f[b]) > Size(a, f[b])
  /\ Becomes(d, a, f)
  /\ \A c, e \in W :
       /\ Size(d, c) > Size(a, c) => Size(d, c) <= Size(d, e) + 1
       /\ Size(d, c) < Size(a, c) => Size(d, e) <= Size(d, c) + 1
       /\ Size(d, c) < Size(a, c) /\ Size(d, e) > Size(a, e) => Size(d, e) <= Size(d, c)
  /\ (\A c, e \in W : Size(a, c) <= Size(a, e) + 1) => DOMAIN f = {}

LoopInv ==
  /\ CallIs(V, leaving, start)
  /\ leaving # NoSlot => \E f : Removes(V, leaving, start, now, f)
  /\ leaving = NoSlot => \E f : Shares(V, start, now, f)

LEMMA LaterIs ==
  ASSUME NEW a \in Fleets, Consistent(a), NEW f, DOMAIN f \subseteq BotIds, NEW d, Becomes(d, a, f)
  PROVE  d \in Fleets /\ Consistent(d)
<1>1. d \in Fleets
  BY DEF Becomes
<1> QED BY <1>1, ConsistentStays

LEMMA CallBegins ==
  ASSUME NEW W, NEW who, NEW a, CallIs(W, who, a)
  PROVE  (\E f : Removes(W, who, a, a, f)) /\ (\E f : Shares(W, a, a, f))
<1>1. PICK f : f = [x \in {} |-> NoSlot]
  OBVIOUS
<1>2. DOMAIN f = {}
  BY <1>1
<1>3. Becomes(a, a, f)
  BY <1>2, NothingShifted DEF CallIs
<1>4. \A c \in W : Size(a, c) \in Nat
  BY SizeIs DEF CallIs
<1>5. \A c \in W : ~(Size(a, c) < Size(a, c)) /\ ~(Size(a, c) > Size(a, c))
  BY <1>4
<1>6. Removes(W, who, a, a, f)
  BY <1>2, <1>3, <1>5, Zenon DEF Removes
<1>7. Shares(W, a, a, f)
  BY <1>2, <1>3, <1>5, Zenon DEF Shares
<1> QED BY <1>6, <1>7, Zenon

LEMMA RemovesOne ==
  ASSUME NEW W, NEW who, NEW a, CallIs(W, who, a), who # NoSlot, NEW d, NEW f, Removes(W, who, a, d, f),
         NEW b \in d.listed[who], NEW t \in Takers(W), t \in W => \A c \in W : Size(d, t) <= Size(d, c),
         NEW e, Becomes(e, d, [x \in {b} |-> t])
  PROVE  \E g : Removes(W, who, a, e, g)
<1>1. /\ W \subseteq LoopSlots /\ who \in LoopSlots /\ who \notin W
      /\ a \in Fleets /\ Consistent(a) /\ a.listed[who] \subseteq BotIds
  BY SizeIs DEF CallIs
<1>2. DOMAIN f \subseteq BotIds /\ DOMAIN f \subseteq a.listed[who] /\ \A x \in DOMAIN f : f[x] \in Takers(W)
  BY <1>1, Zenon DEF Removes
<1>3. Becomes(d, a, f) /\ d \in Fleets /\ Consistent(d)
  BY <1>1, <1>2, LaterIs DEF Removes
<1>4. b \in BotIds /\ d.owner[b] = who
  BY <1>1, <1>3 DEF Consistent
<1>5. t # who /\ t \in Owners /\ t # d.owner[b]
  BY <1>1, <1>4, LoopsAssumption DEF Takers, Owners, Loops!Owners
<1>6. b \notin DOMAIN f /\ b \in a.listed[who]
  <2>1. d.owner = [x \in BotIds |-> IF x \in DOMAIN f THEN f[x] ELSE a.owner[x]]
    BY <1>3 DEF Becomes
  <2>2. b \notin DOMAIN f
    <3>1. \A x \in DOMAIN f : f[x] # who
      BY <1>1, <1>2, LoopsAssumption DEF Takers
    <3> QED BY <1>2, <1>4, <2>1, <3>1
  <2>3. a.owner[b] = who
    BY <1>4, <2>1, <2>2
  <2> QED BY <1>1, <1>4, <2>2, <2>3 DEF Consistent
<1> DEFINE g == And(f, b, t)
<1>7. DOMAIN g = DOMAIN f \cup {b} /\ g[b] = t /\ \A x \in DOMAIN f : g[x] = f[x]
  BY <1>6 DEF And
<1>8. Becomes(e, a, g)
  BY <1>1, <1>2, <1>3, <1>4, <1>5, <1>6, OneMore
<1> HIDE DEF g
<1>9. \A c \in W : Size(e, c) = IF c = t THEN Size(d, c) + 1 ELSE Size(d, c)
  <2>1. \A c \in LoopSlots : Size(e, c) = IF c = t THEN Size(d, c) + 1
                                          ELSE IF c = d.owner[b] THEN Size(d, c) - 1 ELSE Size(d, c)
    BY <1>3, <1>4, <1>5, SizeShift
  <2> QED BY <1>1, <1>4, <2>1
<1>10. \A c \in W : Size(d, c) \in Nat /\ Size(a, c) \in Nat
  BY <1>1, <1>3, SizeIs
<1>11. ASSUME NEW c \in W, NEW h \in W, Size(e, c) > Size(a, c) PROVE Size(e, c) <= Size(e, h) + 1
  <2>1. CASE c = t
    <3>1. Size(d, c) <= Size(d, h) /\ Size(e, c) = Size(d, c) + 1
      BY <1>9, <1>11, <2>1
    <3> QED BY <1>9, <1>10, <3>1
  <2>2. CASE c # t
    <3>1. Size(e, c) = Size(d, c)
      BY <1>9, <2>2
    <3>2. Size(d, c) <= Size(d, h) + 1
      BY <1>11, <3>1 DEF Removes
    <3> QED BY <1>9, <1>10, <3>1, <3>2
  <2> QED BY <2>1, <2>2
<1>12. DOMAIN g \subseteq a.listed[who] /\ \A x \in DOMAIN g : g[x] \in Takers(W)
  BY <1>2, <1>6, <1>7
<1>13. Removes(W, who, a, e, g)
  BY <1>8, <1>11, <1>12, Zenon DEF Removes
<1> QED BY <1>13, Zenon

LEMMA SharesOne ==
  ASSUME NEW W, NEW who, NEW a, CallIs(W, who, a), NEW d, NEW f, Shares(W, a, d, f),
         NEW h \in W, \A c \in W : Size(d, c) <= Size(d, h),
         NEW l \in W, \A c \in W : Size(d, l) <= Size(d, c),
         Size(d, h) - Size(d, l) > 1, NEW b \in d.listed[h],
         NEW e, Becomes(e, d, [x \in {b} |-> l])
  PROVE  \E g : Shares(W, a, e, g)
<1>1. /\ W \subseteq LoopSlots /\ a \in Fleets /\ Consistent(a)
      /\ \A c \in W : a.listed[c] \subseteq BotIds
  BY SizeIs DEF CallIs
<1>2. /\ DOMAIN f \subseteq BotIds
      /\ \A x \in DOMAIN f : /\ a.owner[x] \in W /\ Size(d, a.owner[x]) < Size(a, a.owner[x])
                             /\ f[x] \in W /\ Size(d, f[x]) > Size(a, f[x])
  BY Zenon DEF Shares
<1>3. Becomes(d, a, f) /\ d \in Fleets /\ Consistent(d)
  BY <1>1, <1>2, LaterIs DEF Shares
<1>4. b \in BotIds /\ d.owner[b] = h
  BY <1>1, <1>3, SizeIs DEF Consistent
<1>10. \A c \in W : Size(d, c) \in Nat /\ Size(a, c) \in Nat
  BY <1>1, <1>3, SizeIs
<1>5. h # l /\ l \in Owners /\ l # d.owner[b]
  BY <1>1, <1>4, <1>10 DEF Owners, Loops!Owners
<1>14. /\ ~(Size(d, h) > Size(a, h)) /\ ~(Size(d, l) < Size(a, l))
  <2>1. Size(d, h) > Size(a, h) => Size(d, h) <= Size(d, l) + 1
    BY Zenon DEF Shares
  <2>2. Size(d, l) < Size(a, l) => Size(d, h) <= Size(d, l) + 1
    BY Zenon DEF Shares
  <2> QED BY <1>10, <2>1, <2>2
<1>6. b \notin DOMAIN f /\ a.owner[b] = h
  <2>1. d.owner = [x \in BotIds |-> IF x \in DOMAIN f THEN f[x] ELSE a.owner[x]]
    BY <1>3 DEF Becomes
  <2>2. b \notin DOMAIN f
    BY <1>2, <1>4, <1>14, <2>1
  <2> QED BY <1>4, <2>1, <2>2
<1> DEFINE g == And(f, b, l)
<1>7. DOMAIN g = DOMAIN f \cup {b} /\ g[b] = l /\ \A x \in DOMAIN f : g[x] = f[x]
  BY <1>6 DEF And
<1>8. Becomes(e, a, g)
  BY <1>1, <1>2, <1>3, <1>4, <1>5, <1>6, OneMore
<1> HIDE DEF g
<1>9. \A c \in W : Size(e, c) = IF c = l THEN Size(d, c) + 1 ELSE IF c = h THEN Size(d, c) - 1 ELSE Size(d, c)
  <2>1. \A c \in LoopSlots : Size(e, c) = IF c = l THEN Size(d, c) + 1
                                          ELSE IF c = d.owner[b] THEN Size(d, c) - 1 ELSE Size(d, c)
    BY <1>3, <1>4, <1>5, SizeShift
  <2> QED BY <1>1, <1>4, <2>1
<1>11. ASSUME NEW c \in W, NEW u \in W
       PROVE  /\ Size(e, c) > Size(a, c) => Size(e, c) <= Size(e, u) + 1
              /\ Size(e, c) < Size(a, c) => Size(e, u) <= Size(e, c) + 1
              /\ Size(e, c) < Size(a, c) /\ Size(e, u) > Size(a, u) => Size(e, u) <= Size(e, c)
  <2>1. /\ Size(d, c) > Size(a, c) => Size(d, c) <= Size(d, u) + 1 /\ Size(d, c) <= Size(d, l) + 1
        /\ Size(d, u) > Size(a, u) => Size(d, u) <= Size(d, l) + 1
        /\ Size(d, c) < Size(a, c) => Size(d, u) <= Size(d, c) + 1 /\ Size(d, h) <= Size(d, c) + 1
        /\ Size(d, c) < Size(a, c) /\ Size(d, u) > Size(a, u) => Size(d, u) <= Size(d, c)
    BY Zenon DEF Shares
  <2>2. /\ Size(d, c) <= Size(d, h) /\ Size(d, l) <= Size(d, c)
        /\ Size(d, u) <= Size(d, h) /\ Size(d, l) <= Size(d, u)
    OBVIOUS
  <2> QED BY <1>5, <1>9, <1>10, <1>14, <2>1, <2>2
<1>12. \A x \in DOMAIN g : /\ a.owner[x] \in W /\ Size(e, a.owner[x]) < Size(a, a.owner[x])
                           /\ g[x] \in W /\ Size(e, g[x]) > Size(a, g[x])
  <2>1. Size(e, h) < Size(a, h) /\ Size(e, l) > Size(a, l)
    BY <1>5, <1>9, <1>10, <1>14
  <2>2. ASSUME NEW c \in W PROVE /\ Size(d, c) < Size(a, c) => Size(e, c) < Size(a, c)
                                 /\ Size(d, c) > Size(a, c) => Size(e, c) > Size(a, c)
    BY <1>5, <1>9, <1>10, <1>14, <2>1
  <2> QED BY <1>2, <1>6, <1>7, <2>1, <2>2, Zenon
<1>13. ~\A c, u \in W : Size(a, c) <= Size(a, u) + 1
  <2> SUFFICES ASSUME \A c, u \in W : Size(a, c) <= Size(a, u) + 1 PROVE FALSE
    OBVIOUS
  <2>1. Size(a, h) <= Size(a, l) + 1
    OBVIOUS
  <2> QED BY <1>10, <1>14, <2>1
<1>15. DOMAIN g \subseteq BotIds
  BY <1>2, <1>4, <1>7
<1>16. Shares(W, a, e, g)
  BY <1>8, <1>11, <1>12, <1>13, <1>15, Zenon DEF Shares
<1> QED BY <1>16, Zenon

-----------------------------------------------------------------------------
(* Every turn and every call keeps what the loops have done.               *)

\* A turn of the loop, as what it makes of the tables.
LEMMA ShiftOneIs ==
  ASSUME NEW a \in Fleets, NEW b \in BotIds, NEW t \in Owners, NEW d, d = Loops!Shifted(a, [x \in {b} |-> t])
  PROVE  Becomes(d, a, [x \in {b} |-> t])
<1>1. PICK u : u = [x \in {b} |-> t]
  OBVIOUS
<1>2. DOMAIN u = {b} /\ u[b] = t
  BY <1>1
<1>3. DOMAIN u \subseteq BotIds /\ \A x \in DOMAIN u : u[x] \in Owners
  BY <1>2
<1>4. d = Loops!Shifted(a, u)
  BY <1>1
<1>5. Becomes(d, a, u)
  BY <1>3, <1>4, ShiftedIs
<1> QED BY <1>1, <1>5

\* The bots of the tables later have the owners of f.
LEMMA FreshIs ==
  ASSUME NEW f \in [BotIds -> Owners], NEW a, a = Loops!Fresh(f)
  PROVE  a \in Fleets /\ Consistent(a) /\ a.owner = f
BY DEF Loops!Fresh, Fleets, Consistent, BotIds, Loops!BotIds

LEMMA LaterFleet ==
  ASSUME LoopInv
  PROVE  /\ start \in Fleets /\ Consistent(start) /\ now \in Fleets /\ Consistent(now)
         /\ V \subseteq LoopSlots /\ leaving \in (LoopSlots \ V) \cup {NoSlot}
<1>1. start \in Fleets /\ Consistent(start) /\ V \subseteq LoopSlots /\ leaving \in (LoopSlots \ V) \cup {NoSlot}
  BY Zenon DEF LoopInv, CallIs
<1>2. CASE leaving # NoSlot
  <2>1. PICK f : Removes(V, leaving, start, now, f)
    BY <1>2 DEF LoopInv
  <2>2. DOMAIN f \subseteq start.listed[leaving] /\ Becomes(now, start, f)
    BY <2>1, Zenon DEF Removes
  <2>3. start.listed[leaving] \subseteq BotIds
    BY <1>1, <1>2, SizeIs
  <2> QED BY <1>1, <2>2, <2>3, LaterIs
<1>3. CASE leaving = NoSlot
  <2>1. PICK f : Shares(V, start, now, f)
    BY <1>3 DEF LoopInv
  <2>2. DOMAIN f \subseteq BotIds /\ Becomes(now, start, f)
    BY <2>1, Zenon DEF Shares
  <2> QED BY <1>1, <2>2, LaterIs
<1> QED BY <1>2, <1>3

LEMMA TurnKeeps ==
  ASSUME LoopInv, Loops!RemoveTurn \/ Loops!ReassignTurn
  PROVE  LoopInv'
<1>1. UNCHANGED <<V, leaving, start>> /\ CallIs(V, leaving, start) /\ now \in Fleets /\ Consistent(now)
      /\ V \subseteq LoopSlots
  BY LaterFleet DEF LoopInv, Loops!RemoveTurn, Loops!ReassignTurn
<1>2. CASE Loops!RemoveTurn
  <2>1. PICK b \in now.listed[leaving], t \in IF V = {} THEN {NoSlot} ELSE Loops!Least(now, V) :
           now' = Loops!Shifted(now, [x \in {b} |-> t])
    BY <1>2 DEF Loops!RemoveTurn, Loops!ShiftOne
  <2>2. leaving # NoSlot /\ leaving \in LoopSlots
    BY <1>1, <1>2 DEF Loops!RemoveTurn, CallIs
  <2>3. b \in BotIds
    BY <1>1, <2>2, SizeIs
  <2>4. t \in Takers(V) /\ (t \in V => \A c \in V : Size(now, t) <= Size(now, c))
    <3>1. CASE V = {}
      BY <2>1, <3>1 DEF Takers
    <3>2. CASE V # {}
      <4>1. t \in V /\ \A c \in V : Loops!Load(now, t) <= Loops!Load(now, c)
        BY <2>1, <3>2 DEF Loops!Least
      <4> QED BY <3>2, <4>1, SizeIsLoad DEF Takers
    <3> QED BY <3>1, <3>2
  <2>5. t \in Owners
    BY <1>1, <2>4 DEF Takers, Owners, Loops!Owners
  <2>6. Becomes(now', now, [x \in {b} |-> t])
    BY <1>1, <2>1, <2>3, <2>5, ShiftOneIs
  <2>7. PICK f : Removes(V, leaving, start, now, f)
    BY <2>2 DEF LoopInv
  <2>8. PICK e : e = now'
    OBVIOUS
  <2>9. Becomes(e, now, [x \in {b} |-> t])
    BY <2>6, <2>8
  <2>10. \E g : Removes(V, leaving, start, e, g)
    BY <1>1, <2>2, <2>4, <2>7, <2>9, RemovesOne
  <2>11. CallIs(V', leaving', start') /\ leaving' # NoSlot /\ \E g : Removes(V', leaving', start', now', g)
    BY <1>1, <2>2, <2>8, <2>10
  <2> QED BY <2>11, Zenon DEF LoopInv, CallIs, Removes
<1>3. CASE Loops!ReassignTurn
  <2>1. PICK h \in Loops!Most(now, V), l \in Loops!Least(now, V) :
          Loops!Apart(h, l) /\ \E b \in now.listed[h] : now' = Loops!Shifted(now, [x \in {b} |-> l])
    BY <1>3 DEF Loops!ReassignTurn, Loops!ShiftOne
  <2>2. PICK b \in now.listed[h] : now' = Loops!Shifted(now, [x \in {b} |-> l])
    BY <2>1
  <2>3. /\ h \in V /\ \A c \in V : Size(now, c) <= Size(now, h)
        /\ l \in V /\ \A c \in V : Size(now, l) <= Size(now, c)
        /\ Size(now, h) - Size(now, l) > 1
    BY <2>1, SizeIsLoad DEF Loops!Most, Loops!Least, Loops!Apart
  <2>4. b \in BotIds /\ l \in Owners
    BY <1>1, <2>3, SizeIs DEF Owners, Loops!Owners
  <2>5. PICK e : e = now'
    OBVIOUS
  <2>6. Becomes(e, now, [x \in {b} |-> l])
    BY <1>1, <2>2, <2>4, <2>5, ShiftOneIs
  <2>7. leaving = NoSlot
    BY <1>3 DEF Loops!ReassignTurn
  <2>8. PICK f : Shares(V, start, now, f)
    BY <2>7 DEF LoopInv
  <2>9. \E g : Shares(V, start, e, g)
    BY <1>1, <2>3, <2>6, <2>8, SharesOne
  <2>10. CallIs(V', leaving', start') /\ leaving' = NoSlot /\ \E g : Shares(V', start', now', g)
    BY <1>1, <2>5, <2>7, <2>9
  <2> QED BY <2>10, Zenon DEF LoopInv, CallIs, Shares
<1> QED BY <1>2, <1>3

LEMMA FirstCall ==
  ASSUME NEW W, NEW who, NEW a, CallIs(W, who, a)
  PROVE  /\ who # NoSlot => \E f : Removes(W, who, a, a, f)
         /\ who = NoSlot => \E f : Shares(W, a, a, f)
BY CallBegins

LEMMA LoopsStart ==
  ASSUME Loops!Init
  PROVE  LoopInv
<1>1. /\ V \subseteq LoopSlots /\ leaving \in (LoopSlots \ V) \cup {NoSlot} /\ now = start
  BY DEF Loops!Init
<1>2. PICK f \in [BotIds -> V \cup {leaving}] : start = Loops!Fresh(f)
  BY DEF Loops!Init, BotIds
<1>3. f \in [BotIds -> Owners]
  BY <1>1, <1>2 DEF Owners, Loops!Owners
<1>4. start \in Fleets /\ Consistent(start) /\ start.owner = f
  BY <1>2, <1>3, FreshIs
<1>5. CallIs(V, leaving, start)
  BY <1>1, <1>2, <1>4 DEF CallIs
<1> QED BY <1>1, <1>5, FirstCall, Zenon DEF LoopInv

LEMMA CallKeepsLoops ==
  ASSUME LoopInv, Loops!Call
  PROVE  LoopInv'
<1>1. /\ V' \subseteq LoopSlots /\ leaving' \in (LoopSlots \ V') \cup {NoSlot} /\ now' = start'
      /\ start' = Loops!Fresh(now.owner) /\ \A b \in BotIds : now.owner[b] \in V' \cup {leaving', NoSlot}
  BY DEF Loops!Call, BotIds
<1>2. now.owner \in [BotIds -> Owners]
  BY LaterFleet, FleetIs
<1>3. PICK a : a = start'
  OBVIOUS
<1>4. PICK f \in [BotIds -> Owners] : f = now.owner
  BY <1>2
<1>5. a \in Fleets /\ Consistent(a) /\ a.owner = f
  BY <1>1, <1>3, <1>4, FreshIs
<1>6. PICK W, who : W = V' /\ who = leaving'
  OBVIOUS
<1>7. CallIs(W, who, a)
  BY <1>1, <1>4, <1>5, <1>6 DEF CallIs
<1>8. /\ who # NoSlot => \E g : Removes(W, who, a, a, g)
      /\ who = NoSlot => \E g : Shares(W, a, a, g)
  BY <1>7, FirstCall
<1>9. /\ CallIs(V', leaving', start')
      /\ leaving' # NoSlot => \E g : Removes(V', leaving', start', now', g)
      /\ leaving' = NoSlot => \E g : Shares(V', start', now', g)
  BY <1>1, <1>3, <1>6, <1>7, <1>8
<1> QED BY <1>9, Zenon DEF LoopInv, CallIs, Removes, Shares

LEMMA LoopsKeep ==
  ASSUME LoopInv, [LobbyNext]_<<part, vars, loopVars, teamVars>>
  PROVE  LoopInv'
<1>1. CASE Loops!Next
  BY <1>1, TurnKeeps, CallKeepsLoops DEF Loops!Next, Loops!Turn
<1>2. CASE UNCHANGED loopVars
  <2>1. UNCHANGED <<V, leaving, start, now>>
    BY <1>2 DEF loopVars
  <2> QED BY <2>1, Zenon DEF LoopInv, CallIs, Removes, Shares
<1> QED BY <1>1, <1>2 DEF LobbyNext

-----------------------------------------------------------------------------
(* What removeai() leaves.                                                 *)

\* f as a function
FunctionOf(f) == [x \in DOMAIN f |-> f[x]]

LEMMA AsFunction ==
  ASSUME NEW a, NEW f, NEW d, Becomes(d, a, f), NEW g, g = FunctionOf(f)
  PROVE  DOMAIN g = DOMAIN f /\ (\A x \in DOMAIN f : g[x] = f[x]) /\ Becomes(d, a, g)
<1>1. DOMAIN g = DOMAIN f /\ \A x \in DOMAIN f : g[x] = f[x]
  BY DEF FunctionOf
<1>2. /\ [b \in BotIds |-> IF b \in DOMAIN g THEN g[b] ELSE a.owner[b]]
         = [b \in BotIds |-> IF b \in DOMAIN f THEN f[b] ELSE a.owner[b]]
      /\ [c \in LoopSlots |-> (a.listed[c] \ DOMAIN g) \cup {b \in DOMAIN g : g[b] = c}]
         = [c \in LoopSlots |-> (a.listed[c] \ DOMAIN f) \cup {b \in DOMAIN f : f[b] = c}]
      /\ {b \in DOMAIN g : g[b] # NoSlot} = {b \in DOMAIN f : f[b] # NoSlot}
  BY <1>1
<1> QED BY <1>1, <1>2 DEF Becomes

\* removeai() leaves behind what Released says.
LEMMA ReleasedInTheEnd ==
  ASSUME NEW W, NEW who, NEW a, CallIs(W, who, a), who # NoSlot, NEW d, NEW f, Removes(W, who, a, d, f),
         d.listed[who] = {}
  PROVE  d \in Loops!Released(a, {who}, W)
<1>1. /\ W \subseteq LoopSlots /\ who \in LoopSlots /\ who \notin W /\ a \in Fleets /\ Consistent(a)
      /\ a.listed[who] \subseteq BotIds
  BY SizeIs DEF CallIs
<1>2. PICK g : g = FunctionOf(f)
  OBVIOUS
<1>3. Becomes(d, a, f) /\ DOMAIN f \subseteq a.listed[who] /\ \A x \in DOMAIN f : f[x] \in Takers(W)
  BY Zenon DEF Removes
<1>4. DOMAIN g = DOMAIN f /\ (\A x \in DOMAIN f : g[x] = f[x]) /\ Becomes(d, a, g)
  BY <1>2, <1>3, AsFunction
<1>5. DOMAIN f = a.listed[who]
  <2>1. d.listed[who] = (a.listed[who] \ DOMAIN f) \cup {b \in DOMAIN f : f[b] = who}
    BY <1>1, <1>3 DEF Becomes
  <2> QED BY <1>3, <2>1
<1>6. DOMAIN g \subseteq BotIds /\ \A x \in DOMAIN g : g[x] \in Owners
  <2>1. Takers(W) \subseteq Owners
    BY <1>1 DEF Takers, Owners, Loops!Owners
  <2> QED BY <1>1, <1>3, <1>4, <1>5, <2>1
<1>7. PICK s : s = Loops!Shifted(a, g)
  OBVIOUS
<1>8. s = d
  <2>1. Becomes(s, a, g)
    BY <1>1, <1>6, <1>7, ShiftedIs
  <2> QED BY <2>1, <1>4, SameBecomes
<1>9. Loops!Filled(a, g, W)
  <2>1. \A c, e \in W : Size(d, c) > Size(a, c) => Size(d, c) <= Size(d, e) + 1
    BY Zenon DEF Removes
  <2>2. \A c \in W : Loops!Load(d, c) > Loops!Load(a, c) =>
          \A e \in W : Loops!Load(d, c) <= Loops!Load(d, e) + 1
    BY <2>1, SizeIsLoad
  <2> QED BY <2>2, <1>7, <1>8 DEF Loops!Filled
<1>10. g \in [Loops!ListedBots(a, {who}) -> IF W = {} THEN {NoSlot} ELSE W]
  <2>1. Loops!ListedBots(a, {who}) = a.listed[who]
    BY DEF Loops!ListedBots
  <2>2. g \in [DOMAIN g -> Takers(W)]
    <3>1. g = [x \in DOMAIN g |-> g[x]]
      BY <1>2 DEF FunctionOf
    <3>2. \A x \in DOMAIN g : g[x] \in Takers(W)
      BY <1>3, <1>4
    <3> QED BY <3>1, <3>2
  <2> QED BY <1>4, <1>5, <2>1, <2>2 DEF Takers
<1>11. d = Loops!Shifted(a, g)
  BY <1>7, <1>8
<1> QED BY <1>9, <1>10, <1>11, Zenon DEF Loops!Released

-----------------------------------------------------------------------------
(* Counting by label: p names one for each of S, q for each of T.          *)

Labelled(S, p, c) == {x \in S : p[x] = c}

LEMMA MoreOfEach ==
  ASSUME NEW G, IsFiniteSet(G), NEW S, IsFiniteSet(S), NEW T, IsFiniteSet(T), NEW p, NEW q,
         \A x \in S : p[x] \in G,
         \A c \in G : Cardinality(Labelled(S, p, c)) <= Cardinality(Labelled(T, q, c))
  PROVE  Cardinality(S) <= Cardinality(T)
<1> DEFINE Among(U, r, H) == {x \in U : r[x] \in H}
           F == {H \in SUBSET G : Cardinality(Among(S, p, H)) <= Cardinality(Among(T, q, H))}
<1>1. \A H : /\ IsFiniteSet(Among(S, p, H)) /\ IsFiniteSet(Among(T, q, H))
             /\ Cardinality(Among(S, p, H)) \in Nat /\ Cardinality(Among(T, q, H)) \in Nat
  <2> SUFFICES ASSUME NEW H
               PROVE  /\ IsFiniteSet(Among(S, p, H)) /\ IsFiniteSet(Among(T, q, H))
                      /\ Cardinality(Among(S, p, H)) \in Nat /\ Cardinality(Among(T, q, H)) \in Nat
    OBVIOUS
  <2>1. Among(S, p, H) \subseteq S /\ Among(T, q, H) \subseteq T
    OBVIOUS
  <2> HIDE DEF Among
  <2> QED BY <2>1, FS_Subset, FS_CardinalityType
<1>2. {} \in F
  <2>1. Among(S, p, {}) = {} /\ Among(T, q, {}) = {}
    OBVIOUS
  <2>2. Cardinality(Among(S, p, {})) <= Cardinality(Among(T, q, {}))
    BY <2>1, FS_EmptySet
  <2> QED BY <2>2
<1>3. ASSUME NEW H \in SUBSET G, NEW c \in G \ H, H \in F PROVE H \cup {c} \in F
  <2>1. ASSUME NEW U, IsFiniteSet(U), NEW r
        PROVE  Cardinality(Among(U, r, H \cup {c})) = Cardinality(Among(U, r, H)) + Cardinality(Labelled(U, r, c))
    <3>1. PICK A, B : A = Among(U, r, H) /\ B = Labelled(U, r, c)
      OBVIOUS
    <3>2. Among(U, r, H \cup {c}) = A \cup B /\ A \cap B = {} /\ A \subseteq U /\ B \subseteq U
      BY <3>1 DEF Labelled
    <3>3. IsFiniteSet(A) /\ IsFiniteSet(B)
      BY <2>1, <3>2, FS_Subset
    <3>4. Cardinality(A \cup B) = Cardinality(A) + Cardinality(B) - Cardinality(A \cap B)
      BY <3>3, FS_Union
    <3>5. Cardinality(A \cap B) = 0 /\ Cardinality(A) \in Nat /\ Cardinality(B) \in Nat
      BY <3>2, <3>3, FS_EmptySet, FS_CardinalityType
    <3> HIDE DEF Among
    <3>6. Cardinality(A \cup B) = Cardinality(A) + Cardinality(B)
      BY <3>4, <3>5
    <3> QED BY <3>1, <3>2, <3>6
  <2>2. Labelled(S, p, c) \subseteq S /\ Labelled(T, q, c) \subseteq T
    BY DEF Labelled
  <2>3. /\ Cardinality(Labelled(S, p, c)) \in Nat /\ Cardinality(Labelled(T, q, c)) \in Nat
        /\ Cardinality(Labelled(S, p, c)) <= Cardinality(Labelled(T, q, c))
    BY <2>2, FS_Subset, FS_CardinalityType
  <2>4. Cardinality(Among(S, p, H)) <= Cardinality(Among(T, q, H))
    BY <1>3
  <2> HIDE DEF Among
  <2>5. /\ Cardinality(Among(S, p, H \cup {c})) = Cardinality(Among(S, p, H)) + Cardinality(Labelled(S, p, c))
        /\ Cardinality(Among(T, q, H \cup {c})) = Cardinality(Among(T, q, H)) + Cardinality(Labelled(T, q, c))
    BY <2>1
  <2>6. Cardinality(Among(S, p, H)) \in Nat /\ Cardinality(Among(T, q, H)) \in Nat
    BY <1>1
  <2>7. Cardinality(Among(S, p, H \cup {c})) <= Cardinality(Among(T, q, H \cup {c}))
    BY <2>3, <2>4, <2>5, <2>6
  <2> QED BY <1>3, <2>7
<1>4. G \in F
  <2> HIDE DEF F
  <2> QED BY <1>2, <1>3, SetInduction
<1>5. Among(S, p, G) = S /\ Among(T, q, G) \subseteq T
  OBVIOUS
<1>6. Cardinality(Among(S, p, G)) <= Cardinality(Among(T, q, G))
  BY <1>4
<1> HIDE DEF Among
<1>7. Cardinality(Among(T, q, G)) <= Cardinality(T)
  BY <1>5, FS_Subset
<1> QED BY <1>1, <1>5, <1>6, <1>7, FS_CardinalityType

-----------------------------------------------------------------------------
(* What while(reassignai()) leaves.                                        *)

\* Other tables q with other owners of the bots in Q
LEMMA OwnersMoved ==
  ASSUME NEW a \in Fleets, Consistent(a), NEW q \in Fleets, Consistent(q), NEW c \in LoopSlots,
         NEW Q, Q = Loops!Moved(a, q)
  PROVE  /\ a.listed[c] \subseteq q.listed[c] \cup Labelled(Q, a.owner, c)
         /\ q.listed[c] \subseteq a.listed[c] \cup Labelled(Q, q.owner, c)
         /\ Q \subseteq BotIds /\ IsFiniteSet(Q)
         /\ IsFiniteSet(Labelled(Q, a.owner, c)) /\ IsFiniteSet(Labelled(Q, q.owner, c))
<1>1. /\ a.listed[c] = {b \in BotIds : a.owner[b] = c} /\ q.listed[c] = {b \in BotIds : q.owner[b] = c}
      /\ Q = {b \in BotIds : q.owner[b] # a.owner[b]}
  BY DEF Consistent, Loops!Moved, BotIds
<1>2. IsFiniteSet(BotIds)
  BY LoopsAssumption, FS_Interval DEF BotIds, Loops!BotIds
<1>3. Q \subseteq BotIds /\ Labelled(Q, a.owner, c) \subseteq Q /\ Labelled(Q, q.owner, c) \subseteq Q
  BY <1>1 DEF Labelled
<1>4. IsFiniteSet(Q)
  BY <1>2, <1>3, FS_Subset
<1>5. IsFiniteSet(Labelled(Q, a.owner, c)) /\ IsFiniteSet(Labelled(Q, q.owner, c))
  BY <1>3, <1>4, FS_Subset
<1> QED BY <1>1, <1>3, <1>4, <1>5 DEF Labelled

LEMMA CoveredSize ==
  ASSUME NEW A, NEW B, NEW D, IsFiniteSet(B), IsFiniteSet(D), A \subseteq B \cup D
  PROVE  Cardinality(A) \in Nat /\ Cardinality(B) \in Nat /\ Cardinality(D) \in Nat
         /\ Cardinality(A) <= Cardinality(B) + Cardinality(D)
<1>1. IsFiniteSet(B \cup D) /\ Cardinality(B \cup D) = Cardinality(B) + Cardinality(D) - Cardinality(B \cap D)
  BY FS_Union
<1>2. IsFiniteSet(A) /\ IsFiniteSet(B \cap D) /\ Cardinality(A) <= Cardinality(B \cup D)
  BY <1>1, FS_Subset, FS_Intersection
<1>3. Cardinality(A) \in Nat /\ Cardinality(B) \in Nat /\ Cardinality(D) \in Nat /\ Cardinality(B \cap D) \in Nat
  BY <1>2, FS_CardinalityType
<1> QED BY <1>1, <1>2, <1>3

LEMMA DisjointSize ==
  ASSUME NEW A, NEW B, NEW D, IsFiniteSet(B), IsFiniteSet(D), A = B \cup D, B \cap D = {}
  PROVE  Cardinality(A) = Cardinality(B) + Cardinality(D)
<1>1. Cardinality(B \cup D) = Cardinality(B) + Cardinality(D) - Cardinality(B \cap D)
  BY FS_Union
<1>2. Cardinality(B \cap D) = 0 /\ Cardinality(B) \in Nat /\ Cardinality(D) \in Nat
  BY FS_EmptySet, FS_CardinalityType
<1> QED BY <1>1, <1>2

\* What while(reassignai()) took from c and gave to it.
LEMMA SharedIs ==
  ASSUME NEW W, NEW who, NEW a, CallIs(W, who, a), NEW d, NEW f, Shares(W, a, d, f), NEW c \in W
  PROVE  /\ Size(d, c) < Size(a, c) => Size(a, c) = Size(d, c) + Cardinality(Labelled(DOMAIN f, a.owner, c))
         /\ Size(d, c) > Size(a, c) => Size(d, c) = Size(a, c) + Cardinality(Labelled(DOMAIN f, f, c))
<1>1. c \in LoopSlots /\ a \in Fleets /\ Consistent(a)
  BY DEF CallIs
<1>2. /\ DOMAIN f \subseteq BotIds
      /\ \A x \in DOMAIN f : /\ a.owner[x] \in W /\ Size(d, a.owner[x]) < Size(a, a.owner[x])
                             /\ f[x] \in W /\ Size(d, f[x]) > Size(a, f[x])
  BY Zenon DEF Shares
<1>3. Becomes(d, a, f) /\ d \in Fleets /\ Consistent(d)
  BY <1>1, <1>2, LaterIs DEF Shares
<1>4. d.listed[c] = (a.listed[c] \ DOMAIN f) \cup Labelled(DOMAIN f, f, c)
  BY <1>1, <1>3 DEF Becomes, Labelled
<1>5. a.listed[c] = {b \in BotIds : a.owner[b] = c}
  BY <1>1 DEF Consistent
<1>6. Size(a, c) \in Nat /\ Size(d, c) \in Nat /\ IsFiniteSet(a.listed[c]) /\ IsFiniteSet(d.listed[c])
  BY <1>1, <1>3, SizeIs
<1>7. ASSUME Size(d, c) < Size(a, c)
      PROVE  Size(a, c) = Size(d, c) + Cardinality(Labelled(DOMAIN f, a.owner, c))
  <2>1. Labelled(DOMAIN f, f, c) = {}
    <3>1. ASSUME NEW x \in DOMAIN f PROVE f[x] # c
      BY <1>2, <1>6, <1>7
    <3> QED BY <3>1 DEF Labelled
  <2>2. a.listed[c] = d.listed[c] \cup Labelled(DOMAIN f, a.owner, c)
        /\ d.listed[c] \cap Labelled(DOMAIN f, a.owner, c) = {}
        /\ Labelled(DOMAIN f, a.owner, c) \subseteq a.listed[c]
    BY <1>2, <1>4, <1>5, <2>1 DEF Labelled
  <2>3. IsFiniteSet(Labelled(DOMAIN f, a.owner, c))
    BY <1>6, <2>2, FS_Subset
  <2> QED BY <1>6, <2>2, <2>3, DisjointSize DEF Size
<1>8. ASSUME Size(d, c) > Size(a, c)
      PROVE  Size(d, c) = Size(a, c) + Cardinality(Labelled(DOMAIN f, f, c))
  <2>1. \A x \in DOMAIN f : a.owner[x] # c
    <3>1. ASSUME NEW x \in DOMAIN f PROVE a.owner[x] # c
      BY <1>2, <1>6, <1>8
    <3> QED BY <3>1
  <2>2. d.listed[c] = a.listed[c] \cup Labelled(DOMAIN f, f, c) /\ a.listed[c] \cap Labelled(DOMAIN f, f, c) = {}
        /\ Labelled(DOMAIN f, f, c) \subseteq d.listed[c]
    BY <1>2, <1>4, <1>5, <2>1 DEF Labelled
  <2>3. IsFiniteSet(Labelled(DOMAIN f, f, c))
    BY <1>6, <2>2, FS_Subset
  <2> QED BY <1>6, <2>2, <2>3, DisjointSize DEF Size
<1> QED BY <1>7, <1>8

\* No way to make the clients even moves fewer bots: either every client that
\* gave had to give as much, or every client that took had to take as much.
LEMMA FewestMoves ==
  ASSUME NEW W, NEW who, NEW a, CallIs(W, who, a), NEW d, NEW f, Shares(W, a, d, f),
         NEW q \in Fleets, Consistent(q), \A c, e \in W : Size(q, c) <= Size(q, e) + 1
  PROVE  Cardinality(DOMAIN f) <= Cardinality(Loops!Moved(a, q))
<1>1. W \subseteq LoopSlots /\ IsFiniteSet(LoopSlots) /\ a \in Fleets /\ Consistent(a)
  BY LoopsAssumption DEF CallIs
<1>2. /\ DOMAIN f \subseteq BotIds
      /\ \A x \in DOMAIN f : /\ a.owner[x] \in W /\ Size(d, a.owner[x]) < Size(a, a.owner[x])
                             /\ f[x] \in W /\ Size(d, f[x]) > Size(a, f[x])
  BY Zenon DEF Shares
<1>3. Becomes(d, a, f) /\ d \in Fleets /\ Consistent(d)
  BY <1>1, <1>2, LaterIs DEF Shares
<1>4. \A c \in W : Size(a, c) \in Nat /\ Size(d, c) \in Nat /\ Size(q, c) \in Nat
  BY <1>1, <1>3, SizeIs
<1>5. PICK Q : Q = Loops!Moved(a, q)
  OBVIOUS
<1>6. IsFiniteSet(DOMAIN f)
  <2>1. IsFiniteSet(BotIds)
    BY LoopsAssumption, FS_Interval DEF BotIds, Loops!BotIds
  <2> QED BY <1>2, <2>1, FS_Subset
<1>7. IsFiniteSet(Q)
  <2>1. IsFiniteSet(BotIds)
    BY LoopsAssumption, FS_Interval DEF BotIds, Loops!BotIds
  <2>2. Q \subseteq BotIds
    BY <1>5 DEF Loops!Moved, BotIds
  <2> QED BY <2>1, <2>2, FS_Subset
<1> DEFINE Givers == {c \in W : Size(d, c) < Size(a, c)}
           Receivers == {c \in W : Size(d, c) > Size(a, c)}
<1>8. IsFiniteSet(Givers) /\ IsFiniteSet(Receivers)
  <2>1. Givers \subseteq LoopSlots /\ Receivers \subseteq LoopSlots
    BY <1>1
  <2> HIDE DEF Givers, Receivers
  <2> QED BY <1>1, <2>1, FS_Subset
<1>9. CASE \A c \in Givers : Size(q, c) <= Size(d, c)
  <2>1. ASSUME NEW c \in Givers
        PROVE  Cardinality(Labelled(DOMAIN f, a.owner, c)) <= Cardinality(Labelled(Q, a.owner, c))
    <3>1. c \in W /\ c \in LoopSlots /\ Size(d, c) < Size(a, c)
      BY <1>1
    <3>2. Size(a, c) = Size(d, c) + Cardinality(Labelled(DOMAIN f, a.owner, c))
      BY <3>1, SharedIs
    <3>3. IsFiniteSet(q.listed[c]) /\ IsFiniteSet(a.listed[c])
      BY <1>1, <3>1, SizeIs
    <3>4. a.listed[c] \subseteq q.listed[c] \cup Labelled(Q, a.owner, c) /\ IsFiniteSet(Labelled(Q, a.owner, c))
      BY <1>1, <1>5, <3>1, OwnersMoved
    <3>5. Size(a, c) <= Size(q, c) + Cardinality(Labelled(Q, a.owner, c))
          /\ Cardinality(Labelled(Q, a.owner, c)) \in Nat
      BY <3>3, <3>4, CoveredSize DEF Size
    <3>6. Size(q, c) <= Size(d, c)
      BY <1>9
    <3>7. Cardinality(Labelled(DOMAIN f, a.owner, c)) \in Nat
      <4>1. Labelled(DOMAIN f, a.owner, c) \subseteq DOMAIN f
        BY DEF Labelled
      <4> QED BY <1>6, <4>1, FS_Subset, FS_CardinalityType
    <3> QED BY <1>4, <3>1, <3>2, <3>5, <3>6, <3>7
  <2>2. \A x \in DOMAIN f : a.owner[x] \in Givers
    BY <1>2
  <2> HIDE DEF Givers
  <2>3. PICK o : o = a.owner
    OBVIOUS
  <2>4. \A c \in Givers : Cardinality(Labelled(DOMAIN f, o, c)) <= Cardinality(Labelled(Q, o, c))
    BY <2>1, <2>3
  <2>5. \A x \in DOMAIN f : o[x] \in Givers
    BY <2>2, <2>3
  <2>6. Cardinality(DOMAIN f) <= Cardinality(Q)
    BY <1>6, <1>7, <1>8, <2>4, <2>5, MoreOfEach
  <2> QED BY <1>5, <2>6
<1>10. CASE \E c \in Givers : ~(Size(q, c) <= Size(d, c))
  <2>1. PICK g \in Givers : Size(q, g) >= Size(d, g) + 1
    BY <1>4, <1>10
  <2>2. ASSUME NEW c \in Receivers
        PROVE  Cardinality(Labelled(DOMAIN f, f, c)) <= Cardinality(Labelled(Q, q.owner, c))
    <3>1. c \in W /\ c \in LoopSlots /\ Size(d, c) > Size(a, c)
      BY <1>1
    <3>2. Size(d, c) = Size(a, c) + Cardinality(Labelled(DOMAIN f, f, c))
      BY <3>1, SharedIs
    <3>3. IsFiniteSet(q.listed[c]) /\ IsFiniteSet(a.listed[c])
      BY <1>1, <3>1, SizeIs
    <3>4. q.listed[c] \subseteq a.listed[c] \cup Labelled(Q, q.owner, c) /\ IsFiniteSet(Labelled(Q, q.owner, c))
      BY <1>1, <1>5, <3>1, OwnersMoved
    <3>5. Size(q, c) <= Size(a, c) + Cardinality(Labelled(Q, q.owner, c))
          /\ Cardinality(Labelled(Q, q.owner, c)) \in Nat
      BY <3>3, <3>4, CoveredSize DEF Size
    <3>6. Size(q, c) >= Size(d, c)
      <4>1. g \in W /\ Size(d, g) < Size(a, g)
        OBVIOUS
      <4>2. Size(d, c) <= Size(d, g)
        BY <3>1, <4>1, Zenon DEF Shares
      <4>3. Size(q, g) <= Size(q, c) + 1
        BY <3>1, <4>1
      <4> QED BY <1>4, <2>1, <3>1, <4>1, <4>2, <4>3
    <3>7. Cardinality(Labelled(DOMAIN f, f, c)) \in Nat
      <4>1. Labelled(DOMAIN f, f, c) \subseteq DOMAIN f
        BY DEF Labelled
      <4> QED BY <1>6, <4>1, FS_Subset, FS_CardinalityType
    <3> QED BY <1>4, <3>1, <3>2, <3>5, <3>6, <3>7
  <2>3. \A x \in DOMAIN f : f[x] \in Receivers
    BY <1>2
  <2> HIDE DEF Receivers
  <2>4. PICK o : o = q.owner
    OBVIOUS
  <2>5. \A c \in Receivers : Cardinality(Labelled(DOMAIN f, f, c)) <= Cardinality(Labelled(Q, o, c))
    BY <2>2, <2>4
  <2>6. Cardinality(DOMAIN f) <= Cardinality(Q)
    BY <1>6, <1>7, <1>8, <2>3, <2>5, MoreOfEach
  <2> QED BY <1>5, <2>6
<1> QED BY <1>9, <1>10

\* while(reassignai()) leaves behind what Rebalanced says.
LEMMA RebalancedInTheEnd ==
  ASSUME NEW W, NEW who, NEW a, CallIs(W, who, a), NEW d, NEW f, Shares(W, a, d, f),
         \A c, e \in W : Size(d, c) <= Size(d, e) + 1
  PROVE  d \in Loops!Rebalanced(a, W)
<1>1. W \subseteq LoopSlots /\ a \in Fleets /\ Consistent(a) /\ W \subseteq Owners
  BY DEF CallIs, Owners, Loops!Owners
<1>2. /\ DOMAIN f \subseteq BotIds
      /\ \A x \in DOMAIN f : /\ a.owner[x] \in W /\ Size(d, a.owner[x]) < Size(a, a.owner[x])
                             /\ f[x] \in W /\ Size(d, f[x]) > Size(a, f[x])
      /\ (\A c, e \in W : Size(a, c) <= Size(a, e) + 1) => DOMAIN f = {}
  BY Zenon DEF Shares
<1>3. Becomes(d, a, f) /\ d \in Fleets /\ Consistent(d)
  BY <1>1, <1>2, LaterIs DEF Shares
<1>4. \A u : Loops!Even(u, W) <=> \A c, e \in W : Size(u, c) <= Size(u, e) + 1
  BY SizeIsLoad DEF Loops!Even
<1>5. CASE Loops!Even(a, W)
  <2>1. DOMAIN f = {}
    BY <1>2, <1>4, <1>5
  <2>2. d = a
    BY <1>1, <1>3, <2>1, NothingShifted, SameBecomes
  <2> QED BY <1>5, <2>2 DEF Loops!Rebalanced
<1>6. CASE ~Loops!Even(a, W)
  <2>1. PICK S : S = Loops!ListedBots(a, W)
    OBVIOUS
  <2>2. S = {b \in BotIds : a.owner[b] \in W}
    <3>1. S = UNION {a.listed[c] : c \in W}
      BY <2>1 DEF Loops!ListedBots
    <3>2. \A c \in W : a.listed[c] = {b \in BotIds : a.owner[b] = c}
      BY <1>1 DEF Consistent
    <3> QED BY <3>1, <3>2
  <2> DEFINE Changed(g) == [b \in {x \in S : g[x] # a.owner[x]} |-> g[b]]
             Outcomes == {Loops!Shifted(a, Changed(g)) : g \in [S -> W]}
             EvenOnes == {r \in Outcomes : Loops!Even(r, W)}
  <2>3. Loops!Rebalanced(a, W)
        = {r \in EvenOnes : \A q \in EvenOnes : Cardinality(Loops!Moved(a, r)) <= Cardinality(Loops!Moved(a, q))}
    BY <1>6, <2>1 DEF Loops!Rebalanced, Loops!Cardinality, Cardinality
  <2>4. d \in Outcomes
    <3>1. PICK g : g = [x \in S |-> IF x \in DOMAIN f THEN f[x] ELSE a.owner[x]]
      OBVIOUS
    <3>2. g \in [S -> W]
      BY <1>2, <2>2, <3>1
    <3>3. PICK h : h = Changed(g)
      OBVIOUS
    <3>4. {x \in S : g[x] # a.owner[x]} = DOMAIN f
      <4>1. \A c \in W : Size(a, c) \in Nat /\ Size(d, c) \in Nat
        BY <1>1, <1>3, SizeIs
      <4>2. ASSUME NEW x \in DOMAIN f PROVE x \in S /\ g[x] = f[x] /\ f[x] # a.owner[x]
        <5>1. x \in S /\ g[x] = f[x]
          BY <1>2, <2>2, <3>1
        <5>2. Size(d, f[x]) > Size(a, f[x]) /\ Size(d, a.owner[x]) < Size(a, a.owner[x])
              /\ f[x] \in W /\ a.owner[x] \in W
          BY <1>2
        <5> QED BY <4>1, <5>1, <5>2
      <4>3. \A x \in S : x \notin DOMAIN f => g[x] = a.owner[x]
        BY <3>1
      <4> QED BY <4>2, <4>3
    <3>5. DOMAIN h = DOMAIN f /\ \A x \in DOMAIN f : h[x] = f[x]
      <4>1. DOMAIN h = {x \in S : g[x] # a.owner[x]} /\ \A x \in DOMAIN h : h[x] = g[x]
        BY <3>3
      <4>2. \A x \in DOMAIN f : g[x] = f[x]
        BY <1>2, <2>2, <3>1
      <4> QED BY <3>4, <4>1, <4>2
    <3>6. h = FunctionOf(f)
      <4>1. h = [x \in DOMAIN h |-> h[x]]
        BY <3>3
      <4> QED BY <3>5, <4>1 DEF FunctionOf
    <3>7. Becomes(d, a, h)
      BY <1>3, <3>6, AsFunction
    <3>8. DOMAIN h \subseteq BotIds /\ \A x \in DOMAIN h : h[x] \in Owners
      BY <1>1, <1>2, <3>5
    <3>9. PICK s : s = Loops!Shifted(a, h)
      OBVIOUS
    <3>10. s = d
      <4>1. Becomes(s, a, h)
        BY <1>1, <3>8, <3>9, ShiftedIs
      <4> QED BY <4>1, <3>7, SameBecomes
    <3>11. d = Loops!Shifted(a, Changed(g))
      BY <3>3, <3>9, <3>10
    <3> HIDE DEF Changed
    <3> QED BY <3>2, <3>11
  <2>5. d \in EvenOnes
    BY <1>4, <2>4
  <2>6. ASSUME NEW q \in EvenOnes
        PROVE  Cardinality(Loops!Moved(a, d)) <= Cardinality(Loops!Moved(a, q))
    <3>1. PICK g \in [S -> W] : q = Loops!Shifted(a, Changed(g))
      BY <2>6
    <3>2. PICK h : h = Changed(g)
      OBVIOUS
    <3>3. DOMAIN h \subseteq S /\ \A x \in DOMAIN h : h[x] \in W
      BY <3>1, <3>2
    <3>4. DOMAIN h \subseteq BotIds /\ \A x \in DOMAIN h : h[x] \in Owners
      BY <1>1, <2>2, <3>3
    <3>5. Becomes(q, a, h)
      BY <1>1, <3>1, <3>2, <3>4, ShiftedIs
    <3>6. q \in Fleets /\ Consistent(q)
      BY <1>1, <3>4, <3>5, LaterIs
    <3>7. \A c, e \in W : Size(q, c) <= Size(q, e) + 1
      <4>1. Loops!Even(q, W)
        BY <2>6
      <4> QED BY <1>4, <4>1
    <3>8. Cardinality(DOMAIN f) <= Cardinality(Loops!Moved(a, q))
      BY <3>6, <3>7, FewestMoves
    <3>9. Loops!Moved(a, d) \subseteq DOMAIN f
      <4>1. d.owner = [b \in BotIds |-> IF b \in DOMAIN f THEN f[b] ELSE a.owner[b]]
        BY <1>3 DEF Becomes
      <4> QED BY <4>1 DEF Loops!Moved, BotIds
    <3>10. IsFiniteSet(DOMAIN f) /\ IsFiniteSet(Loops!Moved(a, q))
      <4>1. IsFiniteSet(BotIds)
        BY LoopsAssumption, FS_Interval DEF BotIds, Loops!BotIds
      <4>2. Loops!Moved(a, q) \subseteq BotIds
        BY DEF Loops!Moved, BotIds
      <4> QED BY <1>2, <4>1, <4>2, FS_Subset
    <3>11. /\ Cardinality(Loops!Moved(a, d)) <= Cardinality(DOMAIN f)
           /\ Cardinality(Loops!Moved(a, d)) \in Nat /\ Cardinality(DOMAIN f) \in Nat
           /\ Cardinality(Loops!Moved(a, q)) \in Nat
      BY <3>9, <3>10, FS_Subset, FS_CardinalityType
    <3> QED BY <3>8, <3>11
  <2> HIDE DEF EvenOnes
  <2> QED BY <2>3, <2>5, <2>6
<1> QED BY <1>5, <1>6

LEMMA EndedIsEven ==
  ASSUME LoopInv, Loops!Ended, leaving = NoSlot
  PROVE  \A c, e \in V : Size(now, c) <= Size(now, e) + 1
<1> SUFFICES ASSUME NEW c \in V, NEW e \in V PROVE Size(now, c) <= Size(now, e) + 1
  OBVIOUS
<1>1. V \subseteq LoopSlots /\ now \in Fleets
  BY LaterFleet
<1>2. IsFiniteSet(V) /\ V # {}
  BY <1>1, LoopsAssumption, FS_Subset
<1>3. \A x \in V : Size(now, x) \in Nat
  BY <1>1, SizeIs
<1>4. PICK s : s = [x \in V |-> Size(now, x)]
  OBVIOUS
<1>5. PICK h \in V : \A x \in V : Size(now, x) <= Size(now, h)
  <2>1. \A x \in V : s[x] = Size(now, x) /\ s[x] \in Int
    BY <1>3, <1>4
  <2>2. \E h \in V : \A x \in V : s[x] <= s[h]
    BY <1>2, <2>1, Greatest
  <2> QED BY <2>1, <2>2
<1>6. PICK z : z = [x \in V |-> -Size(now, x)]
  OBVIOUS
<1>7. PICK l \in V : \A x \in V : Size(now, l) <= Size(now, x)
  <2>1. \A x \in V : z[x] = -Size(now, x) /\ z[x] \in Int
    BY <1>3, <1>6
  <2>2. \E l \in V : \A x \in V : z[x] <= z[l]
    BY <1>2, <2>1, Greatest
  <2>3. \A x, y \in V : z[x] <= z[y] => Size(now, y) <= Size(now, x)
    BY <1>3, <2>1
  <2> QED BY <2>2, <2>3
<1>8. h \in Loops!Most(now, V) /\ l \in Loops!Least(now, V)
  BY <1>5, <1>7, SizeIsLoad DEF Loops!Most, Loops!Least
<1>9. ~(Size(now, h) - Size(now, l) > 1)
  <2>1. ~Loops!Apart(h, l)
    BY <1>8 DEF Loops!Ended
  <2> QED BY <2>1, SizeIsLoad DEF Loops!Apart
<1> QED BY <1>3, <1>5, <1>7, <1>9

LEMMA LoopsAgreeInTheEnd ==
  ASSUME LoopInv
  PROVE  LoopsAgree
<1> SUFFICES ASSUME Loops!Ended
             PROVE  now \in IF leaving # NoSlot THEN Loops!Released(start, {leaving}, V)
                            ELSE Loops!Rebalanced(start, V)
  BY DEF LoopsAgree, Loops!LoopsAgree
<1>1. CASE leaving # NoSlot
  <2>1. PICK f : Removes(V, leaving, start, now, f)
    BY <1>1 DEF LoopInv
  <2>2. now.listed[leaving] = {} /\ CallIs(V, leaving, start)
    BY <1>1 DEF LoopInv, Loops!Ended
  <2>3. now \in Loops!Released(start, {leaving}, V)
    BY <1>1, <2>1, <2>2, ReleasedInTheEnd
  <2> QED BY <1>1, <2>3
<1>2. CASE leaving = NoSlot
  <2>1. PICK f : Shares(V, start, now, f)
    BY <1>2 DEF LoopInv
  <2>2. CallIs(V, leaving, start) /\ \A c, e \in V : Size(now, c) <= Size(now, e) + 1
    BY <1>2, EndedIsEven DEF LoopInv
  <2>3. now \in Loops!Rebalanced(start, V)
    BY <2>1, <2>2, RebalancedInTheEnd
  <2> QED BY <1>2, <2>3
<1> QED BY <1>1, <1>2

LEMMA LobbyStartsLoops == LobbyInit => LoopInv
BY LoopsStart DEF LobbyInit, LoopsRest

\* When the loop of removeai() or of reassignai() ends, whatever the order of
\* the clients and bots it took, the bots are shared out as Released, or
\* Rebalanced, says: no receiver is more than one bot above another client, and
\* no way to even the clients out moves fewer bots than reassignai() did.
THEOREM LoopsLeaveFairShares == LobbySpec => []LoopsAgree
<1>1. LobbyInit => LoopInv
  BY LobbyStartsLoops
<1>2. LoopInv /\ [LobbyNext]_<<part, vars, loopVars, teamVars>> => LoopInv'
  BY LoopsKeep
<1>3. LoopInv => LoopsAgree
  BY LoopsAgreeInTheEnd
<1> QED BY <1>1, <1>2, <1>3, PTL DEF LobbySpec

-----------------------------------------------------------------------------
(* Every turn makes the variant smaller.                                   *)

LEMMA LoopSumIs ==
  ASSUME NEW f
  PROVE  Loops!SumFunction(f) = (CHOOSE g : SumsUp(f, g, SUBSET DOMAIN f))[DOMAIN f]
BY Zenon DEF Loops!SumFunction, Loops!SumFunctionOnSet, Loops!FoldFunctionOnSet, Loops!MapThenFoldSet,
   SumsUp, First

\* A sum whose terms change at h and l only changes by as much.
LEMMA SumShift ==
  ASSUME NEW S, IsFiniteSet(S), NEW f \in [S -> Int], NEW r \in [S -> Int], NEW h \in S, NEW l \in S, h # l,
         NEW v \in Int, r[h] = f[h] + v, NEW w \in Int, r[l] = f[l] + w,
         \A x \in S : x # h /\ x # l => r[x] = f[x]
  PROVE  Loops!SumFunction(f) \in Int /\ Loops!SumFunction(r) = Loops!SumFunction(f) + v + w
<1>1. PICK g : g = CHOOSE k : SumsUp(f, k, SUBSET S)
  OBVIOUS
<1>2. PICK q : q = CHOOSE k : SumsUp(r, k, SUBSET S)
  OBVIOUS
<1>3. SumsUp(f, g, SUBSET S) /\ SumsUp(r, q, SUBSET S)
  BY <1>1, <1>2, SumExists, Zenon
<1>4. Loops!SumFunction(f) = g[S] /\ Loops!SumFunction(r) = q[S]
  <2>1. DOMAIN f = S /\ DOMAIN r = S
    OBVIOUS
  <2> QED BY <1>1, <1>2, <2>1, LoopSumIs
<1>5. \A s \in SUBSET S : /\ g[s] = IF s = {} THEN 0 ELSE f[First(s)] + g[s \ {First(s)}]
                          /\ q[s] = IF s = {} THEN 0 ELSE r[First(s)] + q[s \ {First(s)}]
  BY <1>3 DEF SumsUp
<1> DEFINE Right(s) == /\ g[s] \in Int
                       /\ q[s] = g[s] + (IF h \in s THEN v ELSE 0) + (IF l \in s THEN w ELSE 0)
           N == {n \in Nat : \A s \in SUBSET S : Cardinality(s) = n => Right(s)}
<1>6. 0 \in N
  <2> SUFFICES ASSUME NEW s \in SUBSET S, Cardinality(s) = 0 PROVE Right(s)
    OBVIOUS
  <2>1. s = {}
    BY FS_Subset, FS_EmptySet
  <2> QED BY <1>5, <2>1
<1>7. ASSUME NEW n \in Nat, n \in N PROVE n + 1 \in N
  <2> SUFFICES ASSUME NEW s \in SUBSET S, Cardinality(s) = n + 1 PROVE Right(s)
    OBVIOUS
  <2>1. IsFiniteSet(s) /\ s # {}
    BY FS_Subset, FS_EmptySet
  <2>2. PICK y : y = First(s) /\ y \in s
    BY <2>1 DEF First
  <2>3. PICK o : o = s \ {y}
    OBVIOUS
  <2>4. Cardinality(o) = n /\ o \in SUBSET S
    <3>1. Cardinality(s \ {y}) = Cardinality(s) - 1
      BY <2>1, <2>2, FS_RemoveElement
    <3> QED BY <2>3, <3>1
  <2>5. Right(o)
    BY <1>7, <2>4
  <2>6. g[s] = f[y] + g[o] /\ q[s] = r[y] + q[o] /\ f[y] \in Int /\ r[y] \in Int
    BY <1>5, <2>1, <2>2, <2>3
  <2>7. CASE y = h
    <3>1. h \in s /\ h \notin o /\ (l \in s <=> l \in o) /\ r[y] = f[y] + v
      BY <2>2, <2>3, <2>7
    <3> QED BY <2>5, <2>6, <3>1
  <2>8. CASE y = l
    <3>1. l \in s /\ l \notin o /\ (h \in s <=> h \in o) /\ r[y] = f[y] + w
      BY <2>2, <2>3, <2>8
    <3> QED BY <2>5, <2>6, <3>1
  <2>9. CASE y # h /\ y # l
    <3>1. (l \in s <=> l \in o) /\ (h \in s <=> h \in o) /\ r[y] = f[y]
      BY <2>2, <2>3, <2>9
    <3> QED BY <2>5, <2>6, <3>1
  <2> QED BY <2>7, <2>8, <2>9
<1>8. Cardinality(S) \in N
  <2>1. Cardinality(S) \in Nat
    BY FS_CardinalityType
  <2> HIDE DEF N
  <2> QED BY <1>6, <1>7, <2>1, InductiveSet
<1>9. Right(S)
  BY <1>8
<1> QED BY <1>4, <1>9

LEMMA SquaresFall ==
  ASSUME NEW s \in Nat, NEW t \in Nat, s - t > 1, NEW z \in Int
  PROVE  /\ (s - 1) * (s - 1) - s * s \in Int /\ (t + 1) * (t + 1) - t * t \in Int
         /\ z + ((s - 1) * (s - 1) - s * s) + ((t + 1) * (t + 1) - t * t) < z
<1>1. (s - 1) * (s - 1) = s * s - 2 * s + 1 /\ (t + 1) * (t + 1) = t * t + 2 * t + 1
  OBVIOUS
<1>2. s * s \in Int /\ t * t \in Int
  OBVIOUS
<1> QED BY <1>1, <1>2

Squares(W, a) == [c \in W |-> Size(a, c) * Size(a, c)]

LEMMA VariantIs ==
  Loops!Variant = IF leaving # NoSlot THEN Size(now, leaving) ELSE Loops!SumFunction(Squares(V, now))
<1>1. [c \in V |-> Loops!Load(now, c) * Loops!Load(now, c)] = Squares(V, now)
  BY SizeIsLoad DEF Squares
<1> QED BY <1>1, SizeIsLoad DEF Loops!Variant

\* A shift from h to l, two or more behind, lessens the sum of the squares.
LEMMA SquaresShift ==
  ASSUME NEW W \in SUBSET LoopSlots, NEW a \in Fleets, Consistent(a), NEW h \in W, NEW l \in W,
         Size(a, h) - Size(a, l) > 1, NEW b \in a.listed[h], NEW d, Becomes(d, a, [x \in {b} |-> l])
  PROVE  Loops!SumFunction(Squares(W, d)) < Loops!SumFunction(Squares(W, a))
<1>1. b \in BotIds /\ a.owner[b] = h /\ l \in Owners
  BY SizeIs DEF Consistent, Owners, Loops!Owners
<1>2. \A c \in W : Size(a, c) \in Nat
  BY SizeIs
<1>3. h # l
  BY <1>2
<1>4. \A c \in LoopSlots : Size(d, c) = IF c = l THEN Size(a, c) + 1
                                        ELSE IF c = a.owner[b] THEN Size(a, c) - 1 ELSE Size(a, c)
  BY <1>1, <1>3, SizeShift
<1>5. PICK s \in Nat, t \in Nat : s = Size(a, h) /\ t = Size(a, l)
  BY <1>2
<1>6. /\ Size(d, h) = s - 1 /\ Size(d, l) = t + 1 /\ s - t > 1
      /\ \A c \in W : c # h /\ c # l => Size(d, c) = Size(a, c)
  BY <1>1, <1>3, <1>4, <1>5
<1>7. PICK f : f = Squares(W, a)
  OBVIOUS
<1>8. PICK r : r = Squares(W, d)
  OBVIOUS
<1>9. \A c \in W : f[c] = Size(a, c) * Size(a, c) /\ r[c] = Size(d, c) * Size(d, c)
  BY <1>7, <1>8 DEF Squares
<1>10. \A c \in W : Size(d, c) \in Int
  BY <1>2, <1>5, <1>6
<1>11. f \in [W -> Int] /\ r \in [W -> Int]
  <2>1. \A x \in Int : x * x \in Int
    OBVIOUS
  <2>2. \A c \in W : Size(a, c) * Size(a, c) \in Int /\ Size(d, c) * Size(d, c) \in Int
    BY <1>2, <1>10, <2>1
  <2> QED BY <1>7, <1>8, <2>2 DEF Squares
<1>12. PICK v, w : v = (s - 1) * (s - 1) - s * s /\ w = (t + 1) * (t + 1) - t * t
  OBVIOUS
<1>13. v \in Int /\ w \in Int /\ \A z \in Int : z + v + w < z
  BY <1>5, <1>6, <1>12, SquaresFall
<1>14. r[h] = f[h] + v /\ r[l] = f[l] + w
  <2>1. f[h] = s * s /\ f[l] = t * t /\ r[h] = (s - 1) * (s - 1) /\ r[l] = (t + 1) * (t + 1)
    BY <1>5, <1>6, <1>9
  <2>2. \A x, y \in Int : x = y + (x - y)
    OBVIOUS
  <2>3. s * s \in Int /\ t * t \in Int /\ (s - 1) * (s - 1) \in Int /\ (t + 1) * (t + 1) \in Int
    OBVIOUS
  <2> QED BY <1>12, <2>1, <2>2, <2>3, Zenon
<1>15. \A x \in W : x # h /\ x # l => r[x] = f[x]
  BY <1>6, <1>9
<1>16. IsFiniteSet(W)
  BY LoopsAssumption, FS_Subset
<1>17. Loops!SumFunction(f) \in Int /\ Loops!SumFunction(r) = Loops!SumFunction(f) + v + w
  BY <1>3, <1>11, <1>13, <1>14, <1>15, <1>16, SumShift
<1> QED BY <1>7, <1>8, <1>13, <1>17

\* Tables with the same owners are the same when nothing was shifted twice.
LEMMA NothingToCall ==
  ASSUME LoopInv, Loops!Call, UNCHANGED <<V, leaving, start>>
  PROVE  now' = now
<1>1. start' = Loops!Fresh(now.owner) /\ now' = start'
  BY DEF Loops!Call
<1>2. now.owner \in [BotIds -> Owners] /\ start \in Fleets /\ Consistent(start) /\ now \in Fleets
      /\ V \subseteq LoopSlots /\ leaving \in (LoopSlots \ V) \cup {NoSlot}
  BY LaterFleet, FleetIs
<1>3. PICK s : s = start
  OBVIOUS
<1>4. s = Loops!Fresh(now.owner)
  BY <1>1, <1>3
<1>5. s.owner = now.owner
  BY <1>2, <1>4, FreshIs
<1>6. \E f : DOMAIN f \subseteq BotIds /\ Becomes(now, s, f) /\ \A x \in DOMAIN f : f[x] # s.owner[x]
  <2>1. CASE leaving # NoSlot
    <3>1. PICK f : Removes(V, leaving, start, now, f)
      BY <2>1 DEF LoopInv
    <3>2. DOMAIN f \subseteq start.listed[leaving] /\ Becomes(now, start, f)
          /\ \A x \in DOMAIN f : f[x] \in Takers(V)
      BY <3>1, Zenon DEF Removes
    <3>3. \A x \in start.listed[leaving] : x \in BotIds /\ start.owner[x] = leaving
      BY <1>2, <2>1 DEF Consistent
    <3>4. leaving \notin Takers(V)
      BY <1>2, <2>1 DEF Takers
    <3> QED BY <1>3, <3>2, <3>3, <3>4
  <2>2. CASE leaving = NoSlot
    <3>1. PICK f : Shares(V, start, now, f)
      BY <2>2 DEF LoopInv
    <3>2. /\ DOMAIN f \subseteq BotIds /\ Becomes(now, start, f)
          /\ \A x \in DOMAIN f : /\ start.owner[x] \in V /\ Size(now, start.owner[x]) < Size(start, start.owner[x])
                                 /\ f[x] \in V /\ Size(now, f[x]) > Size(start, f[x])
      BY <3>1, Zenon DEF Shares
    <3>3. \A c \in V : Size(now, c) \in Nat /\ Size(start, c) \in Nat
      BY <1>2, SizeIs
    <3>4. \A x \in DOMAIN f : f[x] # start.owner[x]
      <4> SUFFICES ASSUME NEW x \in DOMAIN f, f[x] = start.owner[x] PROVE FALSE
        OBVIOUS
      <4>1. PICK c \in V : c = f[x] /\ Size(now, c) < Size(start, c) /\ Size(now, c) > Size(start, c)
        BY <3>2
      <4> QED BY <3>3, <4>1
    <3> QED BY <1>3, <3>2, <3>4
  <2> QED BY <2>1, <2>2
<1>7. PICK f : DOMAIN f \subseteq BotIds /\ Becomes(now, s, f) /\ \A x \in DOMAIN f : f[x] # s.owner[x]
  BY <1>6
<1>8. DOMAIN f = {}
  <2>1. now.owner = [b \in BotIds |-> IF b \in DOMAIN f THEN f[b] ELSE s.owner[b]]
    BY <1>7 DEF Becomes
  <2> QED BY <1>5, <1>7, <2>1
<1>9. now = s
  <2>1. Becomes(s, s, f)
    BY <1>2, <1>3, <1>8, NothingShifted
  <2> QED BY <1>7, <2>1, SameBecomes
<1> QED BY <1>1, <1>3, <1>9

LEMMA TurnsLess ==
  ASSUME LoopInv, Loops!RemoveTurn \/ Loops!ReassignTurn
  PROVE  Loops!Variant' < Loops!Variant
<1>1. UNCHANGED <<V, leaving, start>> /\ now \in Fleets /\ Consistent(now) /\ V \subseteq LoopSlots
      /\ leaving \in (LoopSlots \ V) \cup {NoSlot}
  BY LaterFleet DEF Loops!RemoveTurn, Loops!ReassignTurn
<1>2. PICK e : e = now'
  OBVIOUS
<1>3. Loops!Variant' = IF leaving # NoSlot THEN Size(e, leaving) ELSE Loops!SumFunction(Squares(V, e))
  <2>1. [c \in V' |-> Loops!Load(now', c) * Loops!Load(now', c)] = Squares(V, e)
    BY <1>1, <1>2, SizeIsLoad DEF Squares
  <2> QED BY <1>1, <1>2, <2>1, SizeIsLoad DEF Loops!Variant
<1>4. CASE Loops!RemoveTurn
  <2>1. PICK b \in now.listed[leaving], t \in IF V = {} THEN {NoSlot} ELSE Loops!Least(now, V) :
           now' = Loops!Shifted(now, [x \in {b} |-> t])
    BY <1>4 DEF Loops!RemoveTurn, Loops!ShiftOne
  <2>2. leaving # NoSlot /\ leaving \in LoopSlots
    BY <1>1, <1>4 DEF Loops!RemoveTurn
  <2>3. b \in BotIds /\ now.owner[b] = leaving
    BY <1>1, <2>1, <2>2 DEF Consistent
  <2>4. t \in Owners /\ t # leaving
    BY <1>1, <2>1, <2>2 DEF Loops!Least, Owners, Loops!Owners
  <2>5. Becomes(e, now, [x \in {b} |-> t])
    BY <1>1, <1>2, <2>1, <2>3, <2>4, ShiftOneIs
  <2>6. Size(e, leaving) = Size(now, leaving) - 1 /\ Size(now, leaving) \in Nat
    <3>1. \A c \in LoopSlots : Size(e, c) = IF c = t THEN Size(now, c) + 1
                                            ELSE IF c = now.owner[b] THEN Size(now, c) - 1 ELSE Size(now, c)
      BY <1>1, <2>3, <2>4, <2>5, SizeShift
    <3> QED BY <1>1, <2>2, <2>3, <2>4, <3>1, SizeIs
  <2> QED BY <1>3, <2>2, <2>6, VariantIs
<1>5. CASE Loops!ReassignTurn
  <2>1. PICK h \in Loops!Most(now, V), l \in Loops!Least(now, V) :
          Loops!Apart(h, l) /\ \E b \in now.listed[h] : now' = Loops!Shifted(now, [x \in {b} |-> l])
    BY <1>5 DEF Loops!ReassignTurn, Loops!ShiftOne
  <2>2. PICK b \in now.listed[h] : now' = Loops!Shifted(now, [x \in {b} |-> l])
    BY <2>1
  <2>3. h \in V /\ l \in V /\ Size(now, h) - Size(now, l) > 1
    BY <2>1, SizeIsLoad DEF Loops!Most, Loops!Least, Loops!Apart
  <2>4. b \in BotIds /\ l \in Owners
    BY <1>1, <2>2, <2>3, SizeIs DEF Owners, Loops!Owners
  <2>5. Becomes(e, now, [x \in {b} |-> l])
    BY <1>1, <1>2, <2>2, <2>4, ShiftOneIs
  <2>6. leaving = NoSlot
    BY <1>5 DEF Loops!ReassignTurn
  <2>7. Loops!SumFunction(Squares(V, e)) < Loops!SumFunction(Squares(V, now))
    BY <1>1, <2>2, <2>3, <2>5, SquaresShift
  <2> QED BY <1>3, <2>6, <2>7, VariantIs
<1> QED BY <1>4, <1>5

\* Every turn of the loops of removeai() and reassignai() makes the number of
\* bots that are left, or the sum of the squares of the clients' loads, smaller.
THEOREM LoopsAlwaysEnd == LobbySpec => LoopsEnd
<1>1. LobbyInit => LoopInv
  BY LobbyStartsLoops
<1>2. LoopInv /\ [LobbyNext]_<<part, vars, loopVars, teamVars>> => LoopInv'
  BY LoopsKeep
<1>3. LoopInv /\ [LobbyNext]_<<part, vars, loopVars, teamVars>>
      => [UNCHANGED <<V, leaving, start>> => Loops!Variant' < Loops!Variant]_(Loops!vars)
  <2> SUFFICES ASSUME LoopInv, [LobbyNext]_<<part, vars, loopVars, teamVars>>, UNCHANGED <<V, leaving, start>>,
                      ~UNCHANGED Loops!vars
               PROVE  Loops!Variant' < Loops!Variant
    OBVIOUS
  <2>1. Loops!Next
    BY DEF LobbyNext, loopVars, Loops!vars
  <2>2. ~Loops!Call
    BY NothingToCall DEF Loops!vars
  <2> QED BY <2>1, <2>2, TurnsLess DEF Loops!Next, Loops!Turn
<1> QED BY <1>1, <1>2, <1>3, PTL DEF LobbySpec, LoopsEnd, Loops!LoopsEnd
=============================================================================
