----------------------------- MODULE MatchProofs -----------------------------
(***************************************************************************)
(* Proofs about MCMatch: how one match follows another, whoever votes and  *)
(* whatever the maps, and how one player gets his lives.                   *)
(***************************************************************************)
EXTENDS MCMatch, SequenceTheorems, TLAPS

-----------------------------------------------------------------------------
(* Sequences.                                                              *)

LEMMA TailRange ==
  ASSUME NEW S, NEW s \in Seq(S), s # <<>>
  PROVE  /\ Tail(s) \in Seq(S) /\ Head(s) \in Range(s)
         /\ Range(Tail(s)) \subseteq Range(s)
         /\ Range(s) \subseteq {Head(s)} \cup Range(Tail(s))
<1>1. /\ Tail(s) \in Seq(S) /\ Len(Tail(s)) = Len(s) - 1 /\ Len(s) \in Nat \ {0}
      /\ \A i \in 1 .. Len(Tail(s)) : Tail(s)[i] = s[i + 1]
  BY HeadTailProperties, EmptySeq
<1>2. DOMAIN s = 1 .. Len(s) /\ DOMAIN Tail(s) = 1 .. Len(Tail(s))
  BY <1>1, LenProperties
<1>3. Head(s) = s[1]
  OBVIOUS
<1>4. Head(s) \in Range(s)
  BY <1>1, <1>2, <1>3 DEF Range
<1>5. Range(Tail(s)) \subseteq Range(s)
  BY <1>1, <1>2 DEF Range
<1>6. Range(s) \subseteq {Head(s)} \cup Range(Tail(s))
  <2> SUFFICES ASSUME NEW i \in 1 .. Len(s), i # 1
               PROVE  s[i] \in Range(Tail(s))
    BY <1>2, <1>3 DEF Range
  <2>1. i - 1 \in 1 .. Len(Tail(s)) /\ Tail(s)[i - 1] = s[i]
    BY <1>1
  <2> QED BY <1>2, <2>1 DEF Range
<1> QED BY <1>1, <1>4, <1>5, <1>6

LEMMA AppendRange ==
  ASSUME NEW S, NEW s \in Seq(S), NEW e \in S
  PROVE  Append(s, e) \in Seq(S) /\ Range(Append(s, e)) = Range(s) \cup {e}
<1>1. /\ Append(s, e) \in Seq(S) /\ Len(Append(s, e)) = Len(s) + 1 /\ Len(s) \in Nat
      /\ \A i \in 1 .. Len(s) : Append(s, e)[i] = s[i]
      /\ Append(s, e)[Len(s) + 1] = e
  BY AppendProperties, LenProperties
<1>2. DOMAIN s = 1 .. Len(s) /\ DOMAIN Append(s, e) = 1 .. Len(s) + 1
  BY <1>1, LenProperties
<1>3. Range(Append(s, e)) \subseteq Range(s) \cup {e}
  <2> SUFFICES ASSUME NEW i \in 1 .. Len(s) + 1
               PROVE  Append(s, e)[i] \in Range(s) \cup {e}
    BY <1>2 DEF Range
  <2>1. CASE i \in 1 .. Len(s)
    BY <1>1, <1>2, <2>1 DEF Range
  <2>2. CASE i = Len(s) + 1
    BY <1>1, <2>2
  <2> QED BY <1>1, <2>1, <2>2
<1>4. Range(s) \subseteq Range(Append(s, e))
  <2> SUFFICES ASSUME NEW i \in 1 .. Len(s) PROVE s[i] \in Range(Append(s, e))
    BY <1>2 DEF Range
  <2>1. i \in 1 .. Len(s) + 1 /\ Append(s, e)[i] = s[i]
    BY <1>1
  <2> QED BY <1>2, <2>1 DEF Range
<1>5. e \in Range(Append(s, e))
  <2>1. Len(s) + 1 \in 1 .. Len(s) + 1
    BY <1>1
  <2> QED BY <1>1, <1>2, <2>1 DEF Range
<1> QED BY <1>1, <1>3, <1>4, <1>5

-----------------------------------------------------------------------------
(* The demos.                                                              *)

Tags == {"this", "earlier"}

\* At most one demo is of the match that runs.
OneOfThis(d) == \A i, j \in DOMAIN d : d[i] = "this" /\ d[j] = "this" => i = j

LEMMA EndDemoIs ==
  ASSUME NEW d \in Seq(Tags), Len(d) <= MaxDemos, OneOfThis(d),
         NEW rec \in {"none", "this"}, rec = "this" => "this" \notin Range(d)
  PROVE  /\ EndDemo(d, rec) \in Seq(Tags) /\ Len(EndDemo(d, rec)) <= MaxDemos
         /\ OneOfThis(EndDemo(d, rec))
<1>1. CASE rec = "none"
  BY <1>1 DEF EndDemo
<1>2. CASE rec = "this"
  <2> DEFINE e == IF Len(d) >= MaxDemos THEN Tail(d) ELSE d
  <2>0. Len(d) \in Nat /\ DOMAIN d = 1 .. Len(d)
    BY LenProperties
  <2>1. e \in Seq(Tags) /\ Len(e) < MaxDemos /\ "this" \notin Range(e) /\ Len(e) \in Nat
    <3>1. CASE Len(d) >= MaxDemos
      <4>1. d # <<>>
        BY <2>0, <3>1, DemoAssumption, EmptySeq
      <4>2. Tail(d) \in Seq(Tags) /\ Len(Tail(d)) = Len(d) - 1
            /\ Range(Tail(d)) \subseteq Range(d)
        BY <4>1, TailRange, HeadTailProperties
      <4> QED BY <1>2, <2>0, <3>1, <4>2, DemoAssumption, LenProperties
    <3>2. CASE ~(Len(d) >= MaxDemos)
      BY <1>2, <2>0, <3>2, DemoAssumption
    <3> QED BY <3>1, <3>2
  <2>2. EndDemo(d, rec) = Append(e, rec)
    BY <1>2 DEF EndDemo
  <2> HIDE DEF e
  <2>3. rec \in Tags
    BY <1>2 DEF Tags
  <2>4. /\ Append(e, rec) \in Seq(Tags) /\ Len(Append(e, rec)) = Len(e) + 1
        /\ \A i \in 1 .. Len(e) : Append(e, rec)[i] = e[i]
        /\ DOMAIN Append(e, rec) = 1 .. Len(e) + 1 /\ DOMAIN e = 1 .. Len(e)
    BY <2>1, <2>3, AppendProperties, LenProperties
  <2>5. OneOfThis(Append(e, rec))
    <3>1. \A i \in 1 .. Len(e) : Append(e, rec)[i] # "this"
      BY <2>1, <2>4 DEF Range
    <3>2. \A i \in DOMAIN Append(e, rec) : i # Len(e) + 1 => i \in 1 .. Len(e)
      BY <2>1, <2>4
    <3> QED BY <3>1, <3>2 DEF OneOfThis
  <2> QED BY <2>1, <2>2, <2>4, <2>5, DemoAssumption
<1> QED BY <1>1, <1>2

LEMMA RemoveIs ==
  ASSUME NEW d \in Seq(Tags), NEW n \in 1 .. Len(d), OneOfThis(d)
  PROVE  /\ RemoveAt(d, n) \in Seq(Tags) /\ Len(RemoveAt(d, n)) = Len(d) - 1
         /\ Range(RemoveAt(d, n)) \subseteq Range(d) /\ OneOfThis(RemoveAt(d, n))
<1> DEFINE a == SubSeq(d, 1, n - 1)
           b == SubSeq(d, n + 1, Len(d))
           from(i) == IF i < n THEN i ELSE i + 1
<1>0. Len(d) \in Nat /\ DOMAIN d = 1 .. Len(d) /\ \A i \in 1 .. Len(d) : d[i] \in Tags
  BY LenProperties, ElementOfSeq
<1>1. a \in Seq(Tags) /\ Len(a) = n - 1 /\ \A i \in 1 .. n - 1 : a[i] = d[i]
  <2>1. \A i \in 1 .. n - 1 : d[i] \in Tags
    BY <1>0
  <2>2. /\ a \in Seq(Tags)
        /\ Len(a) = IF 1 <= n - 1 THEN (n - 1) - 1 + 1 ELSE 0
        /\ \A i \in 1 .. (n - 1) - 1 + 1 : a[i] = d[1 + i - 1]
    BY <1>0, <2>1, SubSeqProperties
  <2> QED BY <1>0, <2>2
<1>2. b \in Seq(Tags) /\ Len(b) = Len(d) - n /\ \A i \in 1 .. Len(d) - n : b[i] = d[n + i]
  <2>1. \A i \in n + 1 .. Len(d) : d[i] \in Tags
    BY <1>0
  <2>2. /\ b \in Seq(Tags)
        /\ Len(b) = IF n + 1 <= Len(d) THEN Len(d) - (n + 1) + 1 ELSE 0
        /\ \A i \in 1 .. Len(d) - (n + 1) + 1 : b[i] = d[(n + 1) + i - 1]
    BY <1>0, <2>1, SubSeqProperties
  <2> HIDE DEF b
  <2>3. Len(b) = Len(d) - n
    <3>1. Len(b) = IF n + 1 <= Len(d) THEN Len(d) - (n + 1) + 1 ELSE 0
      BY <2>2
    <3>2. n \in Nat /\ n <= Len(d) /\ Len(d) \in Nat
      BY <1>0
    <3>3. CASE n + 1 <= Len(d)
      BY <3>1, <3>2, <3>3
    <3>4. CASE ~(n + 1 <= Len(d))
      BY <3>1, <3>2, <3>4
    <3> QED BY <3>3, <3>4
  <2>4. \A i \in 1 .. Len(d) - n : (n + 1) + i - 1 = n + i
    BY <1>0
  <2>5. Len(d) - (n + 1) + 1 = Len(d) - n
    BY <1>0
  <2> QED BY <2>2, <2>3, <2>4, <2>5
<1>3. RemoveAt(d, n) = a \o b
  BY DEF RemoveAt
<1> HIDE DEF a, b
<1>4. /\ a \o b \in Seq(Tags) /\ Len(a \o b) = Len(d) - 1
      /\ \A i \in 1 .. Len(d) - 1 : (a \o b)[i] = d[from(i)] /\ from(i) \in 1 .. Len(d)
  <2>1. /\ a \o b \in Seq(Tags) /\ Len(a \o b) = Len(a) + Len(b)
        /\ \A i \in 1 .. Len(a) + Len(b) :
             (a \o b)[i] = IF i <= Len(a) THEN a[i] ELSE b[i - Len(a)]
    BY <1>1, <1>2, ConcatProperties
  <2> QED BY <1>0, <1>1, <1>2, <2>1
<1>5. DOMAIN (a \o b) = 1 .. Len(d) - 1
  BY <1>4, LenProperties
<1>6. Range(a \o b) \subseteq Range(d)
  BY <1>0, <1>4, <1>5 DEF Range
<1>7. OneOfThis(a \o b)
  <2> SUFFICES ASSUME NEW i \in 1 .. Len(d) - 1, NEW j \in 1 .. Len(d) - 1,
                      (a \o b)[i] = "this", (a \o b)[j] = "this"
               PROVE  i = j
    BY <1>5 DEF OneOfThis
  <2>1. from(i) = from(j)
    BY <1>0, <1>4 DEF OneOfThis
  <2> QED BY <1>0, <2>1
<1> QED BY <1>3, <1>4, <1>6, <1>7

LEMMA OlderIs ==
  ASSUME NEW d \in Seq(Tags)
  PROVE  LET e == [i \in DOMAIN d |-> Older(d[i])] IN
         e \in Seq(Tags) /\ Len(e) = Len(d) /\ "this" \notin Range(e)
<1> DEFINE e == [i \in DOMAIN d |-> Older(d[i])]
<1>1. Len(d) \in Nat /\ DOMAIN d = 1 .. Len(d) /\ \A i \in 1 .. Len(d) : d[i] \in Tags
  BY LenProperties, ElementOfSeq
<1>2. \A i \in 1 .. Len(d) : Older(d[i]) = "earlier"
  BY <1>1 DEF Older, Tags
<1>3. e = [i \in 1 .. Len(d) |-> "earlier"]
  BY <1>1, <1>2
<1>4. e \in Seq(Tags) /\ Len(e) = Len(d)
  BY <1>1, <1>3 DEF Tags
<1>5. "this" \notin Range(e)
  BY <1>3 DEF Range
<1> QED BY <1>4, <1>5

-----------------------------------------------------------------------------
(* How one match follows another.                                          *)

\* The inductive invariant: no request is open unless the clock is closed, and
\* no second demo of a match is recorded once there is one.
CInv == ClosedAsksForMap /\ OneDemoPerMatch

TapesOK ==
  /\ recording \in {"none", "this"}
  /\ recording = "this" => kind = "timed" /\ "this" \notin Range(demos)
  /\ demos \in Seq(Tags) /\ Len(demos) <= MaxDemos /\ OneOfThis(demos)

GameOK ==
  /\ clients \subseteq Humans /\ spectators \subseteq clients
  /\ holder \in clients \cup {Nobody} /\ veto \in BOOLEAN
  /\ vote \in [Humans -> Options \cup {NoVote}]
  /\ \A c \in Humans \ clients : vote[c] = NoVote
  /\ map \in Maps \cup {NoName} /\ kind \in Kinds /\ clock \in Clocks
  /\ mapreload \in BOOLEAN /\ paused \in BOOLEAN /\ demonextmatch \in BOOLEAN
  /\ clock = "closed" <=> mapreload

LEMMA CInvIs == CInv <=> GameOK /\ TapesOK
BY DEF CInv, ClosedAsksForMap, OneDemoPerMatch, TypeOK, TapesOK, GameOK, Tags, OneOfThis

LEMMA CInvIsNext == CInv' <=> GameOK' /\ TapesOK'
BY DEF CInv, ClosedAsksForMap, OneDemoPerMatch, TypeOK, TapesOK, GameOK, Tags, OneOfThis

\* changemap()
LEMMA ChangeMapKeeps ==
  ASSUME CInv, NEW m \in Maps \cup {NoName}, NEW k \in Kinds, ChangeMap(m, k)
  PROVE  CInv'
<1> DEFINE e == EndDemo(demos, recording)
<1>1. e \in Seq(Tags) /\ Len(e) <= MaxDemos /\ OneOfThis(e)
  BY CInvIs, EndDemoIs DEF TapesOK
<1>2. demos' = [i \in DOMAIN e |-> Older(e[i])]
  BY DEF ChangeMap
<1> HIDE DEF e
<1>3. demos' \in Seq(Tags) /\ Len(demos') <= MaxDemos /\ "this" \notin Range(demos')
  BY <1>1, <1>2, OlderIs
<1>4. OneOfThis(demos')
  BY <1>3 DEF OneOfThis, Range
<1>5. kind' = k /\ recording' \in {"none", "this"} /\ (recording' = "this" => kind' = "timed")
  BY DEF ChangeMap, RecordedNext
<1>6. TapesOK'
  BY <1>3, <1>4, <1>5 DEF TapesOK
<1>7. GameOK'
  BY CInvIs DEF GameOK, ChangeMap, ClearedVotes, Clocks, people
<1> QED BY <1>6, <1>7, CInvIsNext

\* The demo ends, and recording with it.
LEMMA StopKeeps ==
  ASSUME CInv, demos' = EndDemo(demos, recording), recording' = "none"
  PROVE  TapesOK'
<1>1. /\ EndDemo(demos, recording) \in Seq(Tags)
      /\ Len(EndDemo(demos, recording)) <= MaxDemos
      /\ OneOfThis(EndDemo(demos, recording))
  BY CInvIs, EndDemoIs DEF TapesOK
<1> QED BY <1>1 DEF TapesOK

LEMMA CloseKeeps == ASSUME CInv, CloseIntermission PROVE CInv'
<1>1. CASE \E o \in Best(vote) : Count(vote, o) > 1 /\ ChangeMap(o[1], o[2])
  <2>1. PICK o \in Options : ChangeMap(o[1], o[2])
    BY <1>1 DEF Best
  <2>2. o[1] \in Maps \cup {NoName} /\ o[2] \in Kinds
    BY DEF Options
  <2> QED BY <2>1, <2>2, ChangeMapKeeps
<1>2. CASE /\ demos' = EndDemo(demos, recording) /\ recording' = "none"
           /\ clock' = "closed" /\ mapreload' = TRUE
           /\ UNCHANGED <<people, vote, map, kind, paused, demonextmatch>>
  <2>1. TapesOK'
    BY <1>2, StopKeeps
  <2>2. GameOK'
    BY <1>2, CInvIs DEF GameOK, Clocks, people
  <2> QED BY <2>1, <2>2, CInvIsNext
<1> QED BY <1>1, <1>2 DEF CloseIntermission

LEMMA VoteKeeps ==
  ASSUME CInv, NEW c \in Humans, NEW o \in Options, Vote(c, o)
  PROVE  CInv'
<1> DEFINE v == [vote EXCEPT ![c] = o]
<1>1. o[1] \in Maps \cup {NoName} /\ o[2] \in Kinds
  BY DEF Options
<1>2. CASE Decides(c)
  BY <1>1, <1>2, ChangeMapKeeps DEF Vote
<1>3. CASE ~Decides(c)
  <2>0. CheckVotes(v)
    BY <1>3 DEF Vote
  <2>1. CASE \E q \in Best(v) : Majority(v, q) /\ ChangeMap(q[1], q[2])
    <3>1. PICK q \in Options : ChangeMap(q[1], q[2])
      BY <2>1 DEF Best
    <3>2. q[1] \in Maps \cup {NoName} /\ q[2] \in Kinds
      BY DEF Options
    <3> QED BY <3>1, <3>2, ChangeMapKeeps
  <2>2. CASE vote' = v /\ UNCHANGED <<people, match, tapes>>
    <3>1. c \in clients
      BY DEF Vote, Entitled
    <3>2. GameOK'
      BY <2>2, <3>1, CInvIs DEF GameOK, people, match, tapes
    <3>3. TapesOK'
      BY <2>2, CInvIs DEF TapesOK, match, tapes
    <3> QED BY <3>2, <3>3, CInvIsNext
  <2> QED BY <2>0, <2>1, <2>2 DEF CheckVotes
<1> QED BY <1>2, <1>3

LEMMA ClientsKeep ==
  ASSUME CInv, NEW c \in Humans,
         Join(c) \/ Leave(c) \/ Spectate(c) \/ Withdraw(c) \/ NewMap(c)
  PROVE  CInv'
<1>1. TapesOK'
  BY CInvIs DEF TapesOK, Join, Leave, Spectate, Withdraw, NewMap, match, tapes
<1> SUFFICES GameOK'
  BY <1>1, CInvIsNext
<1>2. CASE Join(c)
  BY <1>2, CInvIs DEF GameOK, Join, match, tapes
<1>3. CASE Leave(c)
  BY <1>3, CInvIs DEF GameOK, Leave, tapes
<1>4. CASE Spectate(c)
  BY <1>4, CInvIs DEF GameOK, Spectate, match, tapes
<1>5. CASE Withdraw(c)
  BY <1>5, CInvIs DEF GameOK, Withdraw, people, match, tapes
<1>6. CASE NewMap(c)
  BY <1>6, CInvIs DEF GameOK, NewMap, people, tapes
<1> QED BY <1>2, <1>3, <1>4, <1>5, <1>6

LEMMA ClearKeeps ==
  ASSUME CInv, NEW n \in 0 .. Len(demos), ClearDemos(n)
  PROVE  CInv'
<1>0. Len(demos) \in Nat
  BY CInvIs, LenProperties DEF TapesOK
<1>1. /\ demos' \in Seq(Tags) /\ Len(demos') <= MaxDemos /\ OneOfThis(demos')
      /\ Range(demos') \subseteq Range(demos)
  <2>1. CASE n = 0
    <3>1. demos' = <<>>
      BY <2>1 DEF ClearDemos
    <3>2. <<>> \in Seq(Tags) /\ Len(<<>>) = 0 /\ Range(<<>>) = {} /\ OneOfThis(<<>>)
      BY DEF Range, OneOfThis
    <3> QED BY <3>1, <3>2, DemoAssumption
  <2>2. CASE n # 0
    <3>1. n \in 1 .. Len(demos) /\ demos' = RemoveAt(demos, n)
      BY <1>0, <2>2 DEF ClearDemos
    <3> QED BY <1>0, <3>1, RemoveIs, CInvIs, DemoAssumption DEF TapesOK
  <2> QED BY <2>1, <2>2
<1>2. TapesOK'
  BY <1>1, CInvIs DEF TapesOK, ClearDemos, match
<1>3. GameOK'
  BY CInvIs DEF GameOK, ClearDemos, people, match
<1> QED BY <1>2, <1>3, CInvIsNext

LEMMA CInvInit == Init => CInv
<1> SUFFICES ASSUME Init PROVE CInv
  OBVIOUS
<1>1. GameOK
  BY DEF GameOK, Init, Clocks, Kinds
<1>2. <<>> \in Seq(Tags) /\ Len(<<>>) = 0 /\ OneOfThis(<<>>)
  BY DEF OneOfThis
<1>3. TapesOK
  BY <1>2, DemoAssumption DEF TapesOK, Init
<1> QED BY <1>1, <1>3, CInvIs

LEMMA CInvNext == CInv /\ [Next]_vars => CInv'
<1> SUFFICES ASSUME CInv, [Next]_vars PROVE CInv'
  OBVIOUS
<1>1. ASSUME NEW c \in Humans,
             Join(c) \/ Leave(c) \/ Spectate(c) \/ Withdraw(c) \/ NewMap(c)
      PROVE  CInv'
  BY <1>1, ClientsKeep
<1>2. ASSUME NEW c \in Humans, NEW o \in Options, Vote(c, o) PROVE CInv'
  BY <1>2, VoteKeeps
<1>3. ASSUME NEW m \in Maps \cup {NoName}, NEW k \in Kinds, Command(m, k) PROVE CInv'
  BY <1>3, ChangeMapKeeps DEF Command
<1>4. CASE SetMaster
  <2>1. TapesOK'
    BY <1>4, CInvIs DEF TapesOK, SetMaster, tapes
  <2>2. GameOK'
    BY <1>4, CInvIs DEF GameOK, SetMaster, tapes
  <2> QED BY <2>1, <2>2, CInvIsNext
<1>5. CASE Pause
  BY <1>5, CInvIs, CInvIsNext DEF GameOK, TapesOK, Pause, people, tapes
<1>6. CASE RecordDemo
  BY <1>6, CInvIs, CInvIsNext DEF GameOK, TapesOK, RecordDemo, people, match
<1>7. CASE StopDemo
  <2>1. TapesOK'
    BY <1>7, StopKeeps DEF StopDemo
  <2>2. GameOK'
    BY <1>7, CInvIs DEF GameOK, StopDemo, people, match
  <2> QED BY <2>1, <2>2, CInvIsNext
<1>8. ASSUME NEW n \in 0 .. Len(demos), ClearDemos(n) PROVE CInv'
  BY <1>8, ClearKeeps
<1>9. CASE TimeUp
  BY <1>9, CInvIs, CInvIsNext DEF GameOK, TapesOK, TimeUp, Clocks, people, tapes
<1>10. CASE IntermissionOver
  BY <1>10, CloseKeeps DEF IntermissionOver
<1>11. CASE Decided
  BY <1>11, CInvIs, CInvIsNext DEF GameOK, TapesOK, Decided, Clocks, people, tapes
<1>12. CASE UNCHANGED vars
  BY <1>12, CInvIs, CInvIsNext DEF GameOK, TapesOK, vars, people, match, tapes
<1> QED BY <1>1, <1>2, <1>3, <1>4, <1>5, <1>6, <1>7, <1>8, <1>9, <1>10, <1>11, <1>12
        DEF Next, TimePasses

\* The server asks for a map exactly while the intermission is closed for good.
THEOREM ClosedMeansAsked == Spec => []ClosedAsksForMap
<1>1. CInv => ClosedAsksForMap
  BY DEF CInv
<1> QED BY <1>1, CInvInit, CInvNext, PTL DEF Spec

\* However recordings are asked for, stopped and cleared, a match gives one
\* demo at most.
THEOREM OneDemo == Spec => []OneDemoPerMatch
<1>1. CInv => OneDemoPerMatch
  BY DEF CInv
<1> QED BY <1>1, CInvInit, CInvNext, PTL DEF Spec

-----------------------------------------------------------------------------
(* The lives of a player.                                                  *)

\* What is on the way between the server and the client o
Sent(o) == Range(down[o]) \cup Range(up[o])

OfLife(m) == m.kind \in {"SPAWNSTATE", "SPAWN"}

\* Only a spawn state and its answer are about the latest life.
MarksOK ==
  \A o \in Owners : /\ \A m \in Range(down[o]) : m.latest => m.kind = "SPAWNSTATE"
                    /\ \A m \in Range(up[o]) : m.latest => m.kind = "SPAWN"

\* The number of the last of n lives
Nth(n) == n % LifeMod

\* The message m is about the last of n lives, or an earlier one.
Fits(m, n) ==
  OfLife(m) => IF m.latest THEN n > 0 /\ m.ls = Nth(n) ELSE m.ls \in 1 .. n - 1

\* n lives were sent so far.
Numbered(n) ==
  /\ player.lifesequence = Nth(n)
  /\ \A o \in Owners : \A m \in Sent(o) : Fits(m, n)

\* May a life be sent, as things are, without another change?
MayAsk(p) == p.state = "spectator" \/ (p.state = "dead" /\ ~p.lastspawn)

Pending == (IF MayAsk(player) THEN 1 ELSE 0) + (IF reinit THEN 1 ELSE 0)

\* An answer is expected only while it, or the question, is on the way.
WaitOK ==
  player.lastspawn /\ ~reinit /\ player.state # "spectator" =>
    \E m \in Sent(owner) : m.latest

\* The inductive invariant: lives are counted by changes, so no number is
\* used twice.
LInv ==
  /\ Lives!TypeOK
  /\ MarksOK
  /\ WaitOK
  /\ \E n \in 0 .. LifeMod : Numbered(n) /\ n + Pending <= changes + 2

LEMMA ModIs ==
  /\ LifeMod \in Nat /\ LifeMod >= 2
  /\ \A n \in Nat : n < LifeMod => n % LifeMod = n
  /\ \A n \in Int : n % LifeMod \in 0 .. LifeMod - 1
  /\ LifeMod % LifeMod = 0
<1>1. LifeMod \in Nat /\ LifeMod >= 2
  BY LifeAssumption
<1>2. \A n \in Nat : n < LifeMod => n % LifeMod = n
  BY <1>1
<1>3. \A n \in Int : n % LifeMod \in 0 .. LifeMod - 1
  BY <1>1
<1>4. LifeMod % LifeMod = 0
  BY <1>1
<1> QED BY <1>1, <1>2, <1>3, <1>4

LEMMA NthIs ==
  /\ \A n \in 0 .. LifeMod : Nth(n) \in 0 .. LifeMod - 1 /\ Nth(n) \notin 1 .. n - 1
  /\ \A n \in 1 .. LifeMod - 1 : Nth(n) \in 1 .. n
  /\ \A n \in 0 .. LifeMod - 1 : (Nth(n) + 1) % LifeMod = Nth(n + 1)
BY ModIs DEF Nth

-----------------------------------------------------------------------------
(* Messages.                                                               *)

Aging(m) == [m EXCEPT !.latest = FALSE]

\* What is neither a spawn state nor an answer
Notes == {m \in Lives!Messages : ~m.latest /\ ~OfLife(m)}

LEMMA AgedIs ==
  ASSUME NEW S, S = Lives!Messages \/ S = Lives!Replies, NEW q \in Seq(S)
  PROVE  /\ Lives!Aged(q) \in Seq(S)
         /\ \A m \in Range(Lives!Aged(q)) : \E k \in Range(q) : m = Aging(k)
<1> DEFINE a == [i \in DOMAIN q |-> Aging(q[i])]
<1>1. Lives!Aged(q) = a
  BY DEF Lives!Aged, Aging
<1>2. Len(q) \in Nat /\ DOMAIN q = 1 .. Len(q) /\ \A i \in 1 .. Len(q) : q[i] \in S
  BY LenProperties, ElementOfSeq
<1>3. \A m \in S : Aging(m) \in S
  <2>1. \A m \in Lives!Messages : Aging(m) \in Lives!Messages
    BY DEF Aging, Lives!Messages
  <2>2. \A m \in Lives!Replies : Aging(m) \in Lives!Replies
    BY DEF Aging, Lives!Replies
  <2> QED BY <2>1, <2>2
<1>4. a = [i \in 1 .. Len(q) |-> Aging(q[i])] /\ \A i \in 1 .. Len(q) : Aging(q[i]) \in S
  BY <1>2, <1>3
<1> HIDE DEF a
<1>5. a \in Seq(S)
  BY <1>2, <1>4
<1>6. \A m \in Range(a) : \E k \in Range(q) : m = Aging(k)
  BY <1>2, <1>4 DEF Range
<1> QED BY <1>1, <1>5, <1>6

LEMMA AgingIs ==
  ASSUME NEW m \in Lives!Messages \cup Lives!Replies, NEW n \in 0 .. LifeMod - 1, Fits(m, n)
  PROVE  /\ ~Aging(m).latest /\ Aging(m).kind = m.kind
         /\ Fits(Aging(m), n + 1)
<1>1. /\ Aging(m).latest = FALSE /\ Aging(m).kind = m.kind /\ Aging(m).ls = m.ls
      /\ m.ls \in 0 .. LifeMod - 1
  BY DEF Aging, Lives!Messages, Lives!Replies
<1>2. CASE OfLife(m)
  <2>1. m.ls \in 1 .. n
    BY <1>1, <1>2, NthIs, ModIs DEF Fits
  <2> QED BY <1>1, <2>1 DEF Fits
<1>3. CASE ~OfLife(m)
  BY <1>1, <1>3 DEF Fits, OfLife
<1> QED BY <1>1, <1>2, <1>3

\* Nothing is sent about lives, and nothing new replied.
LEMMA NothingNew ==
  ASSUME NEW n, MarksOK, Numbered(n), player'.lifesequence = player.lifesequence,
         \A o \in Owners : /\ Range(down'[o]) \subseteq Range(down[o]) \cup Notes
                           /\ \A m \in Range(up'[o]) :
                                m \in Range(up[o]) \/ (~m.latest /\ ~OfLife(m))
  PROVE  MarksOK' /\ Numbered(n)'
<1>1. MarksOK'
  BY DEF MarksOK, Notes
<1>2. \A o \in Owners : \A m \in Sent(o)' : Fits(m, n)
  BY DEF Numbered, Sent, Fits, Notes
<1> QED BY <1>1, <1>2 DEF Numbered, Sent

\* sendspawn()
LEMMA SendSpawnIs ==
  ASSUME Lives!TypeOK, MarksOK, NEW n \in 0 .. LifeMod - 1, Numbered(n),
         NEW p \in Lives!Players, p.lifesequence = player.lifesequence,
         NEW o \in Owners, NEW notices \in [Owners -> Seq(Notes)],
         NEW replies \in [Owners -> Seq(Lives!Replies)],
         \A c \in Owners : Range(replies[c]) \subseteq Range(up[c]),
         Lives!SendSpawn(p, o, notices, replies)
  PROVE  /\ player' \in Lives!Players /\ player'.lastspawn /\ player'.state = p.state
         /\ down' \in [Owners -> Seq(Lives!Messages)] /\ up' \in [Owners -> Seq(Lives!Replies)]
         /\ MarksOK' /\ Numbered(n + 1)'
         /\ \E m \in Sent(o)' : m.latest
<1> DEFINE q == Lives!WithSpawn(p)
           life == Lives!Message("SPAWNSTATE", q.lifesequence, TRUE)
<1>1. /\ q \in Lives!Players /\ q.lastspawn /\ q.state = p.state
      /\ q.lifesequence = Nth(n + 1)
  <2>1. q.lifesequence = (p.lifesequence + 1) % LifeMod
    BY DEF Lives!WithSpawn, Lives!Players
  <2>2. q.lifesequence = Nth(n + 1)
    BY <2>1, NthIs DEF Numbered
  <2>3. Nth(n + 1) \in 0 .. LifeMod - 1
    BY NthIs, ModIs
  <2>4. q \in Lives!Players /\ q.lastspawn /\ q.state = p.state
    <3>1. q = [p EXCEPT !.lifesequence = (p.lifesequence + 1) % LifeMod, !.lastspawn = TRUE,
                        !.known = FALSE]
      BY DEF Lives!WithSpawn
    <3>2. (p.lifesequence + 1) % LifeMod \in 0 .. LifeMod - 1
      BY <2>1, <2>2, <2>3
    <3> QED BY <3>1, <3>2 DEF Lives!Players
  <2> QED BY <2>2, <2>4
<1>2. /\ life \in Lives!Messages /\ life.latest /\ life.kind = "SPAWNSTATE"
      /\ Fits(life, n + 1)
  <2>1. Nth(n + 1) \in 0 .. LifeMod - 1 /\ n + 1 > 0
    BY NthIs, ModIs
  <2> QED BY <1>1, <2>1 DEF Lives!Message, Lives!Messages, Fits
<1>3. /\ player' = q
      /\ up' = [c \in Owners |-> Lives!Aged(replies[c])]
      /\ down' = [c \in Owners |->
           IF c # o THEN Lives!Aged(down[c]) \o notices[c]
           ELSE Lives!Aged(down[c]) \o notices[c] \o <<life>>]
  BY DEF Lives!SendSpawn
<1> HIDE DEF q, life
<1>4. ASSUME NEW c \in Owners
      PROVE  /\ up'[c] \in Seq(Lives!Replies)
             /\ \A m \in Range(up'[c]) : \E k \in Range(up[c]) : m = Aging(k)
  <2>1. up'[c] = Lives!Aged(replies[c]) /\ replies[c] \in Seq(Lives!Replies)
    BY <1>3
  <2> QED BY <2>1, AgedIs
<1>5. ASSUME NEW c \in Owners
      PROVE  /\ down'[c] \in Seq(Lives!Messages)
             /\ \A m \in Range(down'[c]) : \/ \E k \in Range(down[c]) : m = Aging(k)
                                           \/ m \in Notes
                                           \/ m = life
             /\ c = o => life \in Range(down'[c])
  <2> DEFINE a == Lives!Aged(down[c])
             b == a \o notices[c]
             e == <<life>>
  <2>1. down[c] \in Seq(Lives!Messages) /\ notices[c] \in Seq(Notes)
        /\ notices[c] \in Seq(Lives!Messages)
    <3>1. Notes \subseteq Lives!Messages
      BY DEF Notes
    <3>2. notices[c] \in Seq(Notes)
      OBVIOUS
    <3>3. notices[c] \in Seq(Lives!Messages)
      BY <3>1, <3>2, SeqMonotonic
    <3> QED BY <3>2, <3>3 DEF Lives!TypeOK
  <2>2. a \in Seq(Lives!Messages) /\ \A m \in Range(a) : \E k \in Range(down[c]) : m = Aging(k)
    BY <2>1, AgedIs
  <2> HIDE DEF a
  <2>3. b \in Seq(Lives!Messages) /\ Range(b) = Range(a) \cup Range(notices[c])
    BY <2>1, <2>2, ConcatProperties, RangeConcatenation
  <2>4. Range(notices[c]) \subseteq Notes
    BY <2>1, RangeOfSeq
  <2>5. e \in Seq(Lives!Messages) /\ Range(e) = {life}
    BY <1>2 DEF Range
  <2>6. down'[c] = IF c # o THEN b ELSE b \o e
    BY <1>3 DEF a
  <2> HIDE DEF b, e
  <2>7. b \o e \in Seq(Lives!Messages) /\ Range(b \o e) = Range(b) \cup {life}
    <3>1. b \o e \in Seq(Lives!Messages)
      BY <2>3, <2>5, ConcatProperties
    <3>2. Range(b \o e) = Range(b) \cup Range(e)
      BY <2>3, <2>5, RangeConcatenation
    <3> QED BY <2>5, <3>1, <3>2
  <2> QED BY <2>2, <2>3, <2>4, <2>6, <2>7
<1>6. down' \in [Owners -> Seq(Lives!Messages)] /\ up' \in [Owners -> Seq(Lives!Replies)]
  <2>1. DOMAIN down' = Owners /\ DOMAIN up' = Owners
    BY <1>3
  <2>2. down' = [c \in Owners |-> down'[c]] /\ up' = [c \in Owners |-> up'[c]]
    BY <1>3
  <2> QED BY <1>4, <1>5, <2>2
<1>7. ASSUME NEW c \in Owners, NEW k \in Sent(c)
      PROVE  k \in Lives!Messages \cup Lives!Replies /\ Fits(k, n)
  <2>1. down[c] \in Seq(Lives!Messages) /\ up[c] \in Seq(Lives!Replies)
    BY DEF Lives!TypeOK
  <2>2. Range(down[c]) \subseteq Lives!Messages /\ Range(up[c]) \subseteq Lives!Replies
    BY <2>1, RangeOfSeq
  <2> QED BY <1>7, <2>2 DEF Numbered, Sent
<1>8. MarksOK'
  <2>1. ASSUME NEW c \in Owners, NEW m \in Range(down'[c]), m.latest
        PROVE  m.kind = "SPAWNSTATE"
    <3>1. ASSUME NEW k \in Range(down[c]), m = Aging(k) PROVE FALSE
      BY <1>7, <2>1, <3>1, AgingIs DEF Sent
    <3> QED BY <1>2, <1>5, <2>1, <3>1 DEF Notes
  <2>2. ASSUME NEW c \in Owners, NEW m \in Range(up'[c]), m.latest
        PROVE  m.kind = "SPAWN"
    BY <1>4, <1>7, <2>2, AgingIs DEF Sent
  <2> QED BY <2>1, <2>2 DEF MarksOK
<1>9. ASSUME NEW c \in Owners, NEW m \in Sent(c)' PROVE Fits(m, n + 1)
  <2>1. CASE m \in Notes
    BY <2>1 DEF Notes, Fits
  <2>2. CASE m = life
    BY <1>2, <2>2
  <2>3. CASE \E k \in Sent(c) : m = Aging(k)
    BY <1>7, <2>3, AgingIs
  <2> QED BY <1>4, <1>5, <1>9, <2>1, <2>2, <2>3 DEF Sent
<1>10. \E m \in Sent(o)' : m.latest
  BY <1>2, <1>5 DEF Sent
<1> QED BY <1>1, <1>3, <1>6, <1>8, <1>9, <1>10 DEF Numbered, Sent

-----------------------------------------------------------------------------
(* The steps of a life.                                                    *)

\* The invariant, with the number of lives sent
LInvAt(n) ==
  /\ Lives!TypeOK /\ MarksOK /\ WaitOK
  /\ n \in 0 .. LifeMod /\ Numbered(n) /\ n + Pending <= changes + 2

LEMMA LInvIs == LInv <=> \E n \in 0 .. LifeMod : LInvAt(n)
BY DEF LInv, LInvAt

LEMMA LInvIsNext == ASSUME NEW n, LInvAt(n)' PROVE LInv'
BY DEF LInv, LInvAt

LEMMA PendingIs ==
  ASSUME reinit \in BOOLEAN
  PROVE  /\ MayAsk(player) /\ reinit => Pending = 2
         /\ MayAsk(player) /\ ~reinit => Pending = 1
         /\ ~MayAsk(player) /\ reinit => Pending = 1
         /\ ~MayAsk(player) /\ ~reinit => Pending = 0
         /\ Pending \in 0 .. 2
<1>1. CASE MayAsk(player) /\ reinit
  BY <1>1 DEF Pending
<1>2. CASE MayAsk(player) /\ ~reinit
  BY <1>2 DEF Pending
<1>3. CASE ~MayAsk(player) /\ reinit
  BY <1>3 DEF Pending
<1>4. CASE ~MayAsk(player) /\ ~reinit
  BY <1>4 DEF Pending
<1> QED BY <1>1, <1>2, <1>3, <1>4

LEMMA PendingNext ==
  ASSUME reinit' \in BOOLEAN
  PROVE  /\ MayAsk(player') /\ reinit' => Pending' = 2
         /\ MayAsk(player') /\ ~reinit' => Pending' = 1
         /\ ~MayAsk(player') /\ reinit' => Pending' = 1
         /\ ~MayAsk(player') /\ ~reinit' => Pending' = 0
         /\ Pending' \in 0 .. 2
<1>1. CASE MayAsk(player') /\ reinit'
  BY <1>1 DEF Pending
<1>2. CASE MayAsk(player') /\ ~reinit'
  BY <1>2 DEF Pending
<1>3. CASE ~MayAsk(player') /\ reinit'
  BY <1>3 DEF Pending
<1>4. CASE ~MayAsk(player') /\ ~reinit'
  BY <1>4 DEF Pending
<1> QED BY <1>1, <1>2, <1>3, <1>4

\* Where reinit stays as it is, only the state of the player counts.
LEMMA PendingKept ==
  ASSUME reinit \in BOOLEAN, reinit' = reinit
  PROVE  /\ (MayAsk(player') => MayAsk(player)) => Pending' <= Pending
         /\ ~MayAsk(player') /\ MayAsk(player) => Pending' + 1 = Pending
         /\ Pending' <= Pending + 1 /\ Pending' \in 0 .. 2
<1>1. CASE reinit
  BY <1>1, PendingIs, PendingNext
<1>2. CASE ~reinit
  BY <1>2, PendingIs, PendingNext
<1> QED BY <1>1, <1>2

LEMMA RespawnedIs ==
  ASSUME NEW p \in Lives!Players
  PROVE  /\ Lives!Respawned(p) \in Lives!Players /\ ~Lives!Respawned(p).lastspawn
         /\ Lives!Respawned(p).state = p.state
         /\ Lives!Respawned(p).lifesequence = p.lifesequence
BY DEF Lives!Players, Lives!Respawned

LEMMA StateIs ==
  ASSUME NEW p \in Lives!Players, NEW s \in {"alive", "dead", "spectator"}
  PROVE  /\ [p EXCEPT !.state = s] \in Lives!Players
         /\ [p EXCEPT !.state = s].state = s
         /\ [p EXCEPT !.state = s].lastspawn = p.lastspawn
         /\ [p EXCEPT !.state = s].lifesequence = p.lifesequence
BY DEF Lives!Players

LEMMA QueuesAre ==
  ASSUME Lives!TypeOK, NEW c \in Owners
  PROVE  /\ down[c] \in Seq(Lives!Messages) /\ up[c] \in Seq(Lives!Replies)
         /\ Range(down[c]) \subseteq Lives!Messages /\ Range(up[c]) \subseteq Lives!Replies
<1>1. down[c] \in Seq(Lives!Messages) /\ up[c] \in Seq(Lives!Replies)
  BY DEF Lives!TypeOK
<1> QED BY <1>1, RangeOfSeq

\* The first reply of o has arrived.
LEMMA TakenIs ==
  ASSUME Lives!TypeOK, NEW o \in Owners, up[o] # <<>>,
         NEW rest, rest = [up EXCEPT ![o] = Tail(@)]
  PROVE  /\ rest \in [Owners -> Seq(Lives!Replies)]
         /\ \A c \in Owners : Range(rest[c]) \subseteq Range(up[c])
         /\ \A c \in Owners : c # o => rest[c] = up[c]
         /\ Range(up[o]) \subseteq {Head(up[o])} \cup Range(rest[o])
         /\ Head(up[o]) \in Range(up[o])
<1>0. up \in [Owners -> Seq(Lives!Replies)]
  BY DEF Lives!TypeOK
<1>1. /\ Tail(up[o]) \in Seq(Lives!Replies) /\ Head(up[o]) \in Range(up[o])
      /\ Range(Tail(up[o])) \subseteq Range(up[o])
      /\ Range(up[o]) \subseteq {Head(up[o])} \cup Range(Tail(up[o]))
  BY QueuesAre, TailRange
<1> QED BY <1>0, <1>1

LEMMA NoteIs ==
  ASSUME NEW what \in {"DIED", "INITAI", "GIVEN"}
  PROVE  Lives!Notice(what) \in Notes
BY ModIs DEF Lives!Notice, Lives!Message, Lives!Messages, Notes, OfLife

LEMMA AnnounceIs ==
  ASSUME Lives!TypeOK, Lives!Announce("DIED")
  PROVE  /\ down' \in [Owners -> Seq(Lives!Messages)]
         /\ \A c \in Owners : /\ Range(down'[c]) \subseteq Range(down[c]) \cup Notes
                              /\ Range(down[c]) \subseteq Range(down'[c])
<1> DEFINE e == Lives!Notice("DIED")
<1>1. e \in Notes /\ e \in Lives!Messages
  BY NoteIs DEF Notes
<1>2. down' = [c \in Owners |-> IF c \in Lives!Speakers THEN Append(down[c], e) ELSE down[c]]
  BY DEF Lives!Announce
<1> HIDE DEF e
<1>3. ASSUME NEW c \in Owners
      PROVE  /\ down'[c] \in Seq(Lives!Messages)
             /\ Range(down'[c]) \subseteq Range(down[c]) \cup Notes
             /\ Range(down[c]) \subseteq Range(down'[c])
  <2>1. down[c] \in Seq(Lives!Messages)
    BY QueuesAre
  <2>2. /\ Append(down[c], e) \in Seq(Lives!Messages)
        /\ Range(Append(down[c], e)) = Range(down[c]) \cup {e}
    BY <1>1, <2>1, AppendRange
  <2> QED BY <1>1, <1>2, <2>1, <2>2
<1> QED BY <1>2, <1>3

LEMMA RecvSpawnKeeps ==
  ASSUME NEW n, LInvAt(n), NEW o \in Owners, Lives!RecvSpawn(o)
  PROVE  LInvAt(n)'
<1>1. up[o] # <<>> /\ Head(up[o]).kind = "SPAWN" /\ up' = [up EXCEPT ![o] = Tail(@)]
  BY DEF Lives!RecvSpawn, Lives!Arrives
<1>2. UNCHANGED <<isbot, owner, reinit, down, plays, changes>>
  BY DEF Lives!RecvSpawn
<1>3. /\ up' \in [Owners -> Seq(Lives!Replies)]
      /\ \A c \in Owners : Range(up'[c]) \subseteq Range(up[c])
      /\ \A c \in Owners : c # o => up'[c] = up[c]
      /\ Range(up[o]) \subseteq {Head(up[o])} \cup Range(up'[o])
      /\ Head(up[o]) \in Range(up[o])
  BY <1>1, TakenIs DEF LInvAt
<1>4. player \in Lives!Players /\ reinit \in BOOLEAN /\ changes \in Nat /\ n \in Nat
  BY LifeAssumption, ModIs DEF LInvAt, Lives!TypeOK
<1>5. CASE Lives!Honours(o, Head(up[o]))
  <2>1. player' = [player EXCEPT !.lastspawn = FALSE, !.state = "alive", !.known = TRUE]
    BY <1>5 DEF Lives!RecvSpawn
  <2>2. /\ player' \in Lives!Players /\ ~player'.lastspawn /\ player'.state = "alive"
        /\ player'.lifesequence = player.lifesequence
    BY <1>4, <2>1 DEF Lives!Players
  <2>3. MarksOK' /\ Numbered(n)'
    BY <1>2, <1>3, <2>2, NothingNew DEF LInvAt
  <2>4. Lives!TypeOK'
    BY <1>2, <1>3, <2>2 DEF LInvAt, Lives!TypeOK
  <2>5. Pending' <= Pending
    <3>1. ~MayAsk(player')
      BY <2>2 DEF MayAsk
    <3> QED BY <1>2, <1>4, <3>1, PendingKept
  <2>6. n + Pending' <= changes' + 2
    BY <1>2, <1>4, <2>5, PendingIs, PendingKept DEF LInvAt
  <2> QED BY <1>2, <1>4, <2>2, <2>3, <2>4, <2>6 DEF LInvAt, WaitOK
<1>6. CASE ~Lives!Honours(o, Head(up[o]))
  <2>1. player' = player
    BY <1>6 DEF Lives!RecvSpawn
  <2>2. MarksOK' /\ Numbered(n)'
    BY <1>2, <1>3, <2>1, NothingNew DEF LInvAt
  <2>3. Lives!TypeOK'
    BY <1>2, <1>3, <2>1 DEF LInvAt, Lives!TypeOK
  <2>4. WaitOK'
    <3> SUFFICES ASSUME player.lastspawn, ~reinit, player.state # "spectator"
                 PROVE  \E m \in Sent(owner)' : m.latest
      BY <1>2, <2>1 DEF WaitOK
    <3>1. owner \in Owners
      BY DEF LInvAt, Lives!TypeOK
    <3>2. PICK m \in Sent(owner) : m.latest
      BY DEF LInvAt, WaitOK
    <3>3. CASE m \in Range(down[owner]) \/ owner # o
      BY <1>2, <1>3, <3>1, <3>2, <3>3 DEF Sent
    <3>4. CASE owner = o /\ m \in Range(up[o])
      <4>1. m # Head(up[o])
        <5>1. SUFFICES ASSUME m = Head(up[o]) PROVE FALSE
          OBVIOUS
        <5>2. m.ls = player.lifesequence
          BY <1>1, <3>2, <3>4, <5>1 DEF LInvAt, Numbered, Sent, Fits, OfLife
        <5>3. player.state \in {"alive", "dead"}
          BY <1>4 DEF Lives!Players
        <5> QED BY <1>6, <3>4, <5>1, <5>2, <5>3 DEF Lives!Honours
      <4>2. m \in Range(up'[o])
        BY <1>3, <3>4, <4>1
      <4> QED BY <1>2, <3>2, <3>4, <4>2 DEF Sent
    <3> QED BY <3>2, <3>3, <3>4 DEF Sent
  <2>5. Pending' = Pending
    BY <1>2, <2>1 DEF Pending
  <2> QED BY <1>2, <2>2, <2>3, <2>4, <2>5 DEF LInvAt
<1> QED BY <1>5, <1>6

\* A life is sent to the owner.
LEMMA LifeSent ==
  ASSUME NEW n \in Nat, n < LifeMod, Lives!TypeOK, MarksOK, Numbered(n),
         NEW p \in Lives!Players, p.lifesequence = player.lifesequence,
         NEW notices \in [Owners -> Seq(Notes)],
         NEW replies \in [Owners -> Seq(Lives!Replies)],
         \A c \in Owners : Range(replies[c]) \subseteq Range(up[c]),
         Lives!SendSpawn(p, owner, notices, replies),
         isbot' = isbot, owner' = owner, plays' = plays, reinit' \in BOOLEAN,
         changes' \in 0 .. MaxChanges,
         n + 1 + Pending' <= changes' + 2
  PROVE  LInvAt(n + 1)'
<1>1. owner \in Owners /\ n \in 0 .. LifeMod - 1
  BY ModIs DEF Lives!TypeOK
<1>2. /\ player' \in Lives!Players /\ player'.lastspawn /\ player'.state = p.state
      /\ down' \in [Owners -> Seq(Lives!Messages)] /\ up' \in [Owners -> Seq(Lives!Replies)]
      /\ MarksOK' /\ Numbered(n + 1)'
      /\ \E m \in Sent(owner)' : m.latest
  BY <1>1, SendSpawnIs
<1>3. Lives!TypeOK'
  BY <1>2 DEF Lives!TypeOK
<1>4. WaitOK'
  BY <1>2 DEF WaitOK, Sent
<1>5. n + 1 \in 0 .. LifeMod
  BY ModIs
<1> QED BY <1>2, <1>3, <1>4, <1>5 DEF LInvAt

LEMMA NumbersAre ==
  ASSUME NEW n, LInvAt(n)
  PROVE  /\ n \in Nat /\ changes \in 0 .. MaxChanges /\ MaxChanges \in Nat
         /\ LifeMod \in Nat /\ MaxChanges + 2 <= LifeMod
         /\ reinit \in BOOLEAN /\ player \in Lives!Players /\ owner \in Owners
         /\ n + Pending <= changes + 2
         /\ Pending \in 0 .. 2
<1>1. /\ n \in Nat /\ changes \in 0 .. MaxChanges /\ MaxChanges \in Nat
      /\ LifeMod \in Nat /\ MaxChanges + 2 <= LifeMod
      /\ reinit \in BOOLEAN /\ player \in Lives!Players /\ owner \in Owners
      /\ n + Pending <= changes + 2
  BY LifeAssumption DEF LInvAt, Lives!TypeOK
<1> QED BY <1>1, PendingIs

LEMMA RecvTrySpawnKeeps ==
  ASSUME NEW n, LInvAt(n), NEW o \in Owners, Lives!RecvTrySpawn(o)
  PROVE  LInv'
<1> DEFINE rest == [up EXCEPT ![o] = Tail(@)]
           p == IF player.lastdeath THEN Lives!Respawned(player) ELSE player
<1>1. up[o] # <<>> /\ Head(up[o]).kind = "TRYSPAWN"
  BY DEF Lives!RecvTrySpawn, Lives!Arrives
<1>2. UNCHANGED <<isbot, owner, reinit, plays, changes>>
  BY DEF Lives!RecvTrySpawn
<1>3. /\ rest \in [Owners -> Seq(Lives!Replies)]
      /\ \A c \in Owners : Range(rest[c]) \subseteq Range(up[c])
      /\ \A c \in Owners : c # o => rest[c] = up[c]
      /\ Range(up[o]) \subseteq {Head(up[o])} \cup Range(rest[o])
      /\ Head(up[o]) \in Range(up[o])
  BY <1>1, TakenIs DEF LInvAt
<1>4. CASE o = owner /\ player.state = "dead" /\ ~player.lastspawn
  <2>0. Lives!SendSpawn(p, owner, Lives!NoNotices, rest)
    BY <1>4 DEF Lives!RecvTrySpawn
  <2> HIDE DEF rest
  <2>1. p \in Lives!Players /\ p.lifesequence = player.lifesequence /\ p.state = "dead"
    BY <1>4, NumbersAre, RespawnedIs
  <2> HIDE DEF p
  <2>2. Lives!NoNotices \in [Owners -> Seq(Notes)]
    BY DEF Lives!NoNotices
  <2>3. player'.lastspawn /\ player'.state = "dead"
    <3>1. player' = Lives!WithSpawn(p)
      BY <2>0 DEF Lives!SendSpawn
    <3> QED BY <2>1, <3>1 DEF Lives!WithSpawn, Lives!Players
  <2>4. ~MayAsk(player') /\ MayAsk(player)
    BY <1>4, <2>3 DEF MayAsk
  <2>5. n < LifeMod /\ n + 1 + Pending' <= changes' + 2
    <3>2. Pending' + 1 = Pending
      BY <1>2, <2>4, NumbersAre, PendingKept
    <3>3. Pending' \in 0 .. 2
      BY <1>2, NumbersAre, PendingKept
    <3> QED BY <1>2, <3>2, <3>3, NumbersAre
  <2>6. n \in Nat /\ reinit' \in BOOLEAN /\ changes' \in 0 .. MaxChanges
    BY <1>2, NumbersAre
  <2>7. LInvAt(n + 1)'
    BY <1>2, <1>3, <2>0, <2>1, <2>2, <2>5, <2>6, LifeSent DEF LInvAt
  <2> QED BY <2>7, LInvIsNext
<1>5. CASE ~(o = owner /\ player.state = "dead" /\ ~player.lastspawn)
  <2>1. up' = rest /\ UNCHANGED <<player, down>>
    BY <1>5 DEF Lives!RecvTrySpawn
  <2> HIDE DEF rest
  <2>2. MarksOK' /\ Numbered(n)'
    BY <1>2, <1>3, <2>1, NothingNew DEF LInvAt
  <2>3. Lives!TypeOK'
    BY <1>2, <1>3, <2>1 DEF LInvAt, Lives!TypeOK
  <2>4. WaitOK'
    <3>1. \A m \in Sent(owner) : m.latest => m \in Sent(owner)'
      BY <1>1, <1>2, <1>3, <2>1, NumbersAre DEF LInvAt, MarksOK, Sent
    <3> QED BY <1>2, <2>1, <3>1 DEF LInvAt, WaitOK
  <2>5. Pending' = Pending
    BY <1>2, <2>1 DEF Pending
  <2>6. LInvAt(n)'
    BY <1>2, <2>2, <2>3, <2>4, <2>5 DEF LInvAt
  <2> QED BY <2>6, LInvIsNext
<1> QED BY <1>4, <1>5

\* The player dies, or changes sides with the dead, and all are told.
LEMMA AnnouncedKeeps ==
  ASSUME NEW n, LInvAt(n), Lives!Announce("DIED"),
         UNCHANGED <<isbot, owner, reinit, up, plays>>,
         changes' \in 0 .. MaxChanges,
         player' \in Lives!Players, player'.lifesequence = player.lifesequence,
         player'.lastspawn => player.lastspawn /\ player.state # "spectator",
         n + Pending' <= changes' + 2
  PROVE  LInv'
<1>1. /\ down' \in [Owners -> Seq(Lives!Messages)]
      /\ \A c \in Owners : /\ Range(down'[c]) \subseteq Range(down[c]) \cup Notes
                           /\ Range(down[c]) \subseteq Range(down'[c])
  BY AnnounceIs DEF LInvAt
<1>2. MarksOK' /\ Numbered(n)'
  BY <1>1, NothingNew DEF LInvAt
<1>3. Lives!TypeOK'
  BY <1>1 DEF LInvAt, Lives!TypeOK
<1>4. WaitOK'
  BY <1>1, NumbersAre DEF LInvAt, WaitOK, Sent
<1>5. LInvAt(n)'
  BY <1>2, <1>3, <1>4 DEF LInvAt
<1> QED BY <1>5, LInvIsNext

\* Only the state of the player changes, and his owner perhaps.
LEMMA QuietKeeps ==
  ASSUME NEW n, LInvAt(n), UNCHANGED <<isbot, down, up, plays>>,
         owner' \in Owners, reinit' \in BOOLEAN, changes' \in 0 .. MaxChanges,
         player' \in Lives!Players, player'.lifesequence = player.lifesequence,
         player'.lastspawn /\ ~reinit' /\ player'.state # "spectator" =>
           player.lastspawn /\ ~reinit /\ player.state # "spectator" /\ owner' = owner,
         n + Pending' <= changes' + 2
  PROVE  LInv'
<1>1. MarksOK' /\ Numbered(n)'
  BY NothingNew DEF LInvAt
<1>2. Lives!TypeOK'
  BY DEF LInvAt, Lives!TypeOK
<1>3. WaitOK'
  BY DEF LInvAt, WaitOK, Sent
<1>4. LInvAt(n)'
  BY <1>1, <1>2, <1>3 DEF LInvAt
<1> QED BY <1>4, LInvIsNext

LEMMA DiesKeeps ==
  ASSUME NEW n, LInvAt(n), Lives!Kill \/ Lives!Suicide \/ Lives!Unspectate
  PROVE  LInv'
<1>0. changes < MaxChanges /\ changes' = changes + 1 => changes' \in 0 .. MaxChanges
  BY NumbersAre
<1>1. CASE Lives!Kill
  <2>1. player' = [player EXCEPT !.state = "dead", !.lastdeath = TRUE]
        /\ player.state = "alive" /\ changes < MaxChanges /\ changes' = changes + 1
        /\ Lives!Announce("DIED") /\ UNCHANGED <<isbot, owner, reinit, up, plays>>
    BY <1>1 DEF Lives!Kill, Lives!Change
  <2>2. /\ player' \in Lives!Players /\ player'.lifesequence = player.lifesequence
        /\ player'.lastspawn = player.lastspawn /\ player'.state = "dead"
    BY <2>1, NumbersAre DEF Lives!Players
  <2>3. Pending' <= Pending + 1
        /\ Pending' \in 0 .. 2
    BY <2>1, NumbersAre, PendingKept
  <2>4. n + Pending' <= changes' + 2
    BY <2>1, <2>3, NumbersAre
  <2> QED BY <1>0, <2>1, <2>2, <2>4, AnnouncedKeeps
<1>2. CASE Lives!Suicide
  <2> DEFINE q == [player EXCEPT !.state = "dead"]
  <2>1. player' = Lives!Respawned(q)
        /\ player.state = "alive" /\ changes < MaxChanges /\ changes' = changes + 1
        /\ Lives!Announce("DIED") /\ UNCHANGED <<isbot, owner, reinit, up, plays>>
    BY <1>2 DEF Lives!Suicide, Lives!Change
  <2>2. q \in Lives!Players /\ q.lifesequence = player.lifesequence
    BY NumbersAre, StateIs
  <2> HIDE DEF q
  <2>3. /\ player' \in Lives!Players /\ player'.lifesequence = player.lifesequence
        /\ ~player'.lastspawn
    BY <2>1, <2>2, RespawnedIs
  <2>4. Pending' <= Pending + 1
        /\ Pending' \in 0 .. 2
    BY <2>1, NumbersAre, PendingKept
  <2>5. n + Pending' <= changes' + 2
    BY <2>1, <2>4, NumbersAre
  <2> QED BY <1>0, <2>1, <2>3, <2>5, AnnouncedKeeps
<1>3. CASE Lives!Unspectate
  <2> DEFINE q == [player EXCEPT !.state = "dead"]
  <2>1. player' = Lives!Respawned(q)
        /\ player.state = "spectator" /\ changes' = changes
        /\ Lives!Announce("DIED") /\ UNCHANGED <<isbot, owner, reinit, up, plays>>
    BY <1>3 DEF Lives!Unspectate
  <2>2. q \in Lives!Players /\ q.lifesequence = player.lifesequence
    BY NumbersAre, StateIs
  <2> HIDE DEF q
  <2>3. /\ player' \in Lives!Players /\ player'.lifesequence = player.lifesequence
        /\ ~player'.lastspawn
    BY <2>1, <2>2, RespawnedIs
  <2>4. Pending' <= Pending
        /\ Pending' \in 0 .. 2
    <3>1. MayAsk(player)
      BY <2>1 DEF MayAsk
    <3> QED BY <2>1, <3>1, NumbersAre, PendingKept
  <2>5. n + Pending' <= changes' + 2
    BY <2>1, <2>4, NumbersAre
  <2>6. changes' \in 0 .. MaxChanges
    BY <2>1, NumbersAre
  <2> QED BY <2>1, <2>3, <2>5, <2>6, AnnouncedKeeps
<1> QED BY <1>1, <1>2, <1>3

LEMMA SpectateKeeps ==
  ASSUME NEW n, LInvAt(n), Lives!Spectate
  PROVE  LInv'
<1> DEFINE q == IF player.state = "alive" THEN Lives!Respawned(player) ELSE player
<1>1. /\ player' = [q EXCEPT !.state = "spectator"]
      /\ player.state # "spectator" /\ changes < MaxChanges /\ changes' = changes + 1
      /\ UNCHANGED <<isbot, owner, reinit, down, up, plays>>
  BY DEF Lives!Spectate, Lives!Change
<1>2. q \in Lives!Players /\ q.lifesequence = player.lifesequence
  BY NumbersAre, RespawnedIs
<1> HIDE DEF q
<1>3. /\ player' \in Lives!Players /\ player'.state = "spectator"
      /\ player'.lifesequence = player.lifesequence
  BY <1>1, <1>2, StateIs
<1>4. Pending' <= Pending + 1
      /\ Pending' \in 0 .. 2
  BY <1>1, NumbersAre, PendingKept
<1>5. n + Pending' <= changes' + 2 /\ changes' \in 0 .. MaxChanges
  BY <1>1, <1>4, NumbersAre
<1> QED BY <1>1, <1>3, <1>5, NumbersAre, QuietKeeps

LEMMA WelcomeKeeps ==
  ASSUME NEW n, LInvAt(n), Lives!Welcome
  PROVE  LInv'
<1>1. player' = [player EXCEPT !.known = TRUE]
      /\ UNCHANGED <<isbot, owner, reinit, down, up, plays, changes>>
  BY DEF Lives!Welcome
<1>2. /\ player' \in Lives!Players /\ player'.lifesequence = player.lifesequence
      /\ player'.lastspawn = player.lastspawn /\ player'.state = player.state
  BY <1>1, NumbersAre DEF Lives!Players
<1>3. Pending' = Pending
  BY <1>1, <1>2 DEF Pending, MayAsk
<1>4. n + Pending' <= changes' + 2
  BY <1>1, <1>3, NumbersAre
<1> QED BY <1>1, <1>2, <1>4, NumbersAre, QuietKeeps

LEMMA ShiftKeeps ==
  ASSUME NEW n, LInvAt(n), NEW o \in Owners, Lives!Shift(o)
  PROVE  LInv'
<1>1. /\ owner' = o /\ reinit' = TRUE /\ UNCHANGED <<isbot, player, down, up, plays>>
      /\ changes < MaxChanges /\ changes' = changes + 1
  BY DEF Lives!Shift, Lives!Change
<1>2. Pending' <= Pending + 1
      /\ Pending' \in 0 .. 2
  <2>1. reinit' /\ player' = player
    BY <1>1
  <2>2. CASE MayAsk(player)
    <3>1. MayAsk(player')
      BY <2>1, <2>2
    <3> QED BY <2>1, <2>2, <3>1, NumbersAre, PendingIs, PendingNext
  <2>3. CASE ~MayAsk(player)
    <3>1. ~MayAsk(player')
      BY <2>1, <2>3
    <3> QED BY <2>1, <2>3, <3>1, NumbersAre, PendingIs, PendingNext
  <2> QED BY <2>2, <2>3
<1>3. n + Pending' <= changes' + 2 /\ changes' \in 0 .. MaxChanges
  BY <1>1, <1>2, NumbersAre
<1>4. reinit' /\ reinit' \in BOOLEAN
  BY <1>1
<1> QED BY <1>1, <1>3, <1>4, NumbersAre, QuietKeeps

LEMMA MapChangeKeeps ==
  ASSUME NEW n, LInvAt(n), Lives!MapChange
  PROVE  LInv'
<1>1. changes < MaxChanges /\ changes' = changes + 1
      /\ UNCHANGED <<isbot, owner, reinit, plays>>
  BY DEF Lives!MapChange, Lives!Change
<1>2. CASE player.state = "spectator"
  <2>1. player' = Lives!Respawned(player) /\ UNCHANGED <<down, up>>
    BY <1>2 DEF Lives!MapChange
  <2>2. /\ player' \in Lives!Players /\ player'.lifesequence = player.lifesequence
        /\ player'.state = "spectator"
    BY <1>2, <2>1, NumbersAre, RespawnedIs
  <2>3. Pending' = Pending
    BY <1>1, <1>2, <2>2 DEF Pending, MayAsk
  <2>4. n + Pending' <= changes' + 2 /\ changes' \in 0 .. MaxChanges
    BY <1>1, <2>3, NumbersAre
  <2> QED BY <1>1, <2>1, <2>2, <2>4, NumbersAre, QuietKeeps
<1>3. CASE player.state # "spectator"
  <2> DEFINE q == [player EXCEPT !.state = "dead"]
             p == Lives!Respawned(q)
  <2>1. Lives!SendSpawn(p, owner, Lives!NoNotices, up)
    BY <1>3 DEF Lives!MapChange
  <2>2. q \in Lives!Players /\ q.lifesequence = player.lifesequence /\ q.state = "dead"
    BY NumbersAre, StateIs
  <2> HIDE DEF q
  <2>3. p \in Lives!Players /\ p.lifesequence = player.lifesequence /\ p.state = "dead"
    BY <2>2, RespawnedIs
  <2> HIDE DEF p
  <2>4. Lives!NoNotices \in [Owners -> Seq(Notes)]
    BY DEF Lives!NoNotices
  <2>5. up \in [Owners -> Seq(Lives!Replies)]
    BY DEF LInvAt, Lives!TypeOK
  <2>6. player'.lastspawn /\ player'.state = "dead"
    <3>1. player' = Lives!WithSpawn(p)
      BY <2>1 DEF Lives!SendSpawn
    <3> QED BY <2>3, <3>1 DEF Lives!WithSpawn, Lives!Players
  <2>7. Pending' <= Pending
        /\ Pending' \in 0 .. 2
    <3>1. ~MayAsk(player')
      BY <2>6 DEF MayAsk
    <3> QED BY <1>1, <3>1, NumbersAre, PendingKept
  <2>8. /\ n < LifeMod /\ n \in Nat /\ n + 1 + Pending' <= changes' + 2
        /\ reinit' \in BOOLEAN /\ changes' \in 0 .. MaxChanges
    BY <1>1, <2>7, NumbersAre
  <2>9. LInvAt(n + 1)'
    BY <1>1, <2>1, <2>3, <2>4, <2>5, <2>8, LifeSent DEF LInvAt
  <2> QED BY <2>9, LInvIsNext
<1> QED BY <1>2, <1>3

LEMMA ReinitKeeps ==
  ASSUME NEW n, LInvAt(n), Lives!Reinit
  PROVE  LInv'
<1> DEFINE told == [c \in Owners |->
                      <<Lives!Notice(IF c = owner THEN "GIVEN" ELSE "INITAI")>>]
           p == Lives!Respawned(player)
<1>1. reinit /\ reinit' = FALSE /\ UNCHANGED <<isbot, owner, plays, changes>>
  BY DEF Lives!Reinit
<1>2. p \in Lives!Players /\ p.lifesequence = player.lifesequence /\ p.state = player.state
      /\ ~p.lastspawn
  BY NumbersAre, RespawnedIs
<1>3. told \in [Owners -> Seq(Notes)]
  <2>1. \A c \in Owners : told[c] \in Seq(Notes)
    <3> TAKE c \in Owners
    <3>1. Lives!Notice(IF c = owner THEN "GIVEN" ELSE "INITAI") \in Notes
      BY NoteIs
    <3> QED BY <3>1
  <2> QED BY <2>1
<1>4. CASE player.state = "alive"
  <2>1. Lives!SendSpawn(p, owner, told, up)
    BY <1>4 DEF Lives!Reinit
  <2> HIDE DEF told, p
  <2>2. up \in [Owners -> Seq(Lives!Replies)]
    BY DEF LInvAt, Lives!TypeOK
  <2>3. player'.state = "alive"
    <3>1. player' = Lives!WithSpawn(p)
      BY <2>1 DEF Lives!SendSpawn
    <3> QED BY <1>2, <1>4, <3>1 DEF Lives!WithSpawn, Lives!Players
  <2>4. Pending' + 1 <= Pending
        /\ Pending' \in 0 .. 2
    <3>1. ~MayAsk(player')
      BY <2>3 DEF MayAsk
    <3>2. Pending' = 0
      BY <1>1, <3>1, PendingNext
    <3>3. Pending \in 1 .. 2
      BY <1>1, NumbersAre, PendingIs
    <3> QED BY <3>2, <3>3
  <2>5. /\ n < LifeMod /\ n \in Nat /\ n + 1 + Pending' <= changes' + 2
        /\ reinit' \in BOOLEAN /\ changes' \in 0 .. MaxChanges
    <3>1. changes' = changes /\ reinit' \in BOOLEAN
      BY <1>1
    <3> QED BY <2>4, <3>1, NumbersAre
  <2>6. LInvAt(n + 1)'
    BY <1>1, <1>2, <1>3, <2>1, <2>2, <2>5, LifeSent DEF LInvAt
  <2> QED BY <2>6, LInvIsNext
<1>5. CASE player.state # "alive"
  <2>1. player' = p /\ down' = [c \in Owners |-> down[c] \o told[c]] /\ up' = up
    BY <1>5 DEF Lives!Reinit
  <2> HIDE DEF told, p
  <2>2. ASSUME NEW c \in Owners
        PROVE  /\ down'[c] \in Seq(Lives!Messages)
               /\ Range(down'[c]) \subseteq Range(down[c]) \cup Notes
    <3>1. Notes \subseteq Lives!Messages
      BY DEF Notes
    <3>2. told[c] \in Seq(Notes)
      BY <1>3
    <3>3. told[c] \in Seq(Lives!Messages) /\ Range(told[c]) \subseteq Notes
      BY <3>1, <3>2, SeqMonotonic, RangeOfSeq
    <3>4. down[c] \in Seq(Lives!Messages)
      BY QueuesAre DEF LInvAt
    <3>5. down'[c] = down[c] \o told[c]
      BY <2>1
    <3>6. down[c] \o told[c] \in Seq(Lives!Messages)
      BY <3>3, <3>4, ConcatProperties
    <3>7. Range(down[c] \o told[c]) = Range(down[c]) \cup Range(told[c])
      BY <3>3, <3>4, RangeConcatenation
    <3> QED BY <3>3, <3>5, <3>6, <3>7
  <2>3. MarksOK' /\ Numbered(n)'
    BY <1>2, <2>1, <2>2, NothingNew DEF LInvAt
  <2>4. Lives!TypeOK'
    <3>1. down' \in [Owners -> Seq(Lives!Messages)]
      BY <2>1, <2>2
    <3> QED BY <1>1, <1>2, <2>1, <3>1 DEF LInvAt, Lives!TypeOK
  <2>5. n + Pending' <= changes' + 2
    <3>1. Pending' \in {0, 1}
      BY <1>1, PendingNext
    <3>2. Pending \in 1 .. 2
      BY <1>1, NumbersAre, PendingIs
    <3> QED BY <1>1, <3>1, <3>2, NumbersAre
  <2>6. WaitOK'
    BY <1>2, <2>1 DEF WaitOK
  <2>7. LInvAt(n)'
    BY <2>3, <2>4, <2>5, <2>6 DEF LInvAt
  <2> QED BY <2>7, LInvIsNext
<1> QED BY <1>4, <1>5

\* The client program answers a spawn state, and forgets any other message.
LEMMA ReadKeeps ==
  ASSUME NEW n, LInvAt(n), NEW o \in Owners, Lives!Read(o)
  PROVE  LInv'
<1> DEFINE m == Head(down[o])
           r == Lives!Message("SPAWN", m.ls, m.latest)
           rest == Tail(down[o])
           told == CASE m.kind = "SPAWNSTATE" -> "alive"
                     [] m.kind = "INITAI"     -> "no"
                     [] m.kind = "GIVEN"      -> "dead"
                     [] m.kind = "DIED"       -> IF plays[o] = "no" THEN "no" ELSE "dead"
           more == Append(up[o], r)
<1>1. /\ down[o] # <<>> /\ down' = [down EXCEPT ![o] = rest]
      /\ plays' = [plays EXCEPT ![o] = told]
      /\ up' = IF m.kind = "SPAWNSTATE" THEN [up EXCEPT ![o] = more] ELSE up
      /\ UNCHANGED <<isbot, player, owner, reinit, changes>>
  BY DEF Lives!Read
<1>2. /\ down \in [Owners -> Seq(Lives!Messages)] /\ up \in [Owners -> Seq(Lives!Replies)]
      /\ plays \in [Owners -> {"no", "dead", "alive"}]
  BY DEF LInvAt, Lives!TypeOK
<1>3. /\ rest \in Seq(Lives!Messages) /\ m \in Range(down[o]) /\ m \in Lives!Messages
      /\ Range(rest) \subseteq Range(down[o]) /\ Range(down[o]) \subseteq {m} \cup Range(rest)
  <2>1. down[o] \in Seq(Lives!Messages) /\ Range(down[o]) \subseteq Lives!Messages
    BY QueuesAre DEF LInvAt
  <2> QED BY <1>1, <2>1, TailRange
<1>4. told \in {"no", "dead", "alive"}
  BY <1>3 DEF Lives!Messages
<1>5. r \in Lives!Replies /\ r.kind = "SPAWN" /\ r.latest = m.latest /\ r.ls = m.ls
  BY <1>3 DEF Lives!Message, Lives!Messages, Lives!Replies
<1> HIDE DEF r, m, rest, told
<1>6. more \in Seq(Lives!Replies) /\ Range(more) = Range(up[o]) \cup {r}
  <2>1. up[o] \in Seq(Lives!Replies)
    BY <1>2
  <2> QED BY <1>5, <2>1, AppendRange
<1> HIDE DEF more
<1>7. ASSUME NEW c \in Owners
      PROVE  /\ Range(down'[c]) \subseteq Range(down[c])
             /\ c # o => down'[c] = down[c] /\ up'[c] = up[c]
             /\ down'[c] \in Seq(Lives!Messages) /\ up'[c] \in Seq(Lives!Replies)
             /\ Range(up[c]) \subseteq Range(up'[c])
             /\ \A k \in Range(up'[c]) : \/ k \in Range(up[c])
                                         \/ c = o /\ m.kind = "SPAWNSTATE" /\ k = r
             /\ c = o /\ m.kind = "SPAWNSTATE" => r \in Range(up'[c])
             /\ c = o => Range(down[c]) \subseteq {m} \cup Range(down'[c])
  <2>1. CASE c = o
    <3>1. down'[c] = rest
      BY <1>1, <1>2, <2>1
    <3>2. up'[c] = IF m.kind = "SPAWNSTATE" THEN more ELSE up[c]
      BY <1>1, <1>2, <2>1
    <3> QED BY <1>2, <1>3, <1>6, <2>1, <3>1, <3>2
  <2>2. CASE c # o
    BY <1>1, <1>2, <2>2
  <2> QED BY <2>1, <2>2
<1>8. Lives!TypeOK'
  <2>1. down' \in [Owners -> Seq(Lives!Messages)]
    BY <1>1, <1>2, <1>3
  <2>2. up' \in [Owners -> Seq(Lives!Replies)]
    BY <1>1, <1>2, <1>6
  <2>3. plays' \in [Owners -> {"no", "dead", "alive"}]
    BY <1>1, <1>2, <1>4
  <2> QED BY <1>1, <2>1, <2>2, <2>3 DEF LInvAt, Lives!TypeOK
<1>9. MarksOK'
  BY <1>5, <1>7 DEF LInvAt, MarksOK
<1>10. Numbered(n)'
  <2>1. Fits(m, n)
    BY <1>3 DEF LInvAt, Numbered, Sent
  <2>2. m.kind = "SPAWNSTATE" => Fits(r, n)
    BY <1>5, <2>1 DEF Fits, OfLife
  <2>3. ASSUME NEW c \in Owners, NEW k \in Sent(c)' PROVE Fits(k, n)
    <3>1. k \in Sent(c) \/ (m.kind = "SPAWNSTATE" /\ k = r)
      BY <1>7, <2>3 DEF Sent
    <3> QED BY <2>2, <3>1 DEF LInvAt, Numbered
  <2> QED BY <1>1, <2>3 DEF LInvAt, Numbered
<1>11. WaitOK'
  <2> SUFFICES ASSUME player.lastspawn, ~reinit, player.state # "spectator"
               PROVE  \E k \in Sent(owner)' : k.latest
    BY <1>1 DEF WaitOK
  <2>1. owner \in Owners
    BY NumbersAre
  <2>2. PICK k \in Sent(owner) : k.latest
    BY DEF LInvAt, WaitOK
  <2>3. CASE owner = o /\ k = m /\ k \in Range(down[o])
    <3>1. m.kind = "SPAWNSTATE"
      BY <2>2, <2>3 DEF LInvAt, MarksOK
    <3> QED BY <1>1, <1>5, <1>7, <2>1, <2>2, <2>3, <3>1 DEF Sent
  <2>4. CASE ~(owner = o /\ k = m /\ k \in Range(down[o]))
    <3>1. k \in Sent(owner)'
      BY <1>1, <1>7, <2>1, <2>2, <2>4 DEF Sent
    <3> QED BY <2>2, <3>1
  <2> QED BY <2>3, <2>4
<1>12. Pending' = Pending
  BY <1>1 DEF Pending
<1>13. LInvAt(n)'
  BY <1>1, <1>8, <1>9, <1>10, <1>11, <1>12 DEF LInvAt
<1> QED BY <1>13, LInvIsNext

\* The client program asks for a life.
LEMMA AskKeeps ==
  ASSUME NEW n, LInvAt(n), NEW o \in Owners, Lives!Ask(o)
  PROVE  LInv'
<1> DEFINE r == Lives!Notice("TRYSPAWN")
           asked == <<r>>
<1>1. up[o] = <<>> /\ up' = [up EXCEPT ![o] = asked]
      /\ UNCHANGED <<isbot, player, owner, reinit, down, plays, changes>>
  BY DEF Lives!Ask
<1>2. r \in Lives!Replies /\ ~r.latest /\ ~OfLife(r)
  BY ModIs DEF Lives!Notice, Lives!Message, Lives!Replies, OfLife
<1> HIDE DEF r
<1>3. asked \in Seq(Lives!Replies) /\ Range(asked) = {r}
  BY <1>2 DEF Range
<1> HIDE DEF asked
<1>4. up \in [Owners -> Seq(Lives!Replies)]
  BY DEF LInvAt, Lives!TypeOK
<1>5. Range(up[o]) = {}
  BY <1>1 DEF Range
<1>6. ASSUME NEW c \in Owners
      PROVE  /\ Range(up[c]) \subseteq Range(up'[c])
             /\ \A m \in Range(up'[c]) : m \in Range(up[c]) \/ (~m.latest /\ ~OfLife(m))
  <2>1. CASE c = o
    <3>1. up'[c] = asked
      BY <1>1, <1>4, <2>1
    <3> QED BY <1>2, <1>3, <1>5, <2>1, <3>1
  <2>2. CASE c # o
    BY <1>1, <1>4, <2>2
  <2> QED BY <2>1, <2>2
<1>7. MarksOK' /\ Numbered(n)'
  BY <1>1, <1>6, NothingNew DEF LInvAt
<1>8. Lives!TypeOK'
  BY <1>1, <1>3, <1>4 DEF LInvAt, Lives!TypeOK
<1>9. WaitOK'
  BY <1>1, <1>6, NumbersAre DEF LInvAt, WaitOK, Sent
<1>10. Pending' = Pending
  BY <1>1 DEF Pending
<1>11. LInvAt(n)'
  BY <1>1, <1>7, <1>8, <1>9, <1>10 DEF LInvAt
<1> QED BY <1>11, LInvIsNext

-----------------------------------------------------------------------------
(* The life of a behaviour of MCMatch.                                     *)

LEMMA QuietStart ==
  ASSUME player \in Lives!Players, player.lifesequence = 0, ~player.lastspawn,
         isbot \in BOOLEAN, reinit \in BOOLEAN, owner \in Owners, changes = 0,
         plays \in [Owners -> {"no", "dead", "alive"}],
         down = [c \in Owners |-> <<>>], up = [c \in Owners |-> <<>>]
  PROVE  LInvAt(0)
<1>1. <<>> \in Seq(Lives!Messages) /\ <<>> \in Seq(Lives!Replies) /\ Range(<<>>) = {}
  BY DEF Range
<1>2. Lives!TypeOK /\ 0 \in 0 .. LifeMod
  BY <1>1, LifeAssumption DEF Lives!TypeOK
<1>3. MarksOK /\ \A c \in Owners : Sent(c) = {}
  BY <1>1 DEF MarksOK, Sent
<1>4. Numbered(0)
  BY <1>3, ModIs DEF Numbered, Nth
<1>5. 0 + Pending <= changes + 2
  BY PendingIs
<1> QED BY <1>2, <1>3, <1>4, <1>5 DEF LInvAt, WaitOK

LEMMA HumanStart == ASSUME Lives!Init, ~isbot PROVE LInvAt(1)
<1> DEFINE fresh == [state |-> "dead", lastdeath |-> FALSE,
                     lastspawn |-> FALSE, lifesequence |-> 0, known |-> FALSE]
           first == Lives!WithSpawn(fresh)
           m == Lives!Message("SPAWNSTATE", first.lifesequence, TRUE)
           life == <<m>>
<1>1. /\ owner \in Owners /\ ~reinit /\ changes = 0 /\ isbot \in BOOLEAN /\ reinit \in BOOLEAN
      /\ player = first
      /\ down = [c \in Owners |-> IF c # owner THEN <<>> ELSE life]
      /\ up = [c \in Owners |-> <<>>]
      /\ plays = [c \in Owners |-> IF c = owner THEN "dead" ELSE "no"]
  BY DEF Lives!Init
<1>2. 1 % LifeMod = 1 /\ 1 \in 0 .. LifeMod - 1 /\ 1 \in 0 .. LifeMod
  BY ModIs
<1>3. /\ first.lifesequence = 1 /\ first.state = "dead" /\ first.lastspawn
      /\ first \in Lives!Players
  <2>1. /\ fresh \in Lives!Players /\ fresh.lifesequence = 0 /\ fresh.state = "dead"
    BY ModIs DEF Lives!Players
  <2> HIDE DEF fresh
  <2>2. (fresh.lifesequence + 1) % LifeMod = 1
    BY <1>2, <2>1
  <2>3. first = [fresh EXCEPT !.lifesequence = (fresh.lifesequence + 1) % LifeMod,
                              !.lastspawn = TRUE, !.known = FALSE]
    BY DEF Lives!WithSpawn
  <2> QED BY <1>2, <2>1, <2>2, <2>3 DEF Lives!Players
<1>4. m \in Lives!Messages /\ m.latest /\ m.kind = "SPAWNSTATE" /\ m.ls = 1
  BY <1>2, <1>3 DEF Lives!Message, Lives!Messages
<1> HIDE DEF first, m
<1>5. life \in Seq(Lives!Messages) /\ Range(life) = {m}
  BY <1>4 DEF Range
<1>6. <<>> \in Seq(Lives!Messages) /\ <<>> \in Seq(Lives!Replies) /\ Range(<<>>) = {}
  BY DEF Range
<1> HIDE DEF life
<1>7. Lives!TypeOK
  BY <1>1, <1>3, <1>5, <1>6, LifeAssumption DEF Lives!TypeOK
<1>8. /\ \A c \in Owners : Range(up[c]) = {} /\ Range(down[c]) \subseteq {m}
      /\ m \in Range(down[owner])
  BY <1>1, <1>5, <1>6
<1>9. MarksOK /\ WaitOK
  BY <1>1, <1>4, <1>8 DEF MarksOK, WaitOK, Sent
<1>10. Numbered(1)
  BY <1>1, <1>2, <1>3, <1>4, <1>8 DEF Numbered, Nth, Sent, Fits
<1>11. ~MayAsk(player)
  BY <1>1, <1>3 DEF MayAsk
<1>12. 1 + Pending <= changes + 2
  BY <1>1, <1>11, PendingIs
<1> QED BY <1>2, <1>7, <1>9, <1>10, <1>12 DEF LInvAt

LEMMA LInvInit == MatchInit => LInv
<1> SUFFICES ASSUME MatchInit PROVE LInv
  OBVIOUS
<1>0. 0 \in 0 .. LifeMod - 1 /\ 0 \in 0 .. LifeMod /\ 1 \in 0 .. LifeMod
  BY ModIs
<1>1. CASE NoLife
  <2>1. (CHOOSE o \in Owners : TRUE) \in Owners
    BY LifeAssumption
  <2>2. LInvAt(0)
    BY <1>0, <1>1, <2>1, QuietStart DEF NoLife, Lives!Players
  <2> QED BY <1>0, <2>2, LInvIs
<1>2. CASE Lives!Init /\ isbot
  <2>1. LInvAt(0)
    BY <1>0, <1>2, QuietStart DEF Lives!Init, Lives!Players
  <2> QED BY <1>0, <2>1, LInvIs
<1>3. CASE Lives!Init /\ ~isbot
  BY <1>0, <1>3, HumanStart, LInvIs
<1> QED BY <1>1, <1>2, <1>3 DEF MatchInit

LEMMA LInvNext == LInv /\ [MatchNext]_<<part, vars, lifeVars>> => LInv'
<1> SUFFICES ASSUME LInv, [MatchNext]_<<part, vars, lifeVars>> PROVE LInv'
  OBVIOUS
<1>1. PICK n \in 0 .. LifeMod : LInvAt(n)
  BY LInvIs
<1>2. CASE UNCHANGED lifeVars
  BY <1>2 DEF LInv, lifeVars, Lives!TypeOK, MarksOK, WaitOK, Numbered, Sent, Pending
<1>3. CASE Lives!Next
  <2>1. ASSUME NEW o \in Owners, Lives!RecvSpawn(o) PROVE LInv'
    BY <1>1, <2>1, RecvSpawnKeeps, LInvIsNext
  <2>2. ASSUME NEW o \in Owners, Lives!RecvTrySpawn(o) PROVE LInv'
    BY <1>1, <2>2, RecvTrySpawnKeeps
  <2>3. ASSUME NEW o \in Owners, Lives!Read(o) PROVE LInv'
    BY <1>1, <2>3, ReadKeeps
  <2>4. ASSUME NEW o \in Owners, Lives!Ask(o) PROVE LInv'
    BY <1>1, <2>4, AskKeeps
  <2>5. ASSUME NEW o \in Owners, Lives!Shift(o) PROVE LInv'
    BY <1>1, <2>5, ShiftKeeps
  <2>6. CASE Lives!Kill \/ Lives!Suicide \/ Lives!Unspectate
    BY <1>1, <2>6, DiesKeeps
  <2>7. CASE Lives!Spectate
    BY <1>1, <2>7, SpectateKeeps
  <2>8. CASE Lives!MapChange
    BY <1>1, <2>8, MapChangeKeeps
  <2>9. CASE Lives!Reinit
    BY <1>1, <2>9, ReinitKeeps
  <2>10. CASE Lives!Welcome
    BY <1>1, <2>10, WelcomeKeeps
  <2> QED BY <1>3, <2>1, <2>2, <2>3, <2>4, <2>5, <2>6, <2>7, <2>8, <2>9, <2>10
          DEF Lives!Next, Lives!OwnerStep
<1> QED BY <1>2, <1>3 DEF MatchNext

\* An answer with the number of the present life is the answer to the latest
\* spawn state: the earlier lives had other numbers.
LEMMA AnswersFit == LInv => OldAnswersAreRefused
<1> SUFFICES ASSUME LInv PROVE OldAnswersAreRefused
  OBVIOUS
<1>1. PICK n \in 0 .. LifeMod : LInvAt(n)
  BY LInvIs
<1> SUFFICES ASSUME NEW o \in Owners, Lives!Arrives(o, "SPAWN"),
                    Lives!Honours(o, Head(up[o])), ~Head(up[o]).latest
             PROVE  FALSE
  BY <1>1 DEF OldAnswersAreRefused, Lives!OldAnswersAreRefused, LInvAt
<1>2. up[o] \in Seq(Lives!Replies) /\ up[o] # <<>>
  BY <1>1, QueuesAre DEF LInvAt, Lives!Arrives
<1>3. Head(up[o]) \in Sent(o)
  BY <1>2, TailRange DEF Sent
<1>4. Head(up[o]).ls \in 1 .. n - 1
  BY <1>1, <1>3 DEF LInvAt, Numbered, Fits, OfLife, Lives!Arrives
<1>5. Head(up[o]).ls = Nth(n)
  BY <1>1 DEF LInvAt, Numbered, Lives!Honours
<1> QED BY <1>4, <1>5, NthIs

LEMMA SomethingIsOnTheWay == LInv => WaitsForSomething
<1> SUFFICES ASSUME LInv, player.state = "dead", player.lastspawn, ~reinit
             PROVE  Lives!Expected(down[owner]) \/ Lives!Expected(up[owner])
  BY DEF WaitsForSomething, Lives!WaitsForSomething
<1>1. PICK m \in Sent(owner) : m.latest
  BY DEF LInv, WaitOK
<1> QED BY <1>1 DEF Sent, Range, Lives!Expected

\* No answer to an earlier spawn state brings the player to life, whatever
\* deaths, map changes and handovers happen while it travels.
THEOREM OldAnswers == MatchSpec => []OldAnswersAreRefused
<1>1. MatchSpec => MatchInit /\ [][MatchNext]_<<part, vars, lifeVars>>
  BY PTL DEF MatchSpec
<1> QED BY <1>1, LInvInit, LInvNext, AnswersFit, PTL

\* The server never waits for an answer nobody was asked for.
THEOREM NeverWaitsInVain == MatchSpec => []WaitsForSomething
<1>1. MatchSpec => MatchInit /\ [][MatchNext]_<<part, vars, lifeVars>>
  BY PTL DEF MatchSpec
<1> QED BY <1>1, LInvInit, LInvNext, SomethingIsOnTheWay, PTL
=============================================================================
