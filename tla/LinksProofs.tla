---------------------------- MODULE LinksProofs ----------------------------
(***************************************************************************)
(* Proofs about MCLinks: the channels of the IRC client, for every set of  *)
(* networks and channels, and the reliable channel of ENet, for every list *)
(* of packets, every window and every first number.                        *)
(***************************************************************************)
EXTENDS MCLinks, FunctionTheorems, FiniteSetTheorems, NaturalsInduction,
        WellFoundedInduction, TLAPS

-----------------------------------------------------------------------------
(* A connection and its other end.                                         *)

\* In a queue of lines, is the last of j and p a j?  Without either it counts
\* whether c is in C.
LastWord(q, j, p, c, C) ==
  \/ \E i \in 1 .. Len(q) : q[i] = j /\ \A k \in 1 .. Len(q) : k > i => q[k] # p
  \/ c \in C /\ \A k \in 1 .. Len(q) : q[k] # p

\* Will c be joined when the network has served all lines of e.up?
JoinedAtLast(e, c) == LastWord(e.up, <<"JOIN", c>>, <<"PART", c>>, c, e.joined)

\* The client has not been welcomed, or does not know it yet.
Unwelcomed(e) ==
  e.registered => \E i \in 1 .. Len(e.down) : e.down[i] = "001"

\* Nothing was said about channels.
Silent(e) ==
  /\ e.joined = {}
  /\ \A c \in Channels, i \in 1 .. Len(e.up) :
       e.up[i] # <<"JOIN", c>> /\ e.up[i] # <<"PART", c>>

\* A client is welcomed once in a connection.
WelcomedOnce(e) ==
  \A i \in 1 .. Len(e.down) : e.down[i] = "001" =>
    /\ e.registered
    /\ \A j \in 1 .. Len(e.down) : e.down[j] = "001" => i = j

\* s is a server of the client, e the other end of its connection.
InTouch(s, e) ==
  /\ WelcomedOnce(e)
  /\ Unwelcomed(e) => s.state # "Active" /\ Silent(e)
  /\ s.state = "Active" /\ ~e.closed =>
       \A c \in Channels : c \in s.channels <=> JoinedAtLast(e, c)

HostOK(s, e) ==
  /\ s \in Irc!Links /\ e \in Irc!Ends
  /\ s.known => (s.buf = "none" <=> s.timer)
  /\ s.buf = "open" => InTouch(s, e)

\* The inductive invariant
HInv ==
  /\ ending \in BOOLEAN /\ exited \in BOOLEAN
  /\ link = [h \in Hosts |-> link[h]] /\ net = [h \in Hosts |-> net[h]]
  /\ \A h \in Hosts : HostOK(link[h], net[h])

-----------------------------------------------------------------------------
(* Queues of lines.                                                        *)

LEMMA LastWordAppend ==
  ASSUME NEW L, NEW q \in Seq(L), NEW x \in L, NEW j, NEW p, NEW c, NEW C, j # p
  PROVE  LastWord(Append(q, x), j, p, c, C) <=> x = j \/ (x # p /\ LastWord(q, j, p, c, C))
<1> DEFINE a == Append(q, x)
<1>1. /\ Len(q) \in Nat /\ Len(a) = Len(q) + 1
      /\ \A i \in 1 .. Len(q) : a[i] = q[i]
      /\ a[Len(q) + 1] = x
  OBVIOUS
<1> HIDE DEF a
<1>2. ASSUME x = j PROVE LastWord(a, j, p, c, C)
  BY <1>1, <1>2 DEF LastWord
<1>3. ASSUME x # j, x # p, LastWord(q, j, p, c, C) PROVE LastWord(a, j, p, c, C)
  <2>1. CASE \E i \in 1 .. Len(q) : q[i] = j /\ \A k \in 1 .. Len(q) : k > i => q[k] # p
    <3>1. PICK i \in 1 .. Len(q) : q[i] = j /\ \A k \in 1 .. Len(q) : k > i => q[k] # p
      BY <2>1
    <3>2. i \in 1 .. Len(a) /\ a[i] = j
      BY <1>1, <3>1
    <3>3. \A k \in 1 .. Len(a) : k > i => a[k] # p
      BY <1>1, <1>3, <3>1
    <3> QED BY <3>2, <3>3 DEF LastWord
  <2>2. CASE c \in C /\ \A k \in 1 .. Len(q) : q[k] # p
    BY <1>1, <1>3, <2>2 DEF LastWord
  <2> QED BY <1>3, <2>1, <2>2 DEF LastWord
<1>4. ASSUME x # j, LastWord(a, j, p, c, C) PROVE x # p /\ LastWord(q, j, p, c, C)
  <2>1. CASE \E i \in 1 .. Len(a) : a[i] = j /\ \A k \in 1 .. Len(a) : k > i => a[k] # p
    <3>1. PICK i \in 1 .. Len(a) : a[i] = j /\ \A k \in 1 .. Len(a) : k > i => a[k] # p
      BY <2>1
    <3>2. i \in 1 .. Len(q)
      BY <1>1, <1>4, <3>1
    <3>3. x # p
      BY <1>1, <3>1, <3>2
    <3>4. q[i] = j /\ \A k \in 1 .. Len(q) : k > i => q[k] # p
      BY <1>1, <3>1, <3>2
    <3> QED BY <3>2, <3>3, <3>4 DEF LastWord
  <2>2. CASE c \in C /\ \A k \in 1 .. Len(a) : a[k] # p
    BY <1>1, <2>2 DEF LastWord
  <2> QED BY <1>4, <2>1, <2>2 DEF LastWord
<1> QED BY <1>2, <1>3, <1>4 DEF a

LEMMA LastWordTail ==
  ASSUME NEW L, NEW q \in Seq(L), q # <<>>, NEW j, NEW p, NEW c, NEW C, NEW D, j # p,
         c \in D <=> Head(q) = j \/ (Head(q) # p /\ c \in C)
  PROVE  LastWord(Tail(q), j, p, c, D) <=> LastWord(q, j, p, c, C)
<1> DEFINE t == Tail(q)
<1>1. /\ Len(q) \in Nat /\ Len(q) > 0 /\ Len(t) = Len(q) - 1
      /\ \A i \in 1 .. Len(t) : t[i] = q[i + 1]
      /\ Head(q) = q[1]
  OBVIOUS
<1> HIDE DEF t
<1>2. ASSUME LastWord(q, j, p, c, C) PROVE LastWord(t, j, p, c, D)
  <2>1. CASE \E i \in 1 .. Len(q) : q[i] = j /\ \A k \in 1 .. Len(q) : k > i => q[k] # p
    <3>1. PICK i \in 1 .. Len(q) : q[i] = j /\ \A k \in 1 .. Len(q) : k > i => q[k] # p
      BY <2>1
    <3>2. CASE i = 1
      <4>1. c \in D
        BY <1>1, <3>1, <3>2
      <4>2. \A k \in 1 .. Len(t) : t[k] # p
        BY <1>1, <3>1, <3>2
      <4> QED BY <4>1, <4>2 DEF LastWord
    <3>3. CASE i > 1
      <4>1. i - 1 \in 1 .. Len(t) /\ t[i - 1] = j
        BY <1>1, <3>1, <3>3
      <4>2. \A k \in 1 .. Len(t) : k > i - 1 => t[k] # p
        BY <1>1, <3>1, <3>3
      <4> QED BY <4>1, <4>2 DEF LastWord
    <3> QED BY <3>1, <3>2, <3>3, <1>1
  <2>2. CASE c \in C /\ \A k \in 1 .. Len(q) : q[k] # p
    <3>1. c \in D
      BY <1>1, <2>2
    <3>2. \A k \in 1 .. Len(t) : t[k] # p
      BY <1>1, <2>2
    <3> QED BY <3>1, <3>2 DEF LastWord
  <2> QED BY <1>2, <2>1, <2>2 DEF LastWord
<1>3. ASSUME LastWord(t, j, p, c, D) PROVE LastWord(q, j, p, c, C)
  <2>1. CASE \E i \in 1 .. Len(t) : t[i] = j /\ \A k \in 1 .. Len(t) : k > i => t[k] # p
    <3>1. PICK i \in 1 .. Len(t) : t[i] = j /\ \A k \in 1 .. Len(t) : k > i => t[k] # p
      BY <2>1
    <3>2. i + 1 \in 1 .. Len(q) /\ q[i + 1] = j
      BY <1>1, <3>1
    <3>3. ASSUME NEW k \in 1 .. Len(q), k > i + 1 PROVE q[k] # p
      <4>1. k - 1 \in 1 .. Len(t) /\ k - 1 > i /\ (k - 1) + 1 = k
        BY <1>1, <3>1, <3>3
      <4>2. t[k - 1] = q[k]
        BY <1>1, <4>1
      <4> QED BY <3>1, <4>1, <4>2
    <3> QED BY <3>2, <3>3 DEF LastWord
  <2>2. CASE c \in D /\ \A k \in 1 .. Len(t) : t[k] # p
    <3>1. \A k \in 2 .. Len(q) : q[k] # p
      <4> SUFFICES ASSUME NEW k \in 2 .. Len(q) PROVE q[k] # p
        OBVIOUS
      <4>1. k - 1 \in 1 .. Len(t) /\ (k - 1) + 1 = k
        BY <1>1
      <4>2. t[k - 1] = q[k]
        BY <1>1, <4>1
      <4> QED BY <2>2, <4>1, <4>2
    <3>2. CASE q[1] = j
      BY <1>1, <3>1, <3>2 DEF LastWord
    <3>3. CASE q[1] # j
      <4>1. q[1] # p /\ c \in C
        BY <1>1, <2>2, <3>3
      <4> QED BY <1>1, <3>1, <4>1 DEF LastWord
    <3> QED BY <3>2, <3>3
  <2> QED BY <1>3, <2>1, <2>2 DEF LastWord
<1> QED BY <1>2, <1>3 DEF t

LEMMA LastWordConcat ==
  ASSUME NEW L, NEW q \in Seq(L), NEW r \in Seq(L), NEW j, NEW p, NEW c,
         \A i \in 1 .. Len(q) : q[i] # j /\ q[i] # p,
         \A i \in 1 .. Len(r) : r[i] # p
  PROVE  LastWord(q \o r, j, p, c, {}) <=> \E i \in 1 .. Len(r) : r[i] = j
<1> DEFINE w == q \o r
<1>1. /\ Len(q) \in Nat /\ Len(r) \in Nat /\ Len(w) = Len(q) + Len(r)
      /\ \A i \in 1 .. Len(q) : w[i] = q[i]
      /\ \A i \in Len(q) + 1 .. Len(q) + Len(r) : w[i] = r[i - Len(q)]
  OBVIOUS
<1> HIDE DEF w
<1>2. ASSUME NEW i \in 1 .. Len(w) PROVE w[i] # p
  <2>1. CASE i \in 1 .. Len(q)
    BY <1>1, <2>1
  <2>2. CASE i \in Len(q) + 1 .. Len(q) + Len(r)
    <3>1. i - Len(q) \in 1 .. Len(r)
      BY <1>1, <2>2
    <3> QED BY <1>1, <2>2, <3>1
  <2> QED BY <1>1, <2>1, <2>2
<1>3. (\E i \in 1 .. Len(w) : w[i] = j) <=> \E i \in 1 .. Len(r) : r[i] = j
  <2>1. ASSUME NEW i \in 1 .. Len(w), w[i] = j PROVE \E k \in 1 .. Len(r) : r[k] = j
    <3>1. i \in Len(q) + 1 .. Len(q) + Len(r)
      BY <1>1, <2>1
    <3>2. i - Len(q) \in 1 .. Len(r) /\ r[i - Len(q)] = j
      BY <1>1, <2>1, <3>1
    <3> QED BY <3>2
  <2>2. ASSUME NEW i \in 1 .. Len(r), r[i] = j PROVE \E k \in 1 .. Len(w) : w[k] = j
    <3>1. Len(q) + i \in Len(q) + 1 .. Len(q) + Len(r) /\ (Len(q) + i) - Len(q) = i
      BY <1>1
    <3>2. w[Len(q) + i] = j
      BY <1>1, <2>2, <3>1
    <3> QED BY SMTT(30), <1>1, <3>1, <3>2
  <2> QED BY <2>1, <2>2
<1>4. LastWord(w, j, p, c, {}) <=> \E i \in 1 .. Len(w) : w[i] = j
  BY <1>2 DEF LastWord
<1> QED BY <1>3, <1>4 DEF w

LEMMA SetInOrder ==
  ASSUME NEW S, IsFiniteSet(S)
  PROVE  /\ Irc!SetToSeq(S) \in Seq(S)
         /\ \A x \in S : \E i \in 1 .. Len(Irc!SetToSeq(S)) : Irc!SetToSeq(S)[i] = x
<1> DEFINE n == Cardinality(S)
           f == Irc!SetToSeq(S)
<1>1. Irc!Cardinality(S) = n
  BY DEF Irc!Cardinality, Cardinality
<1>2. n \in Nat /\ ExistsBijection(1 .. n, S)
  BY FS_CardinalityType
<1>3. PICK b \in Bijection(1 .. n, S) : TRUE
  BY <1>2, Fun_ExistsBij
<1>4. b \in [1 .. n -> S] /\ Irc!IsInjective(b)
  <2> DEFINE N == 1 .. n
  <2> HIDE DEF N
  <2>1. b \in Bijection(N, S)
    BY <1>3 DEF N
  <2>2. b \in [N -> S] /\ \A i, k \in N : b[i] = b[k] => i = k
    BY <2>1, Fun_BijectionProperties
  <2> QED BY <2>2 DEF N, Irc!IsInjective
<1>5. f \in [1 .. n -> S] /\ Irc!IsInjective(f)
  BY <1>1, <1>4 DEF Irc!SetToSeq
<1>6. f \in Injection(1 .. n, S)
  BY <1>5, Fun_IsInj DEF Irc!IsInjective
<1>7. Cardinality(1 .. n) = n
  BY <1>2, FS_Interval
<1>8. f \in Surjection(1 .. n, S)
  BY <1>6, <1>7, FS_Injection
<1>9. f \in Seq(S) /\ Len(f) = n
  BY <1>2, <1>5
<1>10. \A x \in S : \E i \in 1 .. n : f[i] = x
  <2> DEFINE N == 1 .. n
  <2> HIDE DEF N, f
  <2>1. f \in Surjection(N, S)
    BY <1>8 DEF N
  <2>2. \A x \in S : \E i \in N : f[i] = x
    BY <2>1, Fun_SurjectionProperties
  <2> QED BY <2>2 DEF N
<1> QED BY <1>9, <1>10

-----------------------------------------------------------------------------
(* Lines.                                                                  *)

LEMMA LinesDiffer ==
  /\ <<"USER">> \in Irc!Lines /\ <<"QUIT">> \in Irc!Lines
  /\ \A c \in Channels : <<"JOIN", c>> \in Irc!Lines /\ <<"PART", c>> \in Irc!Lines
  /\ \A c : /\ <<"USER">> # <<"JOIN", c>> /\ <<"USER">> # <<"PART", c>>
            /\ <<"QUIT">> # <<"JOIN", c>> /\ <<"QUIT">> # <<"PART", c>>
  /\ \A c, d : /\ <<"JOIN", c>> # <<"PART", d>>
               /\ <<"JOIN", c>> = <<"JOIN", d>> => c = d
               /\ <<"PART", c>> = <<"PART", d>> => c = d
<1>1. <<"USER">> \in Irc!Lines /\ <<"QUIT">> \in Irc!Lines
  BY DEF Irc!Lines
<1>2. \A c \in Channels : <<"JOIN", c>> \in Irc!Lines /\ <<"PART", c>> \in Irc!Lines
  BY DEF Irc!Lines
<1>3. \A c : /\ <<"USER">> # <<"JOIN", c>> /\ <<"USER">> # <<"PART", c>>
             /\ <<"QUIT">> # <<"JOIN", c>> /\ <<"QUIT">> # <<"PART", c>>
  OBVIOUS
<1>4. \A c, d : /\ <<"JOIN", c>> # <<"PART", d>>
                /\ <<"JOIN", c>> = <<"JOIN", d>> => c = d
                /\ <<"PART", c>> = <<"PART", d>> => c = d
  OBVIOUS
<1> QED BY <1>1, <1>2, <1>3, <1>4

LEMMA LineKinds ==
  ASSUME NEW line \in Irc!Lines
  PROVE  \/ line = <<"USER">> /\ line[1] = "USER"
         \/ line = <<"QUIT">> /\ line[1] = "QUIT"
         \/ line[2] \in Channels /\ line = <<"JOIN", line[2]>> /\ line[1] = "JOIN"
         \/ line[2] \in Channels /\ line = <<"PART", line[2]>> /\ line[1] = "PART"
<1>1. CASE line \in {<<"USER">>, <<"QUIT">>}
  BY <1>1
<1>2. CASE line \in {"JOIN", "PART"} \X Channels
  <2>1. PICK k \in {"JOIN", "PART"}, c \in Channels : line = <<k, c>>
    BY <1>2
  <2> QED BY <2>1
<1> QED BY <1>1, <1>2 DEF Irc!Lines

LEMMA JoinsAll ==
  ASSUME NEW s \in Irc!Links
  PROVE  /\ Irc!Joins(s) \in Seq(Irc!Lines)
         /\ \A c \in Channels :
              /\ \A i \in 1 .. Len(Irc!Joins(s)) : Irc!Joins(s)[i] # <<"PART", c>>
              /\ c \in s.channels <=> \E i \in 1 .. Len(Irc!Joins(s)) : Irc!Joins(s)[i] = <<"JOIN", c>>
<1> DEFINE S == {<<"JOIN", c>> : c \in s.channels}
           q == Irc!Joins(s)
           f == [c \in s.channels |-> <<"JOIN", c>>]
<1>1. s.channels \subseteq Channels
  BY DEF Irc!Links
<1>2. IsFiniteSet(s.channels)
  BY <1>1, FS_Subset, ChannelsAssumption
<1>3. f \in Surjection(s.channels, S)
  <2>1. f \in [s.channels -> S] /\ \A x \in S : \E c \in s.channels : f[c] = x
    OBVIOUS
  <2> QED BY <2>1, Fun_IsSurj
<1>4. IsFiniteSet(S)
  BY <1>2, <1>3, FS_Surjection
<1>5. q \in Seq(S) /\ \A x \in S : \E i \in 1 .. Len(q) : q[i] = x
  BY <1>4, SetInOrder DEF Irc!Joins
<1> HIDE DEF q, f
<1>6. \A i \in 1 .. Len(q) : q[i] \in S
  BY <1>5
<1>7. q \in Seq(Irc!Lines)
  <2>1. S \subseteq Irc!Lines
    BY <1>1, LinesDiffer
  <2> HIDE DEF S
  <2> QED BY <1>5, <2>1
<1>8. ASSUME NEW c \in Channels, NEW i \in 1 .. Len(q) PROVE q[i] # <<"PART", c>>
  <2>1. PICK d \in s.channels : q[i] = <<"JOIN", d>>
    BY <1>6
  <2> QED BY <2>1, LinesDiffer
<1>9. ASSUME NEW c \in Channels
      PROVE  c \in s.channels <=> \E i \in 1 .. Len(q) : q[i] = <<"JOIN", c>>
  <2>1. ASSUME c \in s.channels PROVE \E i \in 1 .. Len(q) : q[i] = <<"JOIN", c>>
    <3>1. <<"JOIN", c>> \in S
      BY <2>1
    <3> QED BY <1>5, <3>1
  <2>2. ASSUME NEW i \in 1 .. Len(q), q[i] = <<"JOIN", c>> PROVE c \in s.channels
    <3>1. PICK d \in s.channels : q[i] = <<"JOIN", d>>
      BY <1>6
    <3> QED BY <2>2, <3>1, LinesDiffer
  <2> QED BY <2>1, <2>2
<1> QED BY <1>7, <1>8, <1>9 DEF q

-----------------------------------------------------------------------------
(* One connection: what each step leaves of HostOK.                        *)

LEMMA EndFields ==
  ASSUME NEW e \in Irc!Ends
  PROVE  /\ e.registered \in BOOLEAN /\ e.closed \in BOOLEAN /\ e.joined \subseteq Channels
         /\ e.up \in Seq(Irc!Lines) /\ e.down \in Seq(Irc!Answers)
BY DEF Irc!Ends

LEMMA EndWith ==
  ASSUME NEW e \in Irc!Ends, NEW up \in Seq(Irc!Lines)
  PROVE  LET d == [e EXCEPT !.up = up] IN
         /\ d \in Irc!Ends /\ d.up = up
         /\ d.registered = e.registered /\ d.closed = e.closed
         /\ d.joined = e.joined /\ d.down = e.down
BY DEF Irc!Ends

LEMMA Untouched ==
  ASSUME NEW s \in Irc!Links, NEW e \in Irc!Ends, InTouch(s, e),
         NEW line \in {<<"USER">>, <<"QUIT">>}
  PROVE  /\ [e EXCEPT !.up = Append(e.up, line)] \in Irc!Ends
         /\ InTouch(s, [e EXCEPT !.up = Append(e.up, line)])
<1> DEFINE q == Append(e.up, line)
           d == [e EXCEPT !.up = q]
<1>1. line \in Irc!Lines /\ \A c : line # <<"JOIN", c>> /\ line # <<"PART", c>>
  BY LinesDiffer
<1>2. e.up \in Seq(Irc!Lines) /\ q \in Seq(Irc!Lines)
  BY <1>1, EndFields
<1>3. /\ d \in Irc!Ends /\ d.up = q
      /\ d.registered = e.registered /\ d.closed = e.closed
      /\ d.joined = e.joined /\ d.down = e.down
  BY <1>2, EndWith
<1>4. \A i \in 1 .. Len(q) : q[i] = line \/ \E k \in 1 .. Len(e.up) : q[i] = e.up[k]
  BY <1>1, <1>2
<1>5. ASSUME NEW c \in Channels PROVE JoinedAtLast(d, c) <=> JoinedAtLast(e, c)
  <2>1. LastWord(q, <<"JOIN", c>>, <<"PART", c>>, c, e.joined)
        <=> LastWord(e.up, <<"JOIN", c>>, <<"PART", c>>, c, e.joined)
    BY <1>1, <1>2, LastWordAppend, LinesDiffer
  <2> HIDE DEF d, q
  <2> QED BY <2>1, <1>3 DEF JoinedAtLast
<1> HIDE DEF d, q
<1>6. Silent(e) => Silent(d)
  BY <1>1, <1>3, <1>4 DEF Silent
<1>7. Unwelcomed(e) <=> Unwelcomed(d)
  BY <1>3 DEF Unwelcomed
<1>8. WelcomedOnce(d)
  BY <1>3 DEF InTouch, WelcomedOnce
<1>9. InTouch(s, d)
  BY <1>3, <1>5, <1>6, <1>7, <1>8 DEF InTouch
<1> QED BY <1>3, <1>9 DEF d, q

LEMMA Said ==
  ASSUME NEW s \in Irc!Links, NEW e \in Irc!Ends, InTouch(s, e), s.state = "Active",
         NEW c \in Channels, NEW r \in Irc!Links, r.state = "Active",
         NEW line,
         \/ line = <<"JOIN", c>> /\ r.channels = s.channels \cup {c}
         \/ line = <<"PART", c>> /\ r.channels = s.channels \ {c}
  PROVE  /\ [e EXCEPT !.up = Append(e.up, line)] \in Irc!Ends
         /\ InTouch(r, [e EXCEPT !.up = Append(e.up, line)])
<1> DEFINE q == Append(e.up, line)
           d == [e EXCEPT !.up = q]
<1>1. line \in Irc!Lines
  BY LinesDiffer
<1>2. e.up \in Seq(Irc!Lines) /\ q \in Seq(Irc!Lines)
  BY <1>1, EndFields
<1>3. /\ d \in Irc!Ends /\ d.up = q
      /\ d.registered = e.registered /\ d.closed = e.closed
      /\ d.joined = e.joined /\ d.down = e.down
  BY <1>2, EndWith
<1>4. ASSUME NEW x \in Channels
      PROVE  JoinedAtLast(d, x) <=> line = <<"JOIN", x>> \/ (line # <<"PART", x>> /\ JoinedAtLast(e, x))
  <2>1. LastWord(q, <<"JOIN", x>>, <<"PART", x>>, x, e.joined)
        <=> line = <<"JOIN", x>>
            \/ (line # <<"PART", x>> /\ LastWord(e.up, <<"JOIN", x>>, <<"PART", x>>, x, e.joined))
    BY <1>1, <1>2, LastWordAppend, LinesDiffer
  <2> HIDE DEF d, q
  <2> QED BY <2>1, <1>3 DEF JoinedAtLast
<1>5. ASSUME NEW x \in Channels, ~e.closed PROVE x \in r.channels <=> JoinedAtLast(d, x)
  <2>1. x \in s.channels <=> JoinedAtLast(e, x)
    BY <1>5 DEF InTouch
  <2>2. CASE line = <<"JOIN", c>> /\ r.channels = s.channels \cup {c}
    BY <2>1, <2>2, <1>4, LinesDiffer
  <2>3. CASE line = <<"PART", c>> /\ r.channels = s.channels \ {c}
    BY <2>1, <2>3, <1>4, LinesDiffer
  <2> QED BY <2>2, <2>3
<1> HIDE DEF d, q
<1>6. ~Unwelcomed(d)
  BY <1>3 DEF Unwelcomed, InTouch
<1>7. WelcomedOnce(d)
  BY <1>3 DEF InTouch, WelcomedOnce
<1>8. InTouch(r, d)
  BY <1>3, <1>5, <1>6, <1>7 DEF InTouch
<1> QED BY <1>3, <1>8 DEF d, q

LEMMA Heard ==
  ASSUME NEW e \in Irc!Ends, e.down # <<>>
  PROVE  LET d == [e EXCEPT !.down = Tail(e.down)] IN
         /\ d \in Irc!Ends /\ d.up = e.up /\ d.down = Tail(e.down)
         /\ d.registered = e.registered /\ d.closed = e.closed /\ d.joined = e.joined
         /\ WelcomedOnce(e) => WelcomedOnce(d)
         /\ Unwelcomed(d) => Unwelcomed(e)
         /\ Head(e.down) # "001" => (Unwelcomed(e) => Unwelcomed(d))
         /\ Head(e.down) = "001" /\ WelcomedOnce(e) => Unwelcomed(e) /\ ~Unwelcomed(d)
<1> DEFINE d == [e EXCEPT !.down = Tail(e.down)]
           q == e.down
           t == Tail(e.down)
<1>1. /\ q \in Seq(Irc!Answers) /\ t \in Seq(Irc!Answers)
      /\ Len(q) \in Nat /\ Len(q) > 0 /\ Len(t) = Len(q) - 1
      /\ \A i \in 1 .. Len(t) : t[i] = q[i + 1]
      /\ Head(q) = q[1]
  BY EndFields
<1>2. /\ d \in Irc!Ends /\ d.up = e.up /\ d.down = t
      /\ d.registered = e.registered /\ d.closed = e.closed /\ d.joined = e.joined
  BY <1>1 DEF Irc!Ends
<1> HIDE DEF d, t
<1>3. \A i \in 1 .. Len(t) : i + 1 \in 1 .. Len(q)
  BY <1>1
<1>4. ASSUME WelcomedOnce(e) PROVE WelcomedOnce(d)
  <2> SUFFICES ASSUME NEW i \in 1 .. Len(t), t[i] = "001"
               PROVE  e.registered /\ \A j \in 1 .. Len(t) : t[j] = "001" => i = j
    BY <1>2 DEF WelcomedOnce
  <2>1. i + 1 \in 1 .. Len(q) /\ q[i + 1] = "001"
    BY <1>1, <1>3
  <2>2. e.registered /\ \A j \in 1 .. Len(q) : q[j] = "001" => i + 1 = j
    BY <2>1, <1>4 DEF WelcomedOnce
  <2>3. ASSUME NEW j \in 1 .. Len(t), t[j] = "001" PROVE i = j
    <3>1. i + 1 = j + 1
      BY <2>2, <2>3, <1>1, <1>3
    <3> QED BY <3>1, <1>1
  <2> QED BY <2>2, <2>3
<1>5. Unwelcomed(d) => Unwelcomed(e)
  BY <1>1, <1>2, <1>3 DEF Unwelcomed
<1>6. ASSUME Head(q) # "001", Unwelcomed(e) PROVE Unwelcomed(d)
  <2>1. ASSUME NEW i \in 1 .. Len(q), q[i] = "001" PROVE \E k \in 1 .. Len(t) : t[k] = "001"
    <3>1. i - 1 \in 1 .. Len(t) /\ (i - 1) + 1 = i
      BY <1>1, <1>6, <2>1
    <3> QED BY <1>1, <2>1, <3>1
  <2> QED BY <1>2, <1>6, <2>1 DEF Unwelcomed
<1>7. ASSUME Head(q) = "001", WelcomedOnce(e) PROVE Unwelcomed(e) /\ ~Unwelcomed(d)
  <2>1. 1 \in 1 .. Len(q) /\ q[1] = "001"
    BY <1>1, <1>7
  <2>2. e.registered /\ \A i \in 1 .. Len(q) : q[i] = "001" => i = 1
    BY <2>1, <1>7 DEF WelcomedOnce
  <2>3. \A i \in 1 .. Len(t) : t[i] # "001"
    BY <1>1, <1>3, <2>2
  <2>4. Unwelcomed(e)
    BY <2>1 DEF Unwelcomed
  <2> QED BY <1>2, <2>2, <2>3, <2>4 DEF Unwelcomed
<1> QED BY <1>2, <1>4, <1>5, <1>6, <1>7 DEF d, t

LEMMA SameUp ==
  ASSUME NEW e, NEW d, d.up = e.up, d.joined = e.joined
  PROVE  /\ \A c : JoinedAtLast(d, c) <=> JoinedAtLast(e, c)
         /\ Silent(e) <=> Silent(d)
BY DEF JoinedAtLast, Silent

\* A line the client does not understand, or that says nothing
LEMMA ReadNothing ==
  ASSUME NEW s \in Irc!Links, NEW e \in Irc!Ends, InTouch(s, e), e.down # <<>>,
         NEW r \in Irc!Links, r.state = s.state, r.channels = s.channels
  PROVE  InTouch(r, [e EXCEPT !.down = Tail(e.down)])
<1> DEFINE d == [e EXCEPT !.down = Tail(e.down)]
<1>1. /\ d.closed = e.closed /\ WelcomedOnce(d)
      /\ Unwelcomed(d) => Unwelcomed(e)
      /\ d.up = e.up /\ d.joined = e.joined
  BY Heard DEF InTouch
<1> HIDE DEF d
<1>2. (\A c : JoinedAtLast(d, c) <=> JoinedAtLast(e, c)) /\ (Silent(e) <=> Silent(d))
  BY <1>1, SameUp
<1>3. InTouch(r, d)
  BY <1>1, <1>2 DEF InTouch
<1> QED BY <1>3 DEF d

\* 001: the client knows that it is welcome, and joins.
LEMMA ReadWelcome ==
  ASSUME NEW s \in Irc!Links, NEW e \in Irc!Ends, InTouch(s, e), e.down # <<>>,
         Head(e.down) = "001",
         NEW r \in Irc!Links, r.state = "Active", r.channels = s.channels
  PROVE  LET d == [[e EXCEPT !.down = Tail(e.down)] EXCEPT !.up = Irc!Welcomed(s, e.up)] IN
         d \in Irc!Ends /\ InTouch(r, d)
<1> DEFINE b == [e EXCEPT !.down = Tail(e.down)]
           up == Irc!Welcomed(s, e.up)
           d == [b EXCEPT !.up = up]
<1>1. /\ b \in Irc!Ends /\ b.closed = e.closed /\ b.joined = e.joined /\ b.up = e.up
      /\ b.registered = e.registered
      /\ WelcomedOnce(b) /\ ~Unwelcomed(b) /\ Unwelcomed(e)
  BY Heard DEF InTouch
<1>2. s.state # "Active" /\ Silent(e)
  BY <1>1 DEF InTouch
<1>3. up = e.up \o Irc!Joins(s) /\ Irc!Joins(s) \in Seq(Irc!Lines) /\ e.up \in Seq(Irc!Lines)
  BY <1>2, JoinsAll, EndFields DEF Irc!Welcomed
<1>4. up \in Seq(Irc!Lines)
  BY <1>3
<1> HIDE DEF b, up
<1>5. /\ d \in Irc!Ends /\ d.up = up
      /\ d.registered = b.registered /\ d.closed = b.closed
      /\ d.joined = b.joined /\ d.down = b.down
  BY <1>1, <1>4, EndWith
<1>6. ASSUME NEW c \in Channels PROVE c \in r.channels <=> JoinedAtLast(d, c)
  <2>1. \A i \in 1 .. Len(e.up) : e.up[i] # <<"JOIN", c>> /\ e.up[i] # <<"PART", c>>
    BY <1>2 DEF Silent
  <2>2. /\ \A i \in 1 .. Len(Irc!Joins(s)) : Irc!Joins(s)[i] # <<"PART", c>>
        /\ c \in s.channels <=> \E i \in 1 .. Len(Irc!Joins(s)) : Irc!Joins(s)[i] = <<"JOIN", c>>
    BY JoinsAll
  <2>3. LastWord(e.up \o Irc!Joins(s), <<"JOIN", c>>, <<"PART", c>>, c, {})
        <=> \E i \in 1 .. Len(Irc!Joins(s)) : Irc!Joins(s)[i] = <<"JOIN", c>>
    BY <1>3, <2>1, <2>2, LastWordConcat
  <2>4. d.joined = {}
    BY <1>1, <1>2, <1>5 DEF Silent
  <2> HIDE DEF d
  <2>5. JoinedAtLast(d, c) <=> LastWord(e.up \o Irc!Joins(s), <<"JOIN", c>>, <<"PART", c>>, c, {})
    BY <2>4, <1>3, <1>5 DEF JoinedAtLast
  <2> QED BY <2>2, <2>3, <2>5
<1> HIDE DEF d
<1>7. WelcomedOnce(d) /\ ~Unwelcomed(d)
  BY <1>1, <1>5 DEF WelcomedOnce, Unwelcomed
<1>8. InTouch(r, d)
  BY <1>6, <1>7 DEF InTouch
<1> QED BY <1>5, <1>8 DEF b, up, d

\* 433: the client tries another nick.
LEMMA ReadRefusal ==
  ASSUME NEW s \in Irc!Links, NEW e \in Irc!Ends, InTouch(s, e), e.down # <<>>
  PROVE  LET d == [[e EXCEPT !.down = Tail(e.down)] EXCEPT !.up = Append(@, <<"USER">>)] IN
         d \in Irc!Ends /\ InTouch(s, d)
<1> DEFINE b == [e EXCEPT !.down = Tail(e.down)]
<1>1. b \in Irc!Ends
  BY Heard
<1>2. InTouch(s, b)
  BY ReadNothing
<1> HIDE DEF b
<1>3. LET d == [b EXCEPT !.up = Append(b.up, <<"USER">>)] IN d \in Irc!Ends /\ InTouch(s, d)
  BY <1>1, <1>2, Untouched
<1>4. [b EXCEPT !.up = Append(@, <<"USER">>)] = [b EXCEPT !.up = Append(b.up, <<"USER">>)]
  OBVIOUS
<1> QED BY <1>3, <1>4 DEF b

LEMMA LineTaken ==
  ASSUME NEW e \in Irc!Ends, e.up # <<>>
  PROVE  LET d == [e EXCEPT !.up = Tail(e.up)] IN
         /\ d \in Irc!Ends /\ d.up = Tail(e.up) /\ d.down = e.down
         /\ d.registered = e.registered /\ d.closed = e.closed /\ d.joined = e.joined
         /\ Tail(e.up) \in Seq(Irc!Lines)
         /\ Head(e.up) \in Irc!Lines /\ Head(e.up) = e.up[1] /\ 1 \in 1 .. Len(e.up)
         /\ \A i \in 1 .. Len(Tail(e.up)) : i + 1 \in 1 .. Len(e.up) /\ Tail(e.up)[i] = e.up[i + 1]
<1>1. e.up \in Seq(Irc!Lines)
  BY EndFields
<1>2. Tail(e.up) \in Seq(Irc!Lines) /\ Head(e.up) \in Irc!Lines /\ Head(e.up) = e.up[1]
  BY <1>1
<1>3. /\ 1 \in 1 .. Len(e.up)
      /\ \A i \in 1 .. Len(Tail(e.up)) : i + 1 \in 1 .. Len(e.up) /\ Tail(e.up)[i] = e.up[i + 1]
  BY <1>1
<1> QED BY <1>2, <1>3, EndWith

\* The network takes the first line: what counts is the line and what it does
\* to `joined`.
LEMMA Served ==
  ASSUME NEW s \in Irc!Links, NEW e \in Irc!Ends, InTouch(s, e), e.up # <<>>, ~e.closed,
         NEW d, d.up = Tail(e.up), d.joined \subseteq Channels,
         d.registered = e.registered, d.down = e.down,
         \/ d.closed = TRUE /\ d.joined = {}
         \/ /\ d.closed = e.closed
            /\ Unwelcomed(e) => d.joined = {}
            /\ \A c \in Channels :
                 c \in d.joined <=> Head(e.up) = <<"JOIN", c>>
                                    \/ (Head(e.up) # <<"PART", c>> /\ c \in e.joined)
  PROVE  InTouch(s, d)
<1>1. e.up \in Seq(Irc!Lines)
  BY EndFields
<1>2. ASSUME Unwelcomed(e) PROVE s.state # "Active" /\ Silent(d)
  <2>1. s.state # "Active" /\ Silent(e) /\ d.joined = {}
    BY <1>2 DEF InTouch, Silent
  <2>2. \A c \in Channels, i \in 1 .. Len(Tail(e.up)) :
          Tail(e.up)[i] # <<"JOIN", c>> /\ Tail(e.up)[i] # <<"PART", c>>
    BY <2>1, LineTaken DEF Silent
  <2> QED BY <2>1, <2>2 DEF Silent
<1>3. ASSUME NEW c \in Channels, s.state = "Active", ~d.closed
      PROVE  c \in s.channels <=> JoinedAtLast(d, c)
  <2>1. LastWord(Tail(e.up), <<"JOIN", c>>, <<"PART", c>>, c, d.joined)
        <=> LastWord(e.up, <<"JOIN", c>>, <<"PART", c>>, c, e.joined)
    BY <1>1, <1>3, LastWordTail, LinesDiffer
  <2>2. JoinedAtLast(d, c) <=> JoinedAtLast(e, c)
    BY <2>1 DEF JoinedAtLast
  <2> QED BY <2>2, <1>3 DEF InTouch
<1>4. WelcomedOnce(d) /\ (Unwelcomed(d) <=> Unwelcomed(e))
  BY DEF InTouch, WelcomedOnce, Unwelcomed
<1> QED BY <1>2, <1>3, <1>4 DEF InTouch

\* The network answers a registration.
LEMMA RegistrationAnswered ==
  ASSUME NEW s \in Irc!Links, NEW e \in Irc!Ends, InTouch(s, e), ~e.registered,
         NEW answer \in {"001", "433"},
         NEW d, d.up = e.up, d.joined = e.joined, d.closed = e.closed,
         d.registered <=> answer = "001", d.down = Append(e.down, answer)
  PROVE  InTouch(s, d)
<1>1. e.down \in Seq(Irc!Answers) /\ answer \in Irc!Answers
  BY EndFields DEF Irc!Answers
<1>2. \A i \in 1 .. Len(e.down) : e.down[i] # "001"
  BY DEF InTouch, WelcomedOnce
<1>3. Unwelcomed(e)
  BY DEF Unwelcomed
<1>4. s.state # "Active" /\ Silent(d)
  BY <1>3, SameUp DEF InTouch
<1>5. /\ Len(d.down) = Len(e.down) + 1 /\ Len(e.down) \in Nat
      /\ \A i \in 1 .. Len(e.down) : d.down[i] = e.down[i]
      /\ d.down[Len(e.down) + 1] = answer
  BY <1>1
<1>6. \A i \in 1 .. Len(d.down) : d.down[i] = "001" => i = Len(e.down) + 1
  BY <1>2, <1>5
<1>7. WelcomedOnce(d)
  BY <1>5, <1>6 DEF WelcomedOnce
<1> QED BY <1>4, <1>7 DEF InTouch

-----------------------------------------------------------------------------
(* The steps.                                                              *)

\* Host h comes to s and e.
Becomes(h, s, e) ==
  /\ link' = [link EXCEPT ![h] = s] /\ net' = [net EXCEPT ![h] = e]
  /\ ending' = ending

LEMMA Stays ==
  ASSUME HInv, NEW h \in Hosts
  PROVE  /\ link = [link EXCEPT ![h] = link[h]] /\ net = [net EXCEPT ![h] = net[h]]
         /\ HostOK(link[h], net[h]) /\ link[h] \in Irc!Links /\ net[h] \in Irc!Ends
BY DEF HInv, HostOK

LEMMA NewLink == Irc!NoLink \in Irc!Links /\ Irc!NoLink.buf = "none" /\ ~Irc!NoLink.known
BY DEF Irc!NoLink, Irc!Links

LEMMA NewEnd == Irc!NoEnd \in Irc!Ends
BY DEF Irc!NoEnd, Irc!Ends

LEMMA ConnectKeeps ==
  ASSUME HInv, NEW h \in Hosts, Irc!Connect(h)
  PROVE  \E s, e : HostOK(s, e) /\ Becomes(h, s, e)
<1> DEFINE s == Irc!Dialled([Irc!NoLink EXCEPT !.known = TRUE])
<1>1. s \in Irc!Links /\ s.buf = "connecting" /\ ~s.timer
  BY DEF Irc!Dialled, Irc!NoLink, Irc!Links
<1>2. link' = [link EXCEPT ![h] = s] /\ net' = net /\ ending' = ending
  BY DEF Irc!Connect
<1> HIDE DEF s
<1>3. HostOK(s, net[h])
  BY <1>1, Stays DEF HostOK
<1> QED BY <1>2, <1>3, Stays DEF Becomes

LEMMA ReconnectKeeps ==
  ASSUME HInv, NEW h \in Hosts, Irc!Reconnect(h)
  PROVE  \E s, e : HostOK(s, e) /\ Becomes(h, s, e)
<1> DEFINE s == Irc!Dialled([link[h] EXCEPT !.timer = FALSE])
<1>1. s \in Irc!Links /\ s.buf = "connecting" /\ ~s.timer
  BY Stays DEF Irc!Dialled, Irc!Links
<1>2. link' = [link EXCEPT ![h] = s] /\ net' = net /\ ending' = ending
  BY DEF Irc!Reconnect
<1> HIDE DEF s
<1>3. HostOK(s, net[h])
  BY <1>1, Stays DEF HostOK
<1> QED BY <1>2, <1>3, Stays DEF Becomes

LEMMA ConnectedKeeps ==
  ASSUME HInv, NEW h \in Hosts, Irc!Connected(h)
  PROVE  \E s, e : HostOK(s, e) /\ Becomes(h, s, e)
<1>1. PICK greeting \in {<<>>, <<"notice">>} :
        net' = [net EXCEPT ![h] = [Irc!NoEnd EXCEPT !.up = <<<<"USER">>>>, !.down = greeting]]
  BY DEF Irc!Connected
<1> DEFINE s == [link[h] EXCEPT !.buf = "open", !.state = "SentIdent"]
           e == [Irc!NoEnd EXCEPT !.up = <<<<"USER">>>>, !.down = greeting]
<1>2. link' = [link EXCEPT ![h] = s] /\ ending' = ending
  BY Stays DEF Irc!Connected
<1>3. /\ s \in Irc!Links /\ s.buf = "open" /\ s.state = "SentIdent"
      /\ s.timer = link[h].timer /\ s.known = link[h].known
  BY Stays DEF Irc!Links
<1>4. s.known => ~s.timer
  BY <1>3, Stays DEF HostOK, Irc!Connected
<1>5. greeting \in Seq(Irc!Answers) /\ \A i \in 1 .. Len(greeting) : greeting[i] # "001"
  <2>1. CASE greeting = <<>>
    BY <2>1
  <2>2. CASE greeting = <<"notice">>
    BY <2>2 DEF Irc!Answers
  <2> QED BY <2>1, <2>2
<1>6. <<<<"USER">>>> \in Seq(Irc!Lines)
  BY LinesDiffer
<1>7. /\ e \in Irc!Ends /\ e.up = <<<<"USER">>>> /\ e.down = greeting
      /\ ~e.registered /\ e.joined = {}
  BY <1>5, <1>6 DEF Irc!NoEnd, Irc!Ends
<1> HIDE DEF s, e
<1>8. \A i \in 1 .. Len(e.up) : e.up[i] = <<"USER">>
  BY <1>7
<1>9. Silent(e)
  BY <1>7, <1>8, LinesDiffer DEF Silent
<1>10. WelcomedOnce(e)
  BY <1>5, <1>7 DEF WelcomedOnce
<1>11. HostOK(s, e)
  BY <1>3, <1>4, <1>7, <1>9, <1>10 DEF HostOK, InTouch
<1> QED BY <1>1, <1>2, <1>11 DEF Becomes, e

LEMMA LoseKeeps ==
  ASSUME HInv, NEW h \in Hosts, NEW evbuf \in BOOLEAN, Irc!Lose(h, evbuf)
  PROVE  \E s, e : HostOK(s, e) /\ Becomes(h, s, e)
<1> DEFINE l == [link[h] EXCEPT !.evbuf = @ \/ evbuf]
           s == Irc!AfterLoss(l)
<1>1. link' = [link EXCEPT ![h] = s] /\ net' = [net EXCEPT ![h] = Irc!NoEnd] /\ ending' = ending
  BY DEF Irc!Lose
<1>2. l \in Irc!Links
  BY Stays DEF Irc!Links
<1>3. s \in Irc!Links /\ s.buf = "none" /\ (s.known => s.timer)
  <2> HIDE DEF l
  <2>1. CASE l.state = "Quitting"
    BY <2>1, NewLink DEF Irc!AfterLoss
  <2>2. CASE l.state # "Quitting"
    BY <1>2, <2>2 DEF Irc!AfterLoss, Irc!Links
  <2> QED BY <2>1, <2>2
<1> HIDE DEF s
<1>4. HostOK(s, Irc!NoEnd)
  BY <1>3, NewEnd DEF HostOK
<1> QED BY <1>1, <1>4 DEF Becomes

LEMMA ReadKeeps ==
  ASSUME HInv, NEW h \in Hosts, Irc!Read(h)
  PROVE  \E s, e : HostOK(s, e) /\ Becomes(h, s, e)
<1> DEFINE o == link[h]
           n == net[h]
           line == Head(n.down)
           rest == [n EXCEPT !.down = Tail(n.down)]
<1>1. o \in Irc!Links /\ n \in Irc!Ends /\ InTouch(o, n) /\ n.down # <<>> /\ o.buf = "open"
  BY Stays DEF HostOK, Irc!Read
<1>2. o.known => ~o.timer
  BY <1>1, Stays DEF HostOK
<1>3. rest = [n EXCEPT !.down = Tail(@)] /\ rest \in Irc!Ends
  BY <1>1, Heard
<1>4. CASE o.evbuf
  <2> DEFINE s == [o EXCEPT !.evbuf = FALSE]
  <2>1. link' = [link EXCEPT ![h] = s] /\ net' = [net EXCEPT ![h] = rest] /\ ending' = ending
    BY <1>4 DEF Irc!Read
  <2>2. /\ s \in Irc!Links /\ s.state = o.state /\ s.channels = o.channels
        /\ s.buf = o.buf /\ s.known = o.known /\ s.timer = o.timer
    BY <1>1 DEF Irc!Links
  <2> HIDE DEF s
  <2>3. InTouch(s, rest)
    BY <1>1, <2>2, ReadNothing
  <2>4. HostOK(s, rest)
    BY <1>1, <1>2, <1>3, <2>2, <2>3 DEF HostOK
  <2> QED BY <2>1, <2>4 DEF Becomes
<1>5. CASE ~o.evbuf /\ line = "001"
  <2> DEFINE s == [o EXCEPT !.state = "Active"]
             e == [rest EXCEPT !.up = Irc!Welcomed(o, n.up)]
  <2>1. link' = [link EXCEPT ![h] = s] /\ net' = [net EXCEPT ![h] = e] /\ ending' = ending
    BY <1>5 DEF Irc!Read
  <2>2. /\ s \in Irc!Links /\ s.state = "Active" /\ s.channels = o.channels
        /\ s.buf = o.buf /\ s.known = o.known /\ s.timer = o.timer
    BY <1>1 DEF Irc!Links
  <2> HIDE DEF s
  <2>3. e \in Irc!Ends /\ InTouch(s, e)
    BY <1>1, <1>5, <2>2, ReadWelcome
  <2> HIDE DEF e
  <2>4. HostOK(s, e)
    BY <1>1, <1>2, <2>2, <2>3 DEF HostOK
  <2> QED BY <2>1, <2>4 DEF Becomes
<1>6. CASE ~o.evbuf /\ line # "001"
  <2>1. link' = [link EXCEPT ![h] = o] /\ ending' = ending
    <3>1. [o EXCEPT !.state = o.state] = o
      BY <1>1 DEF Irc!Links
    <3>2. link' = [link EXCEPT ![h] = [o EXCEPT !.state = o.state]] /\ ending' = ending
      BY <1>6 DEF Irc!Read
    <3> QED BY <3>1, <3>2
  <2>2. CASE line = "433"
    <3> DEFINE e == [rest EXCEPT !.up = Append(@, <<"USER">>)]
    <3>1. net' = [net EXCEPT ![h] = e]
      BY <1>6, <2>2 DEF Irc!Read
    <3>2. e \in Irc!Ends /\ InTouch(o, e)
      BY <1>1, ReadRefusal
    <3> HIDE DEF e
    <3>3. HostOK(o, e)
      BY <1>1, <1>2, <3>2 DEF HostOK
    <3> QED BY <2>1, <3>1, <3>3 DEF Becomes
  <2>3. CASE line # "433"
    <3>1. net' = [net EXCEPT ![h] = rest]
      BY <1>6, <2>3 DEF Irc!Read
    <3>2. InTouch(o, rest)
      BY <1>1, ReadNothing
    <3>3. HostOK(o, rest)
      BY <1>1, <1>2, <1>3, <3>2 DEF HostOK
    <3> QED BY <2>1, <3>1, <3>3 DEF Becomes
  <2> QED BY <2>2, <2>3
<1> QED BY <1>4, <1>5, <1>6

\* A command for a channel: the list changes, and the network is told if the
\* client is active.
LEMMA TellKeeps ==
  ASSUME HInv, NEW h \in Hosts, NEW c \in Channels, NEW line, NEW channels,
         \/ line = <<"JOIN", c>> /\ channels = link[h].channels \cup {c}
         \/ line = <<"PART", c>> /\ channels = link[h].channels \ {c},
         link' = [link EXCEPT ![h].channels = channels],
         Irc!Tell(h, line), ending' = ending
  PROVE  \E s, e : HostOK(s, e) /\ Becomes(h, s, e)
<1> DEFINE o == link[h]
           n == net[h]
           s == [o EXCEPT !.channels = channels]
<1>1. HostOK(o, n) /\ o \in Irc!Links /\ n \in Irc!Ends /\ n.up \in Seq(Irc!Lines)
  BY Stays, EndFields
<1>2. link' = [link EXCEPT ![h] = s]
  OBVIOUS
<1>3. channels \subseteq Channels
  BY <1>1 DEF Irc!Links
<1>4. /\ s \in Irc!Links /\ s.state = o.state /\ s.channels = channels
      /\ s.buf = o.buf /\ s.known = o.known /\ s.timer = o.timer
  BY <1>1, <1>3 DEF Irc!Links
<1> HIDE DEF s
<1>5. CASE o.state # "Active"
  <2>1. net' = [net EXCEPT ![h] = n]
    BY <1>5, Stays DEF Irc!Tell
  <2>2. InTouch(o, n) => InTouch(s, n)
    BY <1>4, <1>5 DEF InTouch
  <2>3. HostOK(s, n)
    BY <1>1, <1>4, <2>2 DEF HostOK
  <2> QED BY <1>2, <2>1, <2>3 DEF Becomes
<1>6. CASE o.state = "Active"
  <2> DEFINE e == [n EXCEPT !.up = Append(n.up, line)]
  <2>1. net' = [net EXCEPT ![h] = e]
    BY <1>6 DEF Irc!Tell
  <2>2. e \in Irc!Ends
    <3>1. line \in Irc!Lines
      BY LinesDiffer
    <3>2. Append(n.up, line) \in Seq(Irc!Lines)
      BY <1>1, <3>1
    <3> QED BY <1>1, <3>2, EndWith
  <2>3. InTouch(o, n) => InTouch(s, e)
    BY <1>1, <1>4, <1>6, Said
  <2> HIDE DEF e
  <2>4. HostOK(s, e)
    BY <1>1, <1>4, <2>2, <2>3 DEF HostOK
  <2> QED BY <1>2, <2>1, <2>4 DEF Becomes
<1> QED BY <1>5, <1>6

LEMMA JoinKeeps ==
  ASSUME HInv, NEW h \in Hosts, NEW c \in Channels, Irc!Join(h, c)
  PROVE  \E s, e : HostOK(s, e) /\ Becomes(h, s, e)
BY TellKeeps DEF Irc!Join

LEMMA PartKeeps ==
  ASSUME HInv, NEW h \in Hosts, NEW c \in Channels, Irc!Part(h, c)
  PROVE  \E s, e : HostOK(s, e) /\ Becomes(h, s, e)
BY TellKeeps DEF Irc!Part

LEMMA ServeKeeps ==
  ASSUME HInv, NEW h \in Hosts, Irc!Serve(h)
  PROVE  \E s, e : HostOK(s, e) /\ Becomes(h, s, e)
<1> DEFINE o == link[h]
           n == net[h]
           line == Head(n.up)
           end == [n EXCEPT !.up = Tail(n.up)]
           After(answer) ==
             CASE line[1] = "USER" /\ ~end.registered ->
                    [end EXCEPT !.registered = answer = "001", !.down = Append(@, answer)]
               [] line[1] = "JOIN" /\ end.registered -> [end EXCEPT !.joined = @ \cup {line[2]}]
               [] line[1] = "PART" -> [end EXCEPT !.joined = @ \ {line[2]}]
               [] line[1] = "QUIT" -> [end EXCEPT !.closed = TRUE, !.joined = {}]
               [] OTHER -> end
<1>1. PICK answer \in {"001", "433"} : net' = [net EXCEPT ![h] = After(answer)]
  BY DEF Irc!Serve
<1> DEFINE e == After(answer)
<1>2. n.up # <<>> /\ ~n.closed /\ ending' = ending /\ link' = [link EXCEPT ![h] = o]
  BY Stays DEF Irc!Serve
<1>3. HostOK(o, n) /\ o \in Irc!Links /\ n \in Irc!Ends
  BY Stays
<1>4. /\ end \in Irc!Ends /\ end.up = Tail(n.up) /\ end.down = n.down
      /\ end.registered = n.registered /\ end.closed = n.closed /\ end.joined = n.joined
      /\ line \in Irc!Lines /\ line = n.up[1] /\ 1 \in 1 .. Len(n.up)
  BY <1>2, <1>3, LineTaken
<1>5. n.joined \subseteq Channels /\ n.down \in Seq(Irc!Answers)
  BY <1>3, EndFields
<1>6. \/ line = <<"USER">> /\ line[1] = "USER"
      \/ line = <<"QUIT">> /\ line[1] = "QUIT"
      \/ line[2] \in Channels /\ line = <<"JOIN", line[2]>> /\ line[1] = "JOIN"
      \/ line[2] \in Channels /\ line = <<"PART", line[2]>> /\ line[1] = "PART"
  BY <1>4, LineKinds
<1>7. ASSUME e \in Irc!Ends, InTouch(o, n) => InTouch(o, e) PROVE HostOK(o, e)
  BY <1>3, <1>7 DEF HostOK
<1>8. e \in Irc!Ends /\ (InTouch(o, n) => InTouch(o, e))
  <2>1. CASE line = <<"USER">> /\ ~n.registered
    <3>1. /\ e.up = Tail(n.up) /\ e.down = Append(n.down, answer) /\ e.joined = n.joined
          /\ e.closed = n.closed /\ (e.registered <=> answer = "001")
          /\ e \in Irc!Ends
      <4>1. answer \in Irc!Answers
        BY DEF Irc!Answers
      <4>2. Append(n.down, answer) \in Seq(Irc!Answers)
        BY <1>5, <4>1
      <4>3. e = [end EXCEPT !.registered = answer = "001", !.down = Append(end.down, answer)]
        BY <1>4, <1>6, <2>1
      <4> HIDE DEF end, e
      <4> QED BY <1>4, <4>2, <4>3 DEF Irc!Ends
    <3>2. InTouch(o, n) => InTouch(o, end)
      <4>1. \A c \in Channels : c \in end.joined <=> line = <<"JOIN", c>>
                                                    \/ (line # <<"PART", c>> /\ c \in n.joined)
        BY <1>4, <2>1, LinesDiffer
      <4>2. InTouch(o, n) => (Unwelcomed(n) => end.joined = {})
        BY <1>4 DEF InTouch, Silent
      <4> HIDE DEF end
      <4> QED BY <1>2, <1>3, <1>4, <1>5, <4>1, <4>2, Served
    <3> HIDE DEF e, end
    <3>3. InTouch(o, end) => InTouch(o, e)
      BY <1>3, <1>4, <2>1, <3>1, RegistrationAnswered
    <3> QED BY <3>1, <3>2, <3>3
  <2>2. CASE line = <<"USER">> /\ n.registered
    <3>1. e = end
      BY <1>4, <1>6, <2>2
    <3>2. \A c \in Channels : c \in end.joined <=> line = <<"JOIN", c>>
                                                  \/ (line # <<"PART", c>> /\ c \in n.joined)
      BY <1>4, <2>2, LinesDiffer
    <3>3. InTouch(o, n) => (Unwelcomed(n) => end.joined = {})
      BY <1>4 DEF InTouch, Silent
    <3> HIDE DEF end, e
    <3> QED BY <1>2, <1>3, <1>4, <1>5, <3>1, <3>2, <3>3, Served
  <2>3. CASE line = <<"QUIT">>
    <3>1. e = [end EXCEPT !.closed = TRUE, !.joined = {}]
      BY <1>4, <1>6, <2>3
    <3> HIDE DEF end, e
    <3>2. /\ e \in Irc!Ends /\ e.up = Tail(n.up) /\ e.down = n.down
          /\ e.registered = n.registered /\ e.closed = TRUE /\ e.joined = {}
      BY <1>4, <3>1 DEF Irc!Ends
    <3> QED BY <1>2, <1>3, <3>2, Served
  <2>4. CASE line[2] \in Channels /\ line = <<"JOIN", line[2]>>
    <3> DEFINE d == [end EXCEPT !.joined = end.joined \cup {line[2]}]
    <3>1. e = IF n.registered THEN d ELSE end
      BY <1>4, <1>6, <2>4
    <3>2. InTouch(o, n) => ~Unwelcomed(n)
      BY <1>4, <2>4 DEF InTouch, Silent
    <3>3. InTouch(o, n) => n.registered
      BY <3>2 DEF Unwelcomed
    <3> HIDE DEF end, e
    <3>4. /\ d \in Irc!Ends /\ d.up = Tail(n.up) /\ d.down = n.down
          /\ d.registered = n.registered /\ d.closed = n.closed
          /\ d.joined = n.joined \cup {line[2]} /\ d.joined \subseteq Channels
      BY <1>4, <1>5, <2>4 DEF Irc!Ends
    <3>5. \A c \in Channels : c \in d.joined <=> line = <<"JOIN", c>>
                                                \/ (line # <<"PART", c>> /\ c \in n.joined)
      BY <2>4, <3>4, LinesDiffer
    <3> HIDE DEF d
    <3>6. InTouch(o, n) => InTouch(o, d)
      BY <1>2, <1>3, <3>2, <3>4, <3>5, Served
    <3> QED BY <1>4, <3>1, <3>3, <3>4, <3>6
  <2>5. CASE line[2] \in Channels /\ line = <<"PART", line[2]>>
    <3>1. e = [end EXCEPT !.joined = end.joined \ {line[2]}]
      BY <1>4, <1>6, <2>5
    <3> HIDE DEF end, e
    <3>2. /\ e \in Irc!Ends /\ e.up = Tail(n.up) /\ e.down = n.down
          /\ e.registered = n.registered /\ e.closed = n.closed
          /\ e.joined = n.joined \ {line[2]} /\ e.joined \subseteq Channels
      BY <1>4, <1>5, <3>1 DEF Irc!Ends
    <3>3. \A c \in Channels : c \in e.joined <=> line = <<"JOIN", c>>
                                                \/ (line # <<"PART", c>> /\ c \in n.joined)
      BY <2>5, <3>2, LinesDiffer
    <3>4. InTouch(o, n) => (Unwelcomed(n) => e.joined = {})
      BY <3>2 DEF InTouch, Silent
    <3> QED BY <1>2, <1>3, <3>2, <3>3, <3>4, Served
  <2> QED BY <1>6, <2>1, <2>2, <2>3, <2>4, <2>5
<1> QED BY <1>1, <1>2, <1>7, <1>8 DEF Becomes

LEMMA HostStepKeeps ==
  ASSUME HInv, NEW h \in Hosts, Irc!HostStep(h)
  PROVE  \E s, e : HostOK(s, e) /\ Becomes(h, s, e)
<1>1. CASE Irc!Connect(h)
  BY <1>1, ConnectKeeps
<1>2. CASE Irc!Reconnect(h)
  BY <1>2, ReconnectKeeps
<1>3. CASE Irc!Connected(h)
  BY <1>3, ConnectedKeeps
<1>4. CASE Irc!Break(h)
  <2>1. PICK evbuf \in {FALSE, link[h].buf = "open"} : Irc!Lose(h, evbuf)
    BY <1>4 DEF Irc!Break
  <2>2. evbuf \in BOOLEAN
    OBVIOUS
  <2> QED BY <2>1, <2>2, LoseKeeps
<1>5. CASE Irc!Eof(h)
  <2>1. PICK evbuf \in BOOLEAN : Irc!Lose(h, evbuf)
    BY <1>5 DEF Irc!Eof
  <2> QED BY <2>1, LoseKeeps
<1>6. CASE Irc!TimeOut(h)
  <2>1. PICK evbuf \in BOOLEAN : Irc!Lose(h, evbuf)
    BY <1>6 DEF Irc!TimeOut
  <2> QED BY <2>1, LoseKeeps
<1>7. CASE Irc!Read(h)
  BY <1>7, ReadKeeps
<1>8. CASE Irc!Serve(h)
  BY <1>8, ServeKeeps
<1>9. ASSUME NEW c \in Channels, Irc!Join(h, c) \/ Irc!Part(h, c)
      PROVE  \E s, e : HostOK(s, e) /\ Becomes(h, s, e)
  BY <1>9, JoinKeeps, PartKeeps
<1> QED BY <1>1, <1>2, <1>3, <1>4, <1>5, <1>6, <1>7, <1>8, <1>9 DEF Irc!HostStep

LEMMA QuitKeeps ==
  ASSUME NEW s, NEW e, HostOK(s, e), NEW secs \in QuitSecs
  PROVE  HostOK(Irc!Quit(s, secs), IF s.state \in {"SentIdent", "Active"}
                                   THEN [e EXCEPT !.up = Append(e.up, <<"QUIT">>)] ELSE e)
<1>1. CASE s.state \notin {"SentIdent", "Active"}
  BY <1>1 DEF Irc!Quit
<1>2. CASE s.state \in {"SentIdent", "Active"}
  <2> DEFINE r == Irc!Quit(s, secs)
             d == [e EXCEPT !.up = Append(e.up, <<"QUIT">>)]
  <2>1. s \in Irc!Links /\ e \in Irc!Ends
    BY DEF HostOK
  <2>2. /\ r \in Irc!Links /\ r.state = "Quitting"
        /\ r.buf = s.buf /\ r.known = s.known /\ r.timer = s.timer
    <3> DEFINE b == s.timeout \/ secs # 0
    <3>1. secs \in {0, 1} /\ b \in BOOLEAN
      BY ChannelsAssumption
    <3>2. r = [s EXCEPT !.state = "Quitting", !.secs = secs, !.timeout = b]
      BY <1>2 DEF Irc!Quit
    <3> HIDE DEF r, b
    <3> QED BY <2>1, <3>1, <3>2 DEF Irc!Links
  <2>3. d \in Irc!Ends
    <3>1. Append(e.up, <<"QUIT">>) \in Seq(Irc!Lines)
      BY <2>1, EndFields, LinesDiffer
    <3> QED BY <2>1, <3>1, EndWith
  <2>4. InTouch(s, e) => InTouch(s, d)
    BY <2>1, Untouched
  <2> HIDE DEF r, d
  <2>5. InTouch(s, e) => InTouch(r, d)
    BY <2>2, <2>4 DEF InTouch
  <2>6. HostOK(r, d)
    BY <2>2, <2>3, <2>5 DEF HostOK
  <2> QED BY <1>2, <2>6 DEF r, d
<1> QED BY <1>1, <1>2

LEMMA HInvInit == LinksInit => HInv
<1> SUFFICES ASSUME LinksInit PROVE HInv
  OBVIOUS
<1>1. HostOK(Irc!NoLink, Irc!NoEnd)
  BY NewLink, NewEnd DEF HostOK
<1>2. /\ link = [h \in Hosts |-> Irc!NoLink] /\ net = [h \in Hosts |-> Irc!NoEnd]
      /\ ending = FALSE /\ exited = FALSE
  BY DEF LinksInit, Irc!Init
<1> QED BY <1>1, <1>2 DEF HInv

LEMMA HInvNext == HInv /\ [LinksNext]_<<part, vars, ircVars>> => HInv'
<1> SUFFICES ASSUME HInv, [LinksNext]_<<part, vars, ircVars>> PROVE HInv'
  OBVIOUS
<1>1. CASE UNCHANGED ircVars
  BY <1>1 DEF HInv, ircVars
<1>2. CASE Irc!Next /\ ~UNCHANGED ircVars
  <2>1. /\ \/ \E h \in Hosts : Irc!HostStep(h)
           \/ Irc!Shutdown
        /\ exited' \in BOOLEAN
    BY <1>2 DEF Irc!Next, Irc!vars, ircVars
  <2>2. CASE \E h \in Hosts : Irc!HostStep(h)
    <3>1. PICK h \in Hosts : Irc!HostStep(h)
      BY <2>2
    <3>2. PICK s, e : HostOK(s, e) /\ Becomes(h, s, e)
      BY <3>1, HostStepKeeps
    <3>3. /\ link' = [g \in Hosts |-> link'[g]] /\ net' = [g \in Hosts |-> net'[g]]
          /\ \A g \in Hosts : /\ link'[g] = IF g = h THEN s ELSE link[g]
                              /\ net'[g] = IF g = h THEN e ELSE net[g]
      BY <3>2 DEF HInv, Becomes
    <3>4. ending' \in BOOLEAN
      BY <3>2 DEF HInv, Becomes
    <3>5. ASSUME NEW g \in Hosts PROVE HostOK(link'[g], net'[g])
      BY <3>2, <3>3 DEF HInv
    <3> QED BY <2>1, <3>3, <3>4, <3>5 DEF HInv
  <2>3. CASE Irc!Shutdown
    <3>0. PICK secs \in QuitSecs : link' = [h \in Hosts |-> Irc!Quit(link[h], secs)]
      BY <2>3 DEF Irc!Shutdown
    <3>1. ASSUME NEW h \in Hosts PROVE HostOK(link'[h], net'[h])
      <4>1. /\ link'[h] = Irc!Quit(link[h], secs)
            /\ net'[h] = IF link[h].state \in {"SentIdent", "Active"}
                         THEN [net[h] EXCEPT !.up = Append(net[h].up, <<"QUIT">>)]
                         ELSE net[h]
        BY <2>3, <3>0 DEF Irc!Shutdown
      <4>2. HostOK(link[h], net[h])
        BY DEF HInv
      <4>3. HostOK(Irc!Quit(link[h], secs),
                   IF link[h].state \in {"SentIdent", "Active"}
                   THEN [net[h] EXCEPT !.up = Append(net[h].up, <<"QUIT">>)] ELSE net[h])
        BY <4>2, QuitKeeps
      <4> QED BY <4>1, <4>3
    <3>2. link' = [h \in Hosts |-> link'[h]] /\ net' = [h \in Hosts |-> net'[h]] /\ ending' \in BOOLEAN
      BY <2>3, <3>0 DEF Irc!Shutdown
    <3> QED BY <2>1, <3>1, <3>2 DEF HInv
  <2> QED BY <2>1, <2>2, <2>3
<1> QED BY <1>1, <1>2 DEF LinksNext, vars, ircVars

LEMMA HInvImplies == HInv => ChannelsInStep
<1> SUFFICES ASSUME HInv PROVE ChannelsInStep
  OBVIOUS
<1>1. \A h \in Hosts : HostOK(link[h], net[h])
  BY DEF HInv
<1>2. Irc!TypeOK
  <2>1. ASSUME NEW h \in Hosts
        PROVE  /\ link[h] \in Irc!Links /\ net[h].joined \subseteq Channels
               /\ \A i \in DOMAIN net[h].up : net[h].up[i] \in Irc!Lines
               /\ \A i \in DOMAIN net[h].down : net[h].down[i] \in Irc!Answers
    <3>1. link[h] \in Irc!Links /\ net[h] \in Irc!Ends
      BY <1>1 DEF HostOK
    <3> QED BY <3>1, EndFields
  <2> QED BY <2>1 DEF Irc!TypeOK, HInv
<1>3. Irc!StaysConnected
  BY <1>1 DEF Irc!StaysConnected, HostOK
<1>4. ASSUME NEW h \in Hosts, link[h].state = "Active" /\ link[h].buf = "open",
             ~net[h].closed, net[h].up = <<>>
      PROVE  net[h].joined = link[h].channels
  <2>1. /\ InTouch(link[h], net[h]) /\ net[h].joined \subseteq Channels
        /\ link[h].channels \subseteq Channels
    BY <1>1, <1>4, EndFields DEF HostOK, Irc!Links
  <2>2. \A c : JoinedAtLast(net[h], c) <=> c \in net[h].joined
    BY <1>4 DEF JoinedAtLast, LastWord
  <2> QED BY <1>4, <2>1, <2>2 DEF InTouch
<1> QED BY <1>2, <1>3, <1>4 DEF ChannelsInStep, Irc!ChannelsInStep

\* However channels are joined and parted while connections are made, refused
\* and lost, a client that is connected and has said everything is in the
\* channels it was told to be in; and no server of the list is without a
\* connection and a timer (Server::process, irc_eventcb).
THEOREM ChannelsStayInStep == LinksSpec => []ChannelsInStep
<1>1. LinksSpec => LinksInit /\ [][LinksNext]_<<part, vars, ircVars>>
  BY PTL DEF LinksSpec
<1> QED BY <1>1, HInvInit, HInvNext, HInvImplies, PTL


-----------------------------------------------------------------------------
(* The ENet channel: eras.  Era(n) is the window of command n when the     *)
(* numbering never started over; what the code knows is Number(n) and its  *)
(* window, Era(n) % Windows.                                               *)

Era(n) == n \div WindowSize

LEMMA Sizes ==
  /\ WindowSize \in Nat \ {0} /\ FreeWindows \in Nat /\ FreeWindows >= 3
  /\ Windows \in Nat /\ Windows = 2 * FreeWindows
  /\ Modulus \in Nat \ {0} /\ Modulus = Windows * WindowSize
<1>1. \A a, b \in Nat \ {0} : a * b \in Nat \ {0}
  OBVIOUS
<1> QED  BY <1>1, WindowAssumption DEF Modulus

LEMMA DivMod ==
  ASSUME NEW a \in Nat, NEW b \in Nat \ {0}
  PROVE  /\ a \div b \in Nat /\ a % b \in 0 .. (b - 1)
         /\ a = b * (a \div b) + (a % b)
OBVIOUS

LEMMA DivUnique ==
  ASSUME NEW b \in Nat \ {0}, NEW q \in Nat, NEW r \in 0 .. (b - 1), NEW q2 \in Nat, NEW r2 \in 0 .. (b - 1),
         b * q + r = b * q2 + r2
  PROVE  q = q2 /\ r = r2
<1>1. ASSUME NEW x \in Nat, NEW y \in Nat, x < y PROVE b * y >= b * x + b
  <2>1. PICK d \in Nat : y = x + 1 + d
    <3>1. y - x - 1 \in Nat /\ y = x + 1 + (y - x - 1)  BY <1>1
    <3> QED  BY <3>1
  <2>2. b * y = b * x + b + b * d  BY <2>1
  <2>3. b * d \in Nat /\ b * x \in Nat OBVIOUS
  <2> QED  BY <2>2, <2>3
<1>2. b * q \in Nat /\ b * q2 \in Nat  OBVIOUS
<1>3. ~(q < q2)  BY <1>1, <1>2
<1>4. ~(q2 < q)  BY <1>1, <1>2
<1> QED  BY <1>3, <1>4, <1>2

LEMMA DivIs ==
  ASSUME NEW a \in Nat, NEW b \in Nat \ {0}, NEW q \in Nat, NEW r \in 0 .. (b - 1), a = b * q + r
  PROVE  a \div b = q /\ a % b = r
BY DivMod, DivUnique

LEMMA EraIs ==
  ASSUME NEW n \in Nat
  PROVE  /\ Era(n) \in Nat
         /\ Era(n) * WindowSize <= n /\ n < Era(n) * WindowSize + WindowSize
         /\ n = Era(n) * WindowSize + (n % WindowSize) /\ n % WindowSize \in 0 .. (WindowSize - 1)
<1>1. PICK b \in Nat \ {0} : b = WindowSize  BY Sizes
<1>2. /\ n \div b \in Nat /\ n % b \in 0 .. (b - 1)
      /\ n = b * (n \div b) + (n % b)
  BY DivMod, Zenon
<1>3. PICK q \in Nat, r \in 0 .. (b - 1) : n \div b = q /\ n % b = r /\ n = b * q + r
  BY <1>2
<1>4. b * q = q * b /\ q * b \in Nat  OBVIOUS
<1>5. q * b <= n /\ n < q * b + b /\ n = q * b + r  BY <1>3, <1>4
<1> QED  BY <1>1, <1>3, <1>5 DEF Era

LEMMA EraOf ==
  ASSUME NEW e \in Nat, NEW r \in 0 .. (WindowSize - 1)
  PROVE  e * WindowSize + r \in Nat /\ Era(e * WindowSize + r) = e /\ (e * WindowSize + r) % WindowSize = r
<1>1. WindowSize * e = e * WindowSize /\ e * WindowSize \in Nat  BY Sizes
<1> QED  BY DivIs, Sizes, <1>1 DEF Era

\* Eras grow with the commands.
LEMMA EraLess ==
  ASSUME NEW m \in Nat, NEW n \in Nat, m <= n
  PROVE  Era(m) <= Era(n)
<1> DEFINE a == Era(m)  b == Era(n)
<1>1. a \in Nat /\ b \in Nat /\ a * WindowSize <= m /\ n < b * WindowSize + WindowSize
  BY EraIs
<1> HIDE DEF a, b
<1>2. SUFFICES ASSUME b < a PROVE FALSE  BY <1>1 DEF a, b
<1>3. PICK d \in Nat : a = b + 1 + d
  <2>1. a - b - 1 \in Nat /\ a = b + 1 + (a - b - 1)  BY <1>1, <1>2
  <2> QED  BY <2>1
<1>4. a * WindowSize = b * WindowSize + WindowSize + d * WindowSize  BY <1>3, <1>1, Sizes
<1>5. d * WindowSize \in Nat /\ b * WindowSize \in Nat  BY <1>1, Sizes
<1> QED  BY <1>1, <1>4, <1>5, Sizes

LEMMA EraShift ==
  ASSUME NEW n \in Nat, NEW k \in Nat
  PROVE  k * WindowSize \in Nat /\ n + k * WindowSize \in Nat /\ Era(n + k * WindowSize) = Era(n) + k
<1>1. PICK e \in Nat, r \in 0 .. (WindowSize - 1) : n = e * WindowSize + r /\ Era(n) = e
  BY EraIs
<1>2. n + k * WindowSize = (e + k) * WindowSize + r  BY <1>1, Sizes
<1>3. k * WindowSize \in Nat  BY Sizes
<1>4. e + k \in Nat  OBVIOUS
<1> QED  BY <1>1, <1>2, <1>3, <1>4, EraOf

\* The sequence number of a command, from its window and its place there.
LEMMA NumberIs ==
  ASSUME NEW n \in Nat
  PROVE  /\ Number(n) \in Nat /\ Number(n) < Modulus
         /\ Number(n) = (Era(n) % Windows) * WindowSize + (n % WindowSize)
         /\ Window(Number(n)) = Era(n) % Windows
         /\ Number(n) % WindowSize = n % WindowSize
         /\ Window(Number(n)) \in 0 .. (Windows - 1)
<1>1. PICK e \in Nat, r \in 0 .. (WindowSize - 1) : n = e * WindowSize + r /\ Era(n) = e /\ r = n % WindowSize
  BY EraIs
<1>2. PICK q \in Nat, w \in 0 .. (Windows - 1) : e = Windows * q + w /\ e % Windows = w
  <2>1. PICK b \in Nat \ {0} : b = Windows  BY Sizes
  <2>2. /\ e \div b \in Nat /\ e % b \in 0 .. (b - 1)
        /\ e = b * (e \div b) + (e % b)
    BY DivMod, Zenon
  <2> QED  BY <2>1, <2>2
<1>3. n = Modulus * q + (w * WindowSize + r)
  BY <1>1, <1>2, Sizes
<1>4. w * WindowSize + r \in 0 .. (Modulus - 1)
  <2>1. PICK d \in Nat : Windows = w + 1 + d
    <3>1. Windows - w - 1 \in Nat /\ Windows = w + 1 + (Windows - w - 1)  BY <1>2, Sizes
    <3> QED  BY <3>1
  <2>2. Modulus = w * WindowSize + WindowSize + d * WindowSize  BY <2>1, Sizes
  <2>3. d * WindowSize \in Nat /\ w * WindowSize \in Nat  BY Sizes
  <2> QED  BY <2>2, <2>3, Sizes
<1>5. Number(n) = w * WindowSize + r
  BY <1>3, <1>4, DivIs, Sizes DEF Number
<1>6. Era(w * WindowSize + r) = w /\ (w * WindowSize + r) % WindowSize = r
  BY EraOf
<1>7. Number(n) \in Nat /\ Number(n) < Modulus  BY <1>4, <1>5, Sizes
<1>8. Era(n) % Windows = w /\ n % WindowSize = r /\ Window(Number(n)) = w /\ Number(n) % WindowSize = r
  BY <1>1, <1>2, <1>5, <1>6 DEF Window, Era
<1> QED  BY <1>2, <1>5, <1>7, <1>8

\* Two commands of the same number are the same or a round apart.
LEMMA SameNumber ==
  ASSUME NEW m \in Nat, NEW n \in Nat, Number(m) = Number(n), m - n < Modulus, n - m < Modulus
  PROVE  m = n
<1>0. PICK b \in Nat \ {0} : b = Modulus  BY Sizes
<1>a. /\ m \div b \in Nat /\ m % b \in 0 .. (b - 1) /\ m = b * (m \div b) + (m % b)
      /\ n \div b \in Nat /\ n % b \in 0 .. (b - 1) /\ n = b * (n \div b) + (n % b)
  BY DivMod, Zenon
<1>b. m % b = n % b  BY <1>0 DEF Number
<1>1. PICK p \in Nat, r \in 0 .. (Modulus - 1) : m = Modulus * p + r /\ n % b = r
  BY <1>a, <1>b, <1>0
<1>2. PICK q \in Nat : n = Modulus * q + r
  BY <1>a, <1>1, <1>0
<1>3. ASSUME NEW x \in Nat, NEW y \in Nat, x < y PROVE Modulus * y >= Modulus * x + Modulus
  <2>1. PICK d \in Nat : y = x + 1 + d
    <3>1. y - x - 1 \in Nat /\ y = x + 1 + (y - x - 1)  BY <1>3
    <3> QED  BY <3>1
  <2>2. Modulus * y = Modulus * x + Modulus + Modulus * d  BY <2>1, Sizes
  <2>3. Modulus * d \in Nat /\ Modulus * x \in Nat BY Sizes
  <2> QED  BY <2>2, <2>3, Sizes
<1>4. Modulus * p \in Nat /\ Modulus * q \in Nat  BY Sizes
<1>5. ~(p < q) /\ ~(q < p)  BY <1>1, <1>2, <1>3, <1>4, Sizes
<1> QED  BY <1>1, <1>2, <1>5

LEMMA Round ==
  ASSUME NEW n \in Nat
  PROVE  \E b \in Nat : n = Modulus * b + Number(n) /\ Era(n) = Windows * b + Window(Number(n))
<1>1. PICK e \in Nat, r \in 0 .. (WindowSize - 1) : n = e * WindowSize + r /\ Era(n) = e /\ r = n % WindowSize
  BY EraIs
<1>2. PICK q \in Nat, w \in 0 .. (Windows - 1) : e = Windows * q + w /\ e % Windows = w
  <2>1. PICK b \in Nat \ {0} : b = Windows  BY Sizes
  <2>2. /\ e \div b \in Nat /\ e % b \in 0 .. (b - 1)
        /\ e = b * (e \div b) + (e % b)
    BY DivMod, Zenon
  <2> QED  BY <2>1, <2>2
<1>3. Number(n) = w * WindowSize + r /\ Window(Number(n)) = w
  BY NumberIs, <1>1, <1>2
<1>4. n = Modulus * q + Number(n)  BY <1>1, <1>2, <1>3, Sizes
<1> QED  BY <1>1, <1>2, <1>3, <1>4

\* From one round to the next the numbers grow by Modulus.
LEMMA RoundsApart ==
  ASSUME NEW a \in Nat, NEW b \in Nat, NEW k \in Nat \ {0}
  PROVE  /\ k * a \in Nat /\ k * b \in Nat
         /\ a = b => k * a = k * b
         /\ b = a + 1 => k * b = k * a + k
         /\ b > a + 1 => k * b >= k * a + 2 * k
<1>1. k * a \in Nat /\ k * b \in Nat  OBVIOUS
<1>2. b = a + 1 => k * b = k * a + k  OBVIOUS
<1>3. ASSUME b > a + 1 PROVE k * b >= k * a + 2 * k
  <2>1. PICK d \in Nat : b = a + 2 + d
    <3>1. b - a - 2 \in Nat /\ b = a + 2 + (b - a - 2)  BY <1>3
    <3> QED  BY <3>1
  <2>2. k * b = k * a + 2 * k + k * d  BY <2>1
  <2>3. k * d \in Nat  OBVIOUS
  <2> QED  BY <2>2, <2>3, <1>1
<1> QED  BY <1>1, <1>2, <1>3

\* What the receiver makes of a number: how many windows on it is.
LEMMA AheadIs ==
  ASSUME NEW n \in Nat, NEW c \in Nat, n - c < Modulus, c - n < Modulus
  PROVE  /\ n >= c => Ahead(Number(n), Number(c)) = Window(Number(c)) + (Era(n) - Era(c))
         /\ n < c => Ahead(Number(n), Number(c)) = Window(Number(c)) + (Era(n) - Era(c)) + Windows
         /\ Window(Number(c)) \in Nat
<1>1. PICK b \in Nat : n = Modulus * b + Number(n) /\ Era(n) = Windows * b + Window(Number(n))
  BY Round
<1>2. PICK a \in Nat : c = Modulus * a + Number(c) /\ Era(c) = Windows * a + Window(Number(c))
  BY Round
<1>3. PICK x \in Nat, y \in Nat, v \in Nat, w \in Nat :
        /\ x = Number(n) /\ y = Number(c) /\ v = Window(Number(n)) /\ w = Window(Number(c))
        /\ x < Modulus /\ y < Modulus /\ v < Windows /\ w < Windows
  <2>1. /\ Number(n) \in Nat /\ Number(n) < Modulus /\ Window(Number(n)) \in 0 .. (Windows - 1)
        /\ Number(c) \in Nat /\ Number(c) < Modulus /\ Window(Number(c)) \in 0 .. (Windows - 1)
    BY NumberIs, Zenon
  <2>2. Windows \in Nat  BY Sizes
  <2> QED  BY <2>1, <2>2
<1>4. Ahead(x, y) = v + (IF x < y THEN Windows ELSE 0)  BY <1>3 DEF Ahead
<1>5. PICK ma \in Nat, mb \in Nat, wa \in Nat, wb \in Nat :
        /\ ma = Modulus * a /\ mb = Modulus * b /\ wa = Windows * a /\ wb = Windows * b
        /\ b = a => ma = mb /\ wa = wb
        /\ b = a + 1 => mb = ma + Modulus /\ wb = wa + Windows
        /\ b > a + 1 => mb >= ma + 2 * Modulus
        /\ a = b + 1 => ma = mb + Modulus /\ wa = wb + Windows
        /\ a > b + 1 => ma >= mb + 2 * Modulus
  <2>1. \A k \in Nat \ {0} :
         /\ k * a \in Nat /\ k * b \in Nat
         /\ a = b => k * a = k * b
         /\ b = a + 1 => k * b = k * a + k
         /\ b > a + 1 => k * b >= k * a + 2 * k
         /\ a = b + 1 => k * a = k * b + k
         /\ a > b + 1 => k * a >= k * b + 2 * k
    BY RoundsApart
  <2> QED  BY <2>1, Sizes
<1>6. n = mb + x /\ c = ma + y /\ Era(n) = wb + v /\ Era(c) = wa + w  BY <1>1, <1>2, <1>3, <1>5
<1>7. ~(b > a + 1) /\ ~(a > b + 1)  BY <1>3, <1>5, <1>6, Sizes
<1>8. CASE b = a  BY <1>8, <1>3, <1>4, <1>5, <1>6, Sizes
<1>9. CASE b = a + 1
  <2>1. x < y /\ n >= c  BY <1>9, <1>3, <1>5, <1>6, Sizes
  <2> QED  BY <2>1, <1>9, <1>3, <1>4, <1>5, <1>6, Sizes
<1>10. CASE a = b + 1
  <2>1. x > y /\ n < c  BY <1>10, <1>3, <1>5, <1>6, Sizes
  <2> QED  BY <2>1, <1>10, <1>3, <1>4, <1>5, <1>6, Sizes
<1> QED  BY <1>7, <1>8, <1>9, <1>10

\* The same about the numbers themselves: which of two comes first after c.
LEMMA InOrder ==
  ASSUME NEW n \in Nat, NEW c \in Nat, c <= n, n < c + Modulus
  PROVE  Number(n) = Number(c) + (n - c) - (IF Number(n) < Number(c) THEN Modulus ELSE 0)
<1>1. PICK b \in Nat : n = Modulus * b + Number(n)
  BY Round
<1>2. PICK a \in Nat : c = Modulus * a + Number(c)
  BY Round
<1>3. PICK x \in Nat, y \in Nat : x = Number(n) /\ y = Number(c) /\ x < Modulus /\ y < Modulus
  BY NumberIs, Sizes
<1>5. PICK ma \in Nat, mb \in Nat :
        /\ ma = Modulus * a /\ mb = Modulus * b
        /\ b = a => ma = mb
        /\ b = a + 1 => mb = ma + Modulus
        /\ b > a + 1 => mb >= ma + 2 * Modulus
        /\ a = b + 1 => ma = mb + Modulus
        /\ a > b + 1 => ma >= mb + 2 * Modulus
  <2>1. \A k \in Nat \ {0} :
         /\ k * a \in Nat /\ k * b \in Nat
         /\ a = b => k * a = k * b
         /\ b = a + 1 => k * b = k * a + k
         /\ b > a + 1 => k * b >= k * a + 2 * k
         /\ a = b + 1 => k * a = k * b + k
         /\ a > b + 1 => k * a >= k * b + 2 * k
    BY RoundsApart
  <2> QED  BY <2>1, Sizes
<1>6. n = mb + x /\ c = ma + y  BY <1>1, <1>2, <1>3, <1>5
<1>7. ~(b > a + 1) /\ ~(a > b + 1) /\ ~(a = b + 1)  BY <1>3, <1>5, <1>6, Sizes
<1> QED  BY <1>7, <1>3, <1>5, <1>6, Sizes

-----------------------------------------------------------------------------
(* Induction over Nat in the form of inductive sets, and what the recursive*)
(* definitions of EnetChannel are: where packets start, whose a command is.*)

LEMMA LeastNatural ==
  ASSUME NEW T, T \subseteq Nat, T # {}
  PROVE  \E x \in T : \A y \in T : x <= y
<1> DEFINE R == OpToRel(<, Nat)
<1>1. IsWellFoundedOn(R, Nat)
  BY NatLessThanWellFounded
<1>2. \A x, y \in Nat : <<y, x>> \in R <=> y < x
  BY DEF OpToRel
<1> HIDE DEF R
<1>3. PICK x \in T : \A y \in T : ~ (<<y, x>> \in R)
  BY <1>1, WFMin
<1>4. \A y \in T : ~ (y < x)
  BY <1>2, <1>3
<1> QED BY <1>4

LEMMA InductiveSet ==
  ASSUME NEW T, 0 \in T, \A k \in Nat : k \in T => k + 1 \in T
  PROVE  Nat \subseteq T
<1> SUFFICES ASSUME Nat \ T # {} PROVE FALSE
  OBVIOUS
<1>1. PICK k \in Nat \ T : \A l \in Nat \ T : k <= l
  BY LeastNatural
<1>2. k - 1 \in Nat /\ (k - 1) + 1 = k
  BY <1>1
<1>3. k - 1 \in T
  BY <1>1, <1>2
<1> QED BY <1>2, <1>3

LEMMA SetInduction ==
  ASSUME NEW X, IsFiniteSet(X), NEW T, {} \in T,
         \A S \in SUBSET X : \A x \in X \ S : S \in T => S \cup {x} \in T
  PROVE  X \in T
<1> DEFINE N == {n \in Nat : \A S \in SUBSET X : Cardinality(S) = n => S \in T}
<1>1. 0 \in N
  <2> SUFFICES ASSUME NEW S \in SUBSET X, Cardinality(S) = 0 PROVE S \in T
    OBVIOUS
  <2>1. S = {}
    BY FS_Subset, FS_EmptySet
  <2> QED BY <2>1
<1>2. ASSUME NEW n \in Nat, n \in N PROVE n + 1 \in N
  <2> SUFFICES ASSUME NEW S \in SUBSET X, Cardinality(S) = n + 1 PROVE S \in T
    OBVIOUS
  <2>1. IsFiniteSet(S) /\ S # {}
    BY FS_Subset, FS_EmptySet
  <2>2. PICK x \in S : TRUE
    BY <2>1
  <2>3. Cardinality(S \ {x}) = n
    <3>1. Cardinality(S \ {x}) = Cardinality(S) - 1
      BY <2>1, FS_RemoveElement
    <3> QED BY <3>1
  <2>4. S \ {x} \in T
    BY <1>2, <2>3
  <2>5. x \in X \ (S \ {x}) /\ (S \ {x}) \cup {x} = S
    OBVIOUS
  <2> QED BY <2>4, <2>5
<1>3. Cardinality(X) \in N
  <2>1. Cardinality(X) \in Nat
    BY FS_CardinalityType
  <2> HIDE DEF N
  <2> QED BY <1>1, <1>2, <2>1, InductiveSet
<1> QED BY <1>3

LEMMA MaxIs ==
  ASSUME NEW S, IsFiniteSet(S), S # {}, S \subseteq Int
  PROVE  Max(S) \in S /\ \A y \in S : Max(S) >= y
<1> DEFINE Has(Z) == Z = {} \/ \E x \in Z : \A y \in Z : y <= x
           T == {Z \in SUBSET S : Has(Z)}
<1>1. {} \in T
  OBVIOUS
<1>2. ASSUME NEW Z \in SUBSET S, NEW v \in S \ Z, Z \in T PROVE Z \cup {v} \in T
  <2>1. CASE Z = {}
    BY <2>1
  <2>2. CASE Z # {}
    <3>1. PICK x \in Z : \A y \in Z : y <= x
      BY <1>2, <2>2
    <3>2. CASE v <= x
      BY <3>1, <3>2
    <3>3. CASE x <= v
      BY <3>1, <3>3
    <3> QED BY <3>2, <3>3
  <2> QED BY <2>1, <2>2
<1>3. S \in T
  <2> HIDE DEF T
  <2> QED BY <1>1, <1>2, SetInduction
<1>4. \E x \in S : \A y \in S : x >= y
  BY <1>3
<1> QED BY <1>4 DEF Max

-----------------------------------------------------------------------------
(* Recursive functions on numbers: that there are such functions.          *)

PacketCount == Len(Packets)

LEMMA StartsAre ==
  /\ PacketCount \in Nat /\ DOMAIN Packets = 1 .. PacketCount
  /\ \A p \in 1 .. PacketCount : Len(Packets[p]) \in 1 .. WindowSize
  /\ Starts[1] = 1
  /\ \A p \in 1 .. PacketCount : Starts[p + 1] = Starts[p] + Len(Packets[p])
<1>1. /\ PacketCount \in Nat /\ DOMAIN Packets = 1 .. PacketCount
      /\ \A p \in 1 .. PacketCount : Len(Packets[p]) \in 1 .. WindowSize
  BY PacketAssumption DEF PacketCount
<1> DEFINE Eq(f, m) == f = [p \in 1 .. m |-> IF p = 1 THEN 1 ELSE f[p - 1] + Len(Packets[p - 1])]
           T == {m \in Nat : \E f : Eq(f, m)}
<1>2. 0 \in T
  <2>1. Eq([p \in 1 .. 0 |-> 0], 0)
    OBVIOUS
  <2> QED BY <2>1
<1>3. ASSUME NEW m \in Nat, m \in T PROVE m + 1 \in T
  <2>1. PICK f : Eq(f, m)
    BY <1>3
  <2> DEFINE g == [p \in 1 .. (m + 1) |-> IF p = 1 THEN 1 ELSE f[p - 1] + Len(Packets[p - 1])]
  <2>2. \A p \in 1 .. m : f[p] = IF p = 1 THEN 1 ELSE f[p - 1] + Len(Packets[p - 1])
    BY <2>1
  <2>3. \A p \in 1 .. m : g[p] = f[p]
    BY <2>2
  <2>4. \A p \in 1 .. (m + 1) : p # 1 => p - 1 \in 1 .. m
    OBVIOUS
  <2>5. g = [p \in 1 .. (m + 1) |-> IF p = 1 THEN 1 ELSE g[p - 1] + Len(Packets[p - 1])]
    BY <2>3, <2>4, Zenon
  <2> HIDE DEF g
  <2>6. Eq(g, m + 1)
    BY <2>5
  <2> QED BY <2>6
<1>4. PacketCount + 1 \in T
  <2> HIDE DEF T
  <2> QED BY <1>1, <1>2, <1>3, InductiveSet
<1>5. PICK g : Eq(g, PacketCount + 1)
  BY <1>4
<1> DEFINE start == CHOOSE f : Eq(f, PacketCount + 1)
<1>6. Eq(start, PacketCount + 1)
  BY <1>5
<1>7. Starts = [p \in 1 .. (PacketCount + 1) |-> start[p]]
  BY Zenon DEF Starts, PacketCount
<1> HIDE DEF start
<1>8. \A p \in 1 .. (PacketCount + 1) : Starts[p] = IF p = 1 THEN 1 ELSE start[p - 1] + Len(Packets[p - 1])
  BY <1>6, <1>7
<1>9. Starts[1] = 1
  BY <1>1, <1>8
<1>10. ASSUME NEW p \in 1 .. PacketCount PROVE Starts[p + 1] = Starts[p] + Len(Packets[p])
  BY <1>1, <1>7, <1>8
<1> QED BY <1>1, <1>9, <1>10

LEMMA StartsGrow ==
  /\ \A p \in 1 .. (PacketCount + 1) : Starts[p] \in Nat /\ Starts[p] >= 1
  /\ \A p, q \in 1 .. (PacketCount + 1) : p < q => Starts[p] + Len(Packets[p]) <= Starts[q] /\ Starts[p] < Starts[q]
<1> USE StartsAre, Sizes
<1> DEFINE T == {k \in Nat : k + 1 <= PacketCount + 1 =>
                   /\ Starts[k + 1] \in Nat /\ Starts[k + 1] >= 1
                   /\ \A p \in 1 .. k : /\ Starts[p] \in Nat
                                        /\ Starts[p] + Len(Packets[p]) <= Starts[k + 1] /\ Starts[p] < Starts[k + 1]}
<1>1. 0 \in T
  OBVIOUS
<1>2. ASSUME NEW k \in Nat, k \in T PROVE k + 1 \in T
  <2> SUFFICES ASSUME k + 2 <= PacketCount + 1
               PROVE  /\ Starts[k + 2] \in Nat /\ Starts[k + 2] >= 1
                      /\ \A p \in 1 .. (k + 1) : /\ Starts[p] \in Nat
                            /\ Starts[p] + Len(Packets[p]) <= Starts[k + 2] /\ Starts[p] < Starts[k + 2]
    OBVIOUS
  <2>1. k + 1 \in 1 .. PacketCount
    OBVIOUS
  <2>2. PICK l \in Nat : l = Len(Packets[k + 1]) /\ l >= 1
    BY <2>1
  <2>3. Starts[k + 2] = Starts[k + 1] + l
    <3>1. Starts[(k + 1) + 1] = Starts[k + 1] + Len(Packets[k + 1])
      BY <2>1
    <3>2. (k + 1) + 1 = k + 2
      OBVIOUS
    <3> QED BY <3>1, <3>2, <2>2
  <2>4. PICK x \in Nat : x = Starts[k + 1] /\ x >= 1
    BY <1>2
  <2>5. ASSUME NEW p \in 1 .. (k + 1)
        PROVE  /\ Starts[p] \in Nat
               /\ Starts[p] + Len(Packets[p]) <= Starts[k + 2] /\ Starts[p] < Starts[k + 2]
    <3>1. CASE p = k + 1
      BY <3>1, <2>2, <2>3, <2>4
    <3>2. CASE p \in 1 .. k
      <4>1. Starts[p] \in Nat /\ Starts[p] + Len(Packets[p]) <= Starts[k + 1] /\ Starts[p] < Starts[k + 1]
        BY <1>2, <3>2
      <4>2. PICK y \in Nat, z \in Nat : y = Len(Packets[p]) /\ z = Starts[p]  BY <3>2, <4>1
      <4>3. z + y <= x /\ z < x  BY <4>1, <4>2, <2>4
      <4>4. z + y <= x + l /\ z < x + l  BY <4>3, <2>2
      <4> QED BY <4>2, <4>4, <2>3, <2>4
    <3> QED BY <3>1, <3>2
  <2> QED BY <2>2, <2>3, <2>4, <2>5
<1>3. Nat \subseteq T
  <2> HIDE DEF T
  <2> QED BY <1>1, <1>2, InductiveSet
<1>5. \A k \in Nat : k + 1 <= PacketCount + 1 =>
         /\ Starts[k + 1] \in Nat /\ Starts[k + 1] >= 1
         /\ \A p \in 1 .. k : Starts[p] + Len(Packets[p]) <= Starts[k + 1] /\ Starts[p] < Starts[k + 1]
  BY <1>3
<1>4. ASSUME NEW q \in 1 .. (PacketCount + 1)
      PROVE  /\ Starts[q] \in Nat /\ Starts[q] >= 1
             /\ \A p \in 1 .. (PacketCount + 1) : p < q => Starts[p] + Len(Packets[p]) <= Starts[q] /\ Starts[p] < Starts[q]
  <2>1. PICK k \in Nat : q = k + 1 /\ k + 1 <= PacketCount + 1
    <3>1. q - 1 \in Nat /\ q = (q - 1) + 1 /\ (q - 1) + 1 <= PacketCount + 1  OBVIOUS
    <3> QED BY <3>1
  <2>2. \A p \in 1 .. (PacketCount + 1) : p < q => p \in 1 .. k
    BY <2>1
  <2>3. /\ Starts[q] \in Nat /\ Starts[q] >= 1
        /\ \A p \in 1 .. k : Starts[p] + Len(Packets[p]) <= Starts[q] /\ Starts[p] < Starts[q]
    BY <1>5, <2>1
  <2> QED BY <2>2, <2>3, Zenon
<1> QED BY <1>4

\* The packet of the r-th command.
LEMMA OwnersAre ==
  ASSUME NEW r \in 1 .. (Starts[PacketCount + 1] - 1)
  PROVE  /\ Owners[r] \in 1 .. PacketCount
         /\ Starts[Owners[r]] <= r /\ r < Starts[Owners[r] + 1]
         /\ \A p \in 1 .. PacketCount : Starts[p] <= r /\ r < Starts[p + 1] => p = Owners[r]
<1> USE StartsAre
<1> DEFINE T == {k \in Nat : k + 1 \in 1 .. (PacketCount + 1) /\ r < Starts[k + 1]}
           Has(p) == Starts[p] <= r /\ r < Starts[p + 1]
<1>0. \A p \in 1 .. (PacketCount + 1) : Starts[p] \in Nat
  BY StartsGrow
<1>r. r \in Nat /\ r >= 1 /\ r < Starts[PacketCount + 1]
  BY <1>0
<1>1. PacketCount \in T
  BY <1>r
<1>2. PICK k \in T : \A l \in T : k <= l
  BY <1>1, LeastNatural
<1>3. k # 0
  BY <1>r
<1>4. k \in 1 .. PacketCount /\ k - 1 \in Nat /\ (k - 1) + 1 = k
  BY <1>3
<1>5. ~(r < Starts[k])
  <2> SUFFICES ASSUME r < Starts[k] PROVE FALSE  OBVIOUS
  <2>1. PICK l \in Nat : l + 1 = k  BY <1>4
  <2>2. l \in T  BY <2>1, <1>4
  <2> QED BY <2>1, <2>2, <1>2
<1>6. Has(k)
  BY <1>5, <1>4, <1>0
<1>7. ASSUME NEW p \in 1 .. PacketCount, NEW q \in 1 .. PacketCount, Has(p), Has(q) PROVE p = q
  <2>1. ASSUME NEW a \in 1 .. PacketCount, NEW b \in 1 .. PacketCount, a < b PROVE Starts[a + 1] <= Starts[b]
    <3>1. CASE a + 1 = b
      BY <3>1, <1>0
    <3>2. CASE a + 1 < b
      <4>1. a + 1 \in 1 .. (PacketCount + 1) /\ b \in 1 .. (PacketCount + 1)  OBVIOUS
      <4>2. Starts[a + 1] < Starts[b]  BY <4>1, <3>2, StartsGrow
      <4>3. Starts[a + 1] \in Nat /\ Starts[b] \in Nat  BY <4>1, <1>0, Zenon
      <4> QED BY <4>2, <4>3
    <3> QED BY <2>1, <3>1, <3>2
  <2>0. /\ Starts[p] \in Nat /\ Starts[q] \in Nat /\ Starts[p + 1] \in Nat /\ Starts[q + 1] \in Nat
    <3>1. p \in 1 .. (PacketCount + 1) /\ q \in 1 .. (PacketCount + 1) /\ p + 1 \in 1 .. (PacketCount + 1) /\ q + 1 \in 1 .. (PacketCount + 1)
      OBVIOUS
    <3> QED BY <3>1, <1>0
  <2>a. (p < q => Starts[p + 1] <= Starts[q]) /\ (q < p => Starts[q + 1] <= Starts[p])
    BY <2>1, Zenon
  <2>b. Starts[p] <= r /\ r < Starts[p + 1] /\ Starts[q] <= r /\ r < Starts[q + 1]
    BY <1>7
  <2> HIDE StartsAre
  <2>2. ~(p < q)
    BY <2>a, <2>b, <1>r, <2>0
  <2>3. ~(q < p)
    BY <2>a, <2>b, <1>r, <2>0
  <2> QED BY <2>2, <2>3
<1>8. Owners[r] = CHOOSE p \in 1 .. PacketCount : Has(p)
  BY Zenon DEF Owners, PacketCount
<1> HIDE DEF Has
<1>9. Owners[r] \in 1 .. PacketCount /\ Has(Owners[r])
  BY <1>4, <1>6, <1>8
<1> QED BY <1>7, <1>9 DEF Has

-----------------------------------------------------------------------------
(* Lists without some of their elements.                                   *)

\* Only keeps the order and drops nothing else.
LEMMA OnlyIs ==
  ASSUME NEW X, NEW s \in Seq(X), NEW D
  PROVE  \E f : /\ Only(s, D) = f[Len(s)] /\ f[0] = <<>>
                /\ \A i \in 1 .. Len(s) : f[i] = IF s[i] \in D THEN Append(f[i - 1], s[i]) ELSE f[i - 1]
<1> DEFINE Eq(f, m) == f = [i \in 0 .. m |-> IF i = 0 THEN <<>>
                                             ELSE IF s[i] \in D THEN Append(f[i - 1], s[i]) ELSE f[i - 1]]
           T == {m \in Nat : \E f : Eq(f, m)}
<1>1. 0 \in T
  <2>1. Eq([i \in 0 .. 0 |-> <<>>], 0)
    OBVIOUS
  <2> QED BY <2>1
<1>2. ASSUME NEW m \in Nat, m \in T PROVE m + 1 \in T
  <2>1. PICK f : Eq(f, m)
    BY <1>2
  <2> DEFINE g == [i \in 0 .. (m + 1) |-> IF i = 0 THEN <<>>
                                           ELSE IF s[i] \in D THEN Append(f[i - 1], s[i]) ELSE f[i - 1]]
  <2>2. \A i \in 0 .. m : f[i] = IF i = 0 THEN <<>> ELSE IF s[i] \in D THEN Append(f[i - 1], s[i]) ELSE f[i - 1]
    BY <2>1, Zenon
  <2>a. \A i \in 0 .. m : i \in 0 .. (m + 1)
    OBVIOUS
  <2>3. \A i \in 0 .. m : g[i] = f[i]
    BY <2>2, <2>a, Zenon
  <2>4. \A i \in 0 .. (m + 1) : i # 0 => i - 1 \in 0 .. m
    OBVIOUS
  <2>5. g = [i \in 0 .. (m + 1) |-> IF i = 0 THEN <<>>
                                    ELSE IF s[i] \in D THEN Append(g[i - 1], s[i]) ELSE g[i - 1]]
    BY <2>3, <2>4, Zenon
  <2> HIDE DEF g
  <2>6. Eq(g, m + 1)
    BY <2>5
  <2> QED BY <2>6
<1>3. Len(s) \in T
  <2> HIDE DEF T
  <2> QED BY <1>1, <1>2, InductiveSet
<1>4. PICK h : Eq(h, Len(s))
  BY <1>3
<1> DEFINE only == CHOOSE f : Eq(f, Len(s))
<1>5. Eq(only, Len(s))
  BY <1>4
<1>6. Only(s, D) = only[Len(s)]
  BY Zenon DEF Only
<1> HIDE DEF only
<1>7. \A i \in 0 .. Len(s) : only[i] = IF i = 0 THEN <<>> ELSE IF s[i] \in D THEN Append(only[i - 1], s[i]) ELSE only[i - 1]
  BY <1>5, Zenon
<1>8. 0 \in 0 .. Len(s) /\ \A i \in 1 .. Len(s) : i \in 0 .. Len(s) /\ i # 0
  OBVIOUS
<1> QED BY <1>6, <1>7, <1>8, Zenon

-----------------------------------------------------------------------------
(* Lists of commands, and what Only leaves of them.                        *)

LEMMA InToSet ==
  ASSUME NEW X, NEW s \in Seq(X)
  PROVE  /\ \A i \in 1 .. Len(s) : s[i] \in ToSet(s) /\ s[i] \in X
         /\ \A x \in ToSet(s) : \E i \in 1 .. Len(s) : s[i] = x
         /\ ToSet(s) \subseteq X
         /\ DOMAIN s = 1 .. Len(s) /\ Len(s) \in Nat
BY DEF ToSet

LEMMA AppendIs ==
  ASSUME NEW X, NEW s \in Seq(X), NEW x \in X
  PROVE  /\ Append(s, x) \in Seq(X) /\ Len(Append(s, x)) = Len(s) + 1
         /\ \A i \in 1 .. Len(s) : Append(s, x)[i] = s[i]
         /\ Append(s, x)[Len(s) + 1] = x
OBVIOUS

LEMMA OnlyElements ==
  ASSUME NEW X, NEW s \in Seq(X), NEW D
  PROVE  /\ Only(s, D) \in Seq(X)
         /\ ToSet(Only(s, D)) = ToSet(s) \cap D
<1>1. PICK f : /\ Only(s, D) = f[Len(s)] /\ f[0] = <<>>
               /\ \A i \in 1 .. Len(s) : f[i] = IF s[i] \in D THEN Append(f[i - 1], s[i]) ELSE f[i - 1]
  BY OnlyIs
<1> DEFINE Good(q, i) == /\ q \in Seq(X)
                         /\ \A k \in 1 .. Len(q) : \E j \in 1 .. i : q[k] = s[j] /\ s[j] \in D
                         /\ \A j \in 1 .. i : s[j] \in D => \E k \in 1 .. Len(q) : q[k] = s[j]
           T == {i \in Nat : i <= Len(s) => Good(f[i], i)}
<1>2. 0 \in T
  <2>1. Good(<<>>, 0)  OBVIOUS
  <2> HIDE DEF Good
  <2> QED BY <2>1, <1>1
<1>3. ASSUME NEW i \in Nat, i \in T PROVE i + 1 \in T
  <2> SUFFICES ASSUME i + 1 <= Len(s) PROVE Good(f[i + 1], i + 1)  OBVIOUS
  <2>1. Good(f[i], i)  BY <1>3
  <2>2. i + 1 \in 1 .. Len(s) /\ (i + 1) - 1 = i /\ s[i + 1] \in X  OBVIOUS
  <2>3. f[i + 1] = IF s[i + 1] \in D THEN Append(f[i], s[i + 1]) ELSE f[i]
    BY <1>1, <2>2
  <2>4. PICK q : q = f[i]  OBVIOUS
  <2>5. CASE s[i + 1] \in D
    <3>1. PICK r : r = Append(q, s[i + 1])  OBVIOUS
    <3>2. /\ r \in Seq(X) /\ Len(r) = Len(q) + 1
          /\ \A k \in 1 .. Len(q) : r[k] = q[k]
          /\ r[Len(q) + 1] = s[i + 1]
      BY <3>1, <2>1, <2>2, <2>4, AppendIs
    <3>3. Len(q) \in Nat  BY <2>1, <2>4
    <3>4. ASSUME NEW k \in 1 .. Len(r) PROVE \E j \in 1 .. (i + 1) : r[k] = s[j] /\ s[j] \in D
      <4>1. CASE k \in 1 .. Len(q)
        <5>1. PICK j \in 1 .. i : q[k] = s[j] /\ s[j] \in D  BY <2>1, <2>4, <4>1
        <5> QED BY <5>1, <3>2, <4>1
      <4>2. CASE k = Len(q) + 1
        BY <4>2, <3>2, <2>5, <2>2
      <4> QED BY <4>1, <4>2, <3>2, <3>3
    <3>5. ASSUME NEW j \in 1 .. (i + 1), s[j] \in D PROVE \E k \in 1 .. Len(r) : r[k] = s[j]
      <4>1. CASE j = i + 1
        <5>1. Len(q) + 1 \in 1 .. Len(r)  BY <3>2, <3>3
        <5> QED BY <5>1, <4>1, <3>2
      <4>2. CASE j \in 1 .. i
        <5>1. PICK k \in 1 .. Len(q) : q[k] = s[j]  BY <2>1, <2>4, <4>2, <3>5
        <5>2. k \in 1 .. Len(r)  BY <3>2, <3>3
        <5> QED BY <5>1, <5>2, <3>2
      <4> QED BY <4>1, <4>2
    <3>6. Good(r, i + 1)  BY <3>2, <3>4, <3>5
    <3> HIDE DEF Good
    <3> QED BY <3>6, <3>1, <2>3, <2>4, <2>5
  <2>6. CASE s[i + 1] \notin D
    <3>1. Good(q, i + 1)
      <4>1. \A k \in 1 .. Len(q) : \E j \in 1 .. (i + 1) : q[k] = s[j] /\ s[j] \in D
        <5>1. \A j \in 1 .. i : j \in 1 .. (i + 1)  OBVIOUS
        <5> QED BY <5>1, <2>1, <2>4, Zenon
      <4>2. ASSUME NEW j \in 1 .. (i + 1), s[j] \in D PROVE \E k \in 1 .. Len(q) : q[k] = s[j]
        <5>1. j \in 1 .. i  BY <4>2, <2>6
        <5> QED BY <5>1, <4>2, <2>1, <2>4, Zenon
      <4> QED BY <4>1, <4>2, <2>1, <2>4, Zenon
    <3> HIDE DEF Good
    <3> QED BY <3>1, <2>3, <2>4, <2>6
  <2> QED BY <2>5, <2>6
<1>4. Len(s) \in Nat /\ Len(s) \in T
  <2> HIDE DEF T
  <2>1. Len(s) \in Nat  OBVIOUS
  <2> QED BY <2>1, <1>2, <1>3, InductiveSet
<1>5. PICK q : q = Only(s, D)  OBVIOUS
<1>6. Good(q, Len(s))  BY <1>4, <1>1, <1>5
<1>7. ToSet(q) = ToSet(s) \cap D
  <2>1. ASSUME NEW x \in ToSet(q) PROVE x \in ToSet(s) \cap D
    <3>1. PICK k \in 1 .. Len(q) : q[k] = x  BY <1>6, InToSet
    <3>2. PICK j \in 1 .. Len(s) : q[k] = s[j] /\ s[j] \in D  BY <1>6
    <3> QED BY <3>1, <3>2, InToSet
  <2>2. ASSUME NEW x \in ToSet(s) \cap D PROVE x \in ToSet(q)
    <3>1. PICK j \in 1 .. Len(s) : s[j] = x  BY InToSet
    <3>2. PICK k \in 1 .. Len(q) : q[k] = s[j]  BY <1>6, <3>1
    <3> QED BY <3>1, <3>2, <1>6, InToSet
  <2> QED BY <2>1, <2>2
<1> QED BY <1>5, <1>6, <1>7

\* Of a list whose last t elements stay, they are the last ones still.
\* The last d of s are in D, and so are the last d of O, the rest of which is
\* from the rest of s.
TailIn(s, D, d) == d \in 0 .. Len(s) /\ \A i \in 1 .. Len(s) : i > Len(s) - d => s[i] \in D
TailKept(O, s, D, d) ==
  \E m \in Nat :
     /\ Len(O) = m + d
     /\ \A i \in 1 .. m : \E j \in 1 .. (Len(s) - d) : O[i] = s[j] /\ s[j] \in D
     /\ \A i \in 1 .. d : O[m + i] = s[Len(s) - d + i]

LEMMA OnlyTail ==
  ASSUME NEW X, NEW s \in Seq(X), NEW D, NEW t, TailIn(s, D, t)
  PROVE  TailKept(Only(s, D), s, D, t)
<1>0. t \in 0 .. Len(s) /\ \A i \in 1 .. Len(s) : i > Len(s) - t => s[i] \in D
  BY DEF TailIn
<1>1. PICK f : /\ Only(s, D) = f[Len(s)] /\ f[0] = <<>>
               /\ \A i \in 1 .. Len(s) : f[i] = IF s[i] \in D THEN Append(f[i - 1], s[i]) ELSE f[i - 1]
  BY <1>0, OnlyIs
<1>2. PICK b \in Nat : b = Len(s) - t
  <2>1. Len(s) - t \in Nat  BY <1>0
  <2> QED BY <2>1
<1> DEFINE Good(q, i) == /\ q \in Seq(X)
                         /\ \A k \in 1 .. Len(q) : \E j \in 1 .. i : q[k] = s[j] /\ s[j] \in D
           T == {i \in Nat : i <= b => Good(f[i], i)}
<1>3. 0 \in T
  <2>1. Good(<<>>, 0)  OBVIOUS
  <2> HIDE DEF Good
  <2> QED BY <2>1, <1>1
<1>4. ASSUME NEW i \in Nat, i \in T PROVE i + 1 \in T
  <2> SUFFICES ASSUME i + 1 <= b PROVE Good(f[i + 1], i + 1)  OBVIOUS
  <2>1. Good(f[i], i)  BY <1>4
  <2>2. i + 1 \in 1 .. Len(s) /\ (i + 1) - 1 = i /\ s[i + 1] \in X  BY <1>2, <1>0
  <2>3. f[i + 1] = IF s[i + 1] \in D THEN Append(f[i], s[i + 1]) ELSE f[i]
    BY <1>1, <2>2
  <2>4. PICK q : q = f[i]  OBVIOUS
  <2>5. CASE s[i + 1] \in D
    <3>1. PICK r : r = Append(q, s[i + 1])  OBVIOUS
    <3>2. /\ r \in Seq(X) /\ Len(r) = Len(q) + 1
          /\ \A k \in 1 .. Len(q) : r[k] = q[k]
          /\ r[Len(q) + 1] = s[i + 1]
      BY <3>1, <2>1, <2>2, <2>4, AppendIs
    <3>3. Len(q) \in Nat  BY <2>1, <2>4
    <3>4. ASSUME NEW k \in 1 .. Len(r) PROVE \E j \in 1 .. (i + 1) : r[k] = s[j] /\ s[j] \in D
      <4>1. CASE k \in 1 .. Len(q)
        <5>1. PICK j \in 1 .. i : q[k] = s[j] /\ s[j] \in D  BY <2>1, <2>4, <4>1
        <5> QED BY <5>1, <3>2, <4>1
      <4>2. CASE k = Len(q) + 1
        BY <4>2, <3>2, <2>5, <2>2
      <4> QED BY <4>1, <4>2, <3>2, <3>3
    <3>6. Good(r, i + 1)  BY <3>2, <3>4
    <3> HIDE DEF Good
    <3> QED BY <3>6, <3>1, <2>3, <2>4, <2>5
  <2>6. CASE s[i + 1] \notin D
    <3>1. Good(q, i + 1)
      <4>1. \A k \in 1 .. Len(q) : \E j \in 1 .. (i + 1) : q[k] = s[j] /\ s[j] \in D
        <5>1. \A j \in 1 .. i : j \in 1 .. (i + 1)  OBVIOUS
        <5> QED BY <5>1, <2>1, <2>4, Zenon
      <4> QED BY <4>1, <2>1, <2>4, Zenon
    <3> HIDE DEF Good
    <3> QED BY <3>1, <2>3, <2>4, <2>6
  <2> QED BY <2>5, <2>6
<1>5. b \in T
  <2> HIDE DEF T
  <2> QED BY <1>3, <1>4, InductiveSet
<1>6. PICK q0 : q0 = f[b]  OBVIOUS
<1>7. Good(q0, b)  BY <1>5, <1>6
<1>8. PICK m \in Nat : m = Len(q0)  BY <1>7
<1> DEFINE Kept(q, u) == /\ q \in Seq(X) /\ Len(q) = m + u
                         /\ \A i \in 1 .. m : q[i] = q0[i]
                         /\ \A i \in 1 .. u : q[m + i] = s[b + i]
           U == {u \in Nat : u <= t => Kept(f[b + u], u)}
<1>9. 0 \in U
  <2>1. Kept(q0, 0)  BY <1>7, <1>8
  <2>2. b + 0 = b  OBVIOUS
  <2> HIDE DEF Kept
  <2> QED BY <2>1, <2>2, <1>6
<1>10. ASSUME NEW u \in Nat, u \in U PROVE u + 1 \in U
  <2> SUFFICES ASSUME u + 1 <= t PROVE Kept(f[b + (u + 1)], u + 1)  OBVIOUS
  <2>1. Kept(f[b + u], u)
    <3>1. u <= t  BY <1>0
    <3> HIDE DEF Kept
    <3> QED BY <3>1, <1>10
  <2>2. PICK w \in 1 .. Len(s) : w = b + (u + 1) /\ w - 1 = b + u /\ s[w] \in X /\ s[w] \in D
    <3>1. b + (u + 1) \in 1 .. Len(s) /\ b + (u + 1) > Len(s) - t /\ (b + (u + 1)) - 1 = b + u BY <1>2, <1>0
    <3> QED BY <3>1, <1>0
  <2>3. PICK q : q = f[b + u]  OBVIOUS
  <2>4. PICK r : r = Append(q, s[w])  OBVIOUS
  <2>5. f[w] = r  BY <2>2, <2>3, <2>4, <1>1
  <2>6. q \in Seq(X) /\ Len(q) = m + u /\ \A i \in 1 .. m : q[i] = q0[i]
    BY <2>1, <2>3
  <2>7. \A i \in 1 .. u : q[m + i] = s[b + i]
    BY <2>1, <2>3
  <2>8. /\ r \in Seq(X) /\ Len(r) = m + u + 1
        /\ \A k \in 1 .. (m + u) : r[k] = q[k]
        /\ r[m + u + 1] = s[w]
    BY <2>2, <2>4, <2>6, AppendIs
  <2>9. ASSUME NEW i \in 1 .. m PROVE r[i] = q0[i]
    <3>1. i \in 1 .. (m + u)  OBVIOUS
    <3> QED BY <3>1, <2>6, <2>8, Zenon
  <2>10. ASSUME NEW i \in 1 .. (u + 1) PROVE r[m + i] = s[b + i]
    <3>1. CASE i = u + 1
      <4>1. m + i = m + u + 1 /\ b + i = w  BY <3>1, <2>2
      <4>2. r[m + u + 1] = s[w]  BY <2>8
      <4> QED BY <4>1, <4>2, Zenon
    <3>2. CASE i \in 1 .. u
      <4>1. m + i \in 1 .. (m + u) /\ q[m + i] = s[b + i]  BY <3>2, <2>7
      <4> QED BY <4>1, <2>8
    <3> QED BY <3>1, <3>2
  <2>11. Kept(r, u + 1)  BY <2>8, <2>9, <2>10
  <2> HIDE DEF Kept
  <2> QED BY <2>2, <2>5, <2>11
<1>11. t \in U
  <2> HIDE DEF U
  <2>1. t \in Nat  BY <1>0
  <2> QED BY <2>1, <1>9, <1>10, InductiveSet
<1>12. Kept(f[b + t], t)  BY <1>11
<1>13. b + t = Len(s)  BY <1>2, <1>0
<1>14. PICK q : q = Only(s, D)  OBVIOUS
<1>15. Kept(q, t)
  <2> HIDE DEF Kept
  <2> QED BY <1>1, <1>12, <1>13, <1>14
<1>16. \A i \in 1 .. m : \E j \in 1 .. b : q[i] = s[j] /\ s[j] \in D
  BY <1>7, <1>8, <1>15
<1> QED BY <1>2, <1>14, <1>15, <1>16 DEF TailKept

\* A sum over a finite set of commands is a number.
LEMMA SumIsInt ==
  ASSUME NEW S, IsFiniteSet(S), \A n \in S : Length(n) \in Int
  PROVE  MapThenSumSet(Length, S) \in Int
<1> DEFINE pick(s) == CHOOSE x \in s : TRUE
           Eq(f, Y) == f = [s \in Y |-> IF s = {} THEN 0 ELSE Length(pick(s)) + f[s \ {pick(s)}]]
           Small(m) == {s \in SUBSET S : Cardinality(s) <= m}
           T == {m \in Nat : \E f : Eq(f, Small(m)) /\ \A s \in Small(m) : f[s] \in Int}
<1>0. /\ \A s \in SUBSET S : IsFiniteSet(s) /\ Cardinality(s) \in Nat
      /\ \A s \in SUBSET S : Cardinality(s) = 0 <=> s = {}
      /\ \A s \in SUBSET S : s # {} => pick(s) \in s /\ s \ {pick(s)} \in SUBSET S /\ Cardinality(s \ {pick(s)}) = Cardinality(s) - 1
  BY FS_Subset, FS_CardinalityType, FS_EmptySet, FS_RemoveElement
<1> HIDE DEF pick
<1>1. 0 \in T
  <2> DEFINE g == [s \in Small(0) |-> 0]
  <2>1. \A s \in Small(0) : s = {}  BY <1>0
  <2>2. g = [s \in Small(0) |-> IF s = {} THEN 0 ELSE Length(pick(s)) + g[s \ {pick(s)}]]
    BY <2>1
  <2>3. \A s \in Small(0) : g[s] \in Int  OBVIOUS
  <2> HIDE DEF g, Small
  <2>4. Eq(g, Small(0))  BY <2>2
  <2> QED BY <2>3, <2>4
<1>2. ASSUME NEW m \in Nat, m \in T PROVE m + 1 \in T
  <2>1. PICK f : Eq(f, Small(m)) /\ \A s \in Small(m) : f[s] \in Int  BY <1>2
  <2> DEFINE g == [s \in Small(m + 1) |-> IF s = {} THEN 0 ELSE Length(pick(s)) + f[s \ {pick(s)}]]
  <2>2. \A s \in Small(m) : s \in Small(m + 1)  BY <1>0
  <2>3. \A s \in Small(m + 1) : s # {} => s \ {pick(s)} \in Small(m)  BY <1>0
  <2>c. \A s \in Small(m + 1) : s # {} => pick(s) \in S  BY <1>0
  <2> HIDE DEF Small
  <2>4. \A s \in Small(m) : f[s] = IF s = {} THEN 0 ELSE Length(pick(s)) + f[s \ {pick(s)}]
    BY <2>1, Zenon
  <2>5. \A s \in Small(m) : g[s] = f[s]  BY <2>2, <2>4, Zenon
  <2>6. g = [s \in Small(m + 1) |-> IF s = {} THEN 0 ELSE Length(pick(s)) + g[s \ {pick(s)}]]
    BY <2>3, <2>5, Zenon
  <2>7. ASSUME NEW s \in Small(m + 1) PROVE g[s] \in Int
    <3>1. CASE s = {}  BY <3>1
    <3>2. CASE s # {}
      <4>1. PICK a \in Int, b \in Int : a = Length(pick(s)) /\ b = f[s \ {pick(s)}]
        BY <3>2, <2>1, <2>3, <2>c
      <4>2. g[s] = a + b  BY <4>1, <3>2
      <4> QED BY <4>2
    <3> QED BY <3>1, <3>2
  <2> HIDE DEF g
  <2>8. Eq(g, Small(m + 1))  BY <2>6
  <2> HIDE DEF Eq
  <2>9. (\E k : Eq(k, Small(m + 1)) /\ \A s \in Small(m + 1) : k[s] \in Int)  BY <2>7, <2>8
  <2>10. m + 1 \in Nat  OBVIOUS
  <2> QED BY <2>9, <2>10
<1>3. Cardinality(S) \in T
  <2> HIDE DEF T
  <2> QED BY <1>0, <1>1, <1>2, InductiveSet
<1>4. Small(Cardinality(S)) = SUBSET S
  <2>1. \A s \in SUBSET S : Cardinality(s) <= Cardinality(S)  BY FS_Subset
  <2> QED BY <2>1
<1>5. PICK h : Eq(h, SUBSET S)
  BY <1>3, <1>4
<1> DEFINE iter == CHOOSE f : Eq(f, SUBSET S)
<1>6. Eq(iter, SUBSET S)
  BY <1>5
<1>7. MapThenSumSet(Length, S) = iter[S]
  BY Zenon DEF MapThenSumSet, MapThenFoldSet, pick
<1> HIDE DEF iter
<1>8. \A s \in SUBSET S : iter[s] = IF s = {} THEN 0 ELSE Length(pick(s)) + iter[s \ {pick(s)}]
  BY <1>6, Zenon
<1> DEFINE V == {m \in Nat : \A s \in Small(m) : iter[s] \in Int}
<1>9. 0 \in V
  <2>1. \A s \in Small(0) : s = {} /\ s \in SUBSET S  BY <1>0
  <2>2. iter[{}] = 0  BY <1>8
  <2>3. \A s \in Small(0) : iter[s] \in Int  BY <2>1, <2>2
  <2> HIDE DEF Small
  <2> QED BY <2>3
<1>10. ASSUME NEW m \in Nat, m \in V PROVE m + 1 \in V
  <2> SUFFICES ASSUME NEW s \in Small(m + 1) PROVE iter[s] \in Int  OBVIOUS
  <2>1. s \in SUBSET S  OBVIOUS
  <2>2. CASE s = {}  BY <2>1, <2>2, <1>8
  <2>3. CASE s # {}
    <3>1. s \ {pick(s)} \in Small(m) /\ pick(s) \in S  BY <1>0, <2>3
    <3>2. PICK a \in Int, b \in Int : a = Length(pick(s)) /\ b = iter[s \ {pick(s)}]
      BY <3>1, <1>10
    <3>3. iter[s] = a + b  BY <3>2, <2>1, <2>3, <1>8
    <3> QED BY <3>3
  <2> QED BY <2>2, <2>3
<1>11. Cardinality(S) \in V
  <2> HIDE DEF V
  <2> QED BY <1>0, <1>9, <1>10, InductiveSet
<1>12. iter[S] \in Int
  BY <1>11, <1>4
<1> QED BY <1>7, <1>12

-----------------------------------------------------------------------------
(* The commands of the packets given to the channel, and the types of the  *)
(* variables.                                                              *)

Start(p) == base + Starts[p]

\* The last command the sender has numbered, and the last one that came out.
Top == Start(queued + 1) - 1
Reach == Start(Len(delivered) + 1) - 1

EType ==
  /\ base \in Bases /\ queued \in 0 .. PacketCount
  /\ transit \in 0 .. (UintRange - 1) /\ limit \in Limits
  /\ tries \in 0 .. Patience /\ open \in BOOLEAN
  /\ outgoing \in Seq(Commands) /\ sent \in Seq(Commands)

LEMMA BaseIs ==
  ASSUME base \in Bases
  PROVE  base \in Nat
BY BoundAssumption

LEMMA StartIs ==
  ASSUME base \in Bases
  PROVE  /\ \A p \in 1 .. (PacketCount + 1) : Start(p) \in Nat /\ Start(p) > base
         /\ \A p, q \in 1 .. (PacketCount + 1) : p < q => Start(p) < Start(q)
         /\ \A p \in 1 .. PacketCount : /\ Start(p + 1) = Start(p) + Len(Packets[p])
                                       /\ Len(Packets[p]) \in 1 .. WindowSize
         /\ Start(1) = base + 1
<1>1. PICK b \in Nat : b = base  BY BaseIs
<1>2. /\ \A p \in 1 .. (PacketCount + 1) : Starts[p] \in Nat /\ Starts[p] >= 1
      /\ \A p, q \in 1 .. (PacketCount + 1) : p < q => Starts[p] < Starts[q]
  BY StartsGrow
<1>3. \A p \in 1 .. (PacketCount + 1) : Start(p) \in Nat /\ Start(p) > base  BY <1>1, <1>2 DEF Start
<1>4. \A p, q \in 1 .. (PacketCount + 1) : p < q => Start(p) < Start(q)
  BY <1>1, <1>2 DEF Start
<1>5. ASSUME NEW p \in 1 .. PacketCount
      PROVE /\ Start(p + 1) = Start(p) + Len(Packets[p])
            /\ Len(Packets[p]) \in 1 .. WindowSize
  <2>1. Starts[p + 1] = Starts[p] + Len(Packets[p]) /\ Len(Packets[p]) \in 1 .. WindowSize
    BY StartsAre
  <2>2. PICK l \in Nat : l = Len(Packets[p])  BY <2>1, Sizes
  <2>3. PICK x \in Nat : x = Starts[p]
    <3>1. p \in 1 .. (PacketCount + 1)  BY StartsAre
    <3> QED BY <3>1, <1>2
  <2>4. Starts[p + 1] = x + l  BY <2>1, <2>2, <2>3
  <2>5. Start(p + 1) = Start(p) + l  BY <1>1, <2>3, <2>4 DEF Start
  <2> QED BY <2>1, <2>2, <2>5
<1>6. Start(1) = base + 1  BY StartsAre DEF Start
<1> QED BY <1>3, <1>4, <1>5, <1>6

\* The packet of a command, and its place there.
LEMMA CommandIs ==
  ASSUME base \in Bases, NEW n \in Nat, n > base, n < Start(PacketCount + 1)
  PROVE  /\ PacketOf(n) \in 1 .. PacketCount
         /\ Start(PacketOf(n)) <= n /\ n < Start(PacketOf(n) + 1)
         /\ Fragment(n) \in 1 .. Len(Packets[PacketOf(n)])
         /\ n = Start(PacketOf(n)) + Fragment(n) - 1
         /\ Length(n) \in Nat
         /\ \A p \in 1 .. PacketCount : Start(p) <= n /\ n < Start(p + 1) => p = PacketOf(n)
<1>1. PICK b \in Nat : b = base  BY BaseIs
<1>2. PICK r \in Nat : r = n - b /\ r >= 1 /\ n = b + r
  <2>1. n - b \in Nat /\ n - b >= 1 /\ n = b + (n - b) BY <1>1
  <2> QED BY <2>1
<1>3. PacketCount + 1 \in 1 .. (PacketCount + 1)  BY StartsAre
<1>4. Starts[PacketCount + 1] \in Nat  BY <1>3, StartsGrow
<1>5. r \in 1 .. (Starts[PacketCount + 1] - 1)
  <2>1. n < b + Starts[PacketCount + 1]  BY <1>1 DEF Start
  <2> QED BY <2>1, <1>2, <1>4
<1>6. PICK p : p = Owners[r]  OBVIOUS
<1>7. /\ p \in 1 .. PacketCount
      /\ Starts[p] <= r /\ r < Starts[p + 1]
      /\ \A o \in 1 .. PacketCount : Starts[o] <= r /\ r < Starts[o + 1] => o = p
  BY <1>5, <1>6, OwnersAre
<1>8. PacketOf(n) = p  BY <1>1, <1>2, <1>6 DEF PacketOf
<1>9. Starts[p + 1] = Starts[p] + Len(Packets[p]) /\ Len(Packets[p]) \in 1 .. WindowSize
  BY StartsAre, <1>7
<1>10. PICK x \in Nat : x = Starts[p]
  <2>1. p \in 1 .. (PacketCount + 1)  BY StartsAre, <1>7
  <2> QED BY <2>1, StartsGrow
<1>11. PICK l \in Nat : l = Len(Packets[p])  BY <1>9, Sizes
<1>12. Starts[p + 1] = x + l  BY <1>9, <1>10, <1>11
<1>13. x <= r /\ r < x + l  BY <1>7, <1>10, <1>12
<1>14. Start(p) = b + x /\ Start(p + 1) = b + (x + l)  BY <1>1, <1>10, <1>12 DEF Start
<1>15. Fragment(n) = n - b - x + 1  BY <1>1, <1>8, <1>10 DEF Fragment
<1>16. Fragment(n) \in 1 .. l  BY <1>15, <1>13, <1>2
<1>17. Length(n) \in Nat
  <2>1. \A i \in DOMAIN Packets[p] : Packets[p][i] \in Nat
    BY PacketAssumption, <1>7, StartsAre
  <2>2. DOMAIN Packets[p] = 1 .. l  BY PacketAssumption, <1>7, <1>11, StartsAre
  <2> QED BY <2>1, <2>2, <1>16, <1>8 DEF Length
<1>18. ASSUME NEW o \in 1 .. PacketCount, Start(o) <= n, n < Start(o + 1) PROVE o = p
  <2>1. Starts[o] \in Nat /\ Starts[o + 1] \in Nat
    <3>1. o \in 1 .. (PacketCount + 1) /\ o + 1 \in 1 .. (PacketCount + 1)  BY StartsAre
    <3> QED BY <3>1, StartsGrow
  <2>2. b + Starts[o] <= n /\ n < b + Starts[o + 1]  BY <1>1, <1>18 DEF Start
  <2>3. Starts[o] <= r /\ r < Starts[o + 1]  BY <2>1, <2>2, <1>2
  <2> QED BY <2>3, <1>7
<1>19. Start(p) <= n /\ n < Start(p + 1)  BY <1>13, <1>14, <1>2
<1>20. n = Start(p) + Fragment(n) - 1  BY <1>14, <1>15, <1>2
<1>21. Fragment(n) \in 1 .. Len(Packets[p])  BY <1>16, <1>11
<1> QED BY <1>7, <1>8, <1>17, <1>18, <1>19, <1>20, <1>21, Zenon

LEMMA CommandsAre ==
  ASSUME base \in Bases
  PROVE  /\ \A n \in Nat : n > base /\ n < Start(PacketCount + 1) => n \in Commands
         /\ Commands \subseteq Nat
<1>1. Starts[PacketCount + 1] \in Nat  
  <2>1. PacketCount + 1 \in 1 .. (PacketCount + 1)  BY StartsAre
  <2> QED BY <2>1, StartsGrow
<1>2. PICK t \in Nat : t = Starts[Len(Packets) + 1]  BY <1>1 DEF PacketCount
<1>3. Commands = UNION {(b + 1) .. (b + t - 1) : b \in Bases}
  BY <1>2 DEF Commands
<1>4. Bases \subseteq Nat BY BoundAssumption
<1>5. Start(PacketCount + 1) = base + t  BY <1>2 DEF Start, PacketCount
<1>6. \A b \in Bases : b \in Nat BY <1>4
<1>7. ASSUME NEW n \in Nat, n > base, n < Start(PacketCount + 1) PROVE n \in Commands
  <2>1. n \in (base + 1) .. (base + t - 1)  BY <1>7, <1>5, <1>2, BaseIs
  <2> QED BY <2>1, <1>3
<1>8. ASSUME NEW n \in Commands PROVE n \in Nat
  <2>1. PICK b \in Bases : n \in (b + 1) .. (b + t - 1)  BY <1>3
  <2> QED BY <2>1, <1>6, <1>2
<1> QED BY <1>7, <1>8

-----------------------------------------------------------------------------
(* The queue of commands: its first m were sent before, the rest follow fr *)
(* without a gap.  What a pass sends is a beginning of it.                 *)

\* Q is a queue of the numbers up to fr, and then of fr + 1 and so on.
Ends(Q, m, fr) ==
  /\ Q \in Seq(Nat) /\ fr \in Nat /\ m \in 0 .. Len(Q)
  /\ \A j \in 1 .. m : Q[j] <= fr
  /\ \A j \in (m + 1) .. Len(Q) : Q[j] = fr + (j - m)

\* The last one after i have gone.
After(m, fr, i) == IF i <= m THEN fr ELSE fr + (i - m)

\* The first i elements of a sequence, and the others.
Firsts(Q, i) == SubSeq(Q, 1, i)
Rest(Q, i) == SubSeq(Q, i + 1, Len(Q))

LEMMA Prefix ==
  ASSUME NEW Q \in Seq(Nat), NEW i \in 0 .. Len(Q)
  PROVE  /\ Len(Firsts(Q, i)) = i
         /\ \A x : x \in ToSet(Firsts(Q, i)) <=> \E j \in 1 .. i : Q[j] = x
         /\ IsFiniteSet(ToSet(Firsts(Q, i)))
         /\ Firsts(Q, i) \in Seq(Nat) /\ ToSet(Firsts(Q, i)) \subseteq Nat
<1>1. PICK s : s = Firsts(Q, i) /\ s = SubSeq(Q, 1, i)  BY DEF Firsts
<1>2. s \in Seq(Nat) /\ Len(s) = i /\ \A j \in 1 .. i : s[j] = Q[j]
  BY <1>1 DEF Front
<1>3. \A x : x \in ToSet(s) <=> \E j \in 1 .. i : Q[j] = x
  <2>1. DOMAIN s = 1 .. i  BY <1>2
  <2> QED BY <2>1, <1>2 DEF ToSet
<1>4. IsFiniteSet(ToSet(s))
  <2> DEFINE g == [j \in 1 .. i |-> s[j]]
  <2>1. g \in Surjection(1 .. i, ToSet(s))
    <3>1. DOMAIN s = 1 .. i  BY <1>2
    <3> QED BY <3>1 DEF Surjection, ToSet
  <2>2. IsFiniteSet(1 .. i)  BY FS_Interval
  <2> HIDE DEF g
  <2> QED BY <2>1, <2>2, FS_Surjection
<1> QED BY <1>1, <1>2, <1>3, <1>4, InToSet

Goes(Q, m, fr, i) == Ends(Q, m, fr) /\ i \in 0 .. Len(Q)

\* A holds what is new up to g, and nothing above.
Reaches(A, fr, g) ==
  /\ g \in Nat /\ fr <= g
  /\ \A n : (n \in A /\ n > fr) <=> n \in (fr + 1) .. g
  /\ Max(A \cup {fr}) = g
  /\ \A n \in A : n <= g

LEMMA GoneSet ==
  ASSUME NEW Q, NEW m, NEW fr, NEW i, Goes(Q, m, fr, i), NEW g, g = After(m, fr, i),
         NEW A, A = ToSet(Firsts(Q, i))
  PROVE  Reaches(A, fr, g)
<1> USE DEF Goes, Ends
<1>1. g \in Nat /\ fr <= g  BY DEF After
<1>2. \A x : x \in A <=> \E j \in 1 .. i : Q[j] = x  BY Prefix
<1>3. ASSUME NEW n \in A PROVE n \in Nat /\ n <= g
  <2>1. PICK j \in 1 .. i : Q[j] = n  BY <1>2
  <2>2. CASE j <= m  BY <2>1, <2>2, <1>1
  <2>3. CASE j > m
    <3>1. n = fr + (j - m)  BY <2>1, <2>3
    <3> QED BY <3>1, <2>3 DEF After
  <2> QED BY <2>2, <2>3
<1>4. ASSUME NEW n \in (fr + 1) .. g PROVE n \in A
  <2>1. i > m /\ g = fr + (i - m)  BY <1>4 DEF After
  <2>2. PICK j \in 1 .. i : j = m + (n - fr) /\ j > m  
    <3>1. m + (n - fr) \in 1 .. i /\ m + (n - fr) > m  BY <2>1
    <3> QED BY <3>1
  <2>4. j \in (m + 1) .. Len(Q)  BY <2>2
  <2>5. Q[j] = fr + (j - m)  BY <2>4
  <2>3. Q[j] = n  BY <2>2, <2>5
  <2> QED BY <2>3, <1>2
<1>5. \A n : (n \in A /\ n > fr) <=> n \in (fr + 1) .. g
  BY <1>1, <1>3, <1>4
<1>6. IsFiniteSet(A \cup {fr}) /\ A \cup {fr} \subseteq Int /\ A \cup {fr} # {}
  <2>1. IsFiniteSet(A)  BY Prefix
  <2>2. IsFiniteSet(A \cup {fr})  BY <2>1, FS_AddElement, Zenon
  <2>3. A \cup {fr} \subseteq Int  BY <1>3
  <2> QED BY <2>2, <2>3
<1>7. Max(A \cup {fr}) \in A \cup {fr} /\ \A y \in A \cup {fr} : Max(A \cup {fr}) >= y
  BY <1>6, MaxIs
<1>8. g \in A \cup {fr}
  <2>1. CASE g = fr  BY <2>1
  <2>2. CASE g > fr
    <3>1. g \in (fr + 1) .. g  BY <2>2, <1>1
    <3> QED BY <3>1, <1>4
  <2> QED BY <2>1, <2>2, <1>1
<1>9. Max(A \cup {fr}) = g
  <2>1. Max(A \cup {fr}) <= g /\ Max(A \cup {fr}) \in Nat  BY <1>7, <1>3, <1>1
  <2>2. Max(A \cup {fr}) >= g  BY <1>7, <1>8
  <2> QED BY <2>1, <2>2, <1>1
<1> QED BY <1>1, <1>3, <1>5, <1>9 DEF Reaches

LEMMA LeftQueue ==
  ASSUME NEW Q, NEW m, NEW fr, NEW i, Goes(Q, m, fr, i), NEW R, R = Rest(Q, i)
  PROVE  /\ Len(R) = Len(Q) - i /\ R \in Seq(Nat)
         /\ Ends(R, IF i <= m THEN m - i ELSE 0, After(m, fr, i))
         /\ \A x : x \in ToSet(R) <=> \E j \in (i + 1) .. Len(Q) : Q[j] = x
<1> USE DEF Goes, Ends
<1>1. R \in Seq(Nat) /\ Len(R) = Len(Q) - i /\ \A j \in 1 .. (Len(Q) - i) : R[j] = Q[i + j]
  BY DEF Rest
<1>2. PICK l \in Nat : l = Len(Q)  OBVIOUS
<1>3. PICK h : h = IF i <= m THEN m - i ELSE 0  OBVIOUS
<1>4. PICK g : g = After(m, fr, i)  OBVIOUS
<1>5. g \in Nat /\ h \in 0 .. (l - i)  BY <1>2, <1>3, <1>4 DEF After
<1>6. ASSUME NEW j \in 1 .. h PROVE R[j] <= g
  <2>1. i <= m /\ i + j \in 1 .. m /\ h = m - i  BY <1>3
  <2>2. g = fr  BY <2>1, <1>4 DEF After
  <2>3. j \in 1 .. (l - i)  BY <1>5
  <2> QED BY <2>1, <2>2, <2>3, <1>1, <1>2
<1>7. ASSUME NEW j \in (h + 1) .. (l - i) PROVE R[j] = g + (j - h)
  <2>1. j \in 1 .. (l - i) /\ i + j \in (m + 1) .. l  BY <1>3, <1>5, <1>2
  <2>2. R[j] = Q[i + j] /\ Q[i + j] = fr + ((i + j) - m)  BY <2>1, <1>1, <1>2
  <2>3. fr + ((i + j) - m) = g + (j - h)  BY <1>3, <1>4, <2>1 DEF After
  <2> QED BY <2>2, <2>3
<1>8. Ends(R, h, g)  BY <1>1, <1>2, <1>5, <1>6, <1>7
<1>a. /\ \A j \in 1 .. (l - i) : R[j] \in ToSet(R)
      /\ \A x \in ToSet(R) : \E j \in 1 .. (l - i) : R[j] = x
  <2>1. Len(R) = l - i  BY <1>1, <1>2
  <2>0. R \in Seq(Nat)  BY <1>1
  <2>2. /\ \A j \in 1 .. Len(R) : R[j] \in ToSet(R)
        /\ \A x \in ToSet(R) : \E j \in 1 .. Len(R) : R[j] = x
    <3>1. DOMAIN R = 1 .. Len(R)  BY <2>0
    <3> QED BY <3>1 DEF ToSet
  <2> QED BY <2>1, <2>2, Zenon
<1>9. ASSUME NEW x PROVE x \in ToSet(R) <=> \E j \in (i + 1) .. Len(Q) : Q[j] = x
  <2>1. ASSUME x \in ToSet(R) PROVE \E j \in (i + 1) .. Len(Q) : Q[j] = x
    <3>1. PICK j \in 1 .. (l - i) : R[j] = x  BY <2>1, <1>a
    <3>2. i + j \in (i + 1) .. Len(Q)  BY <1>2
    <3> QED BY <3>1, <3>2, <1>1, <1>2
  <2>2. ASSUME NEW j \in (i + 1) .. Len(Q), Q[j] = x PROVE x \in ToSet(R)
    <3>1. PICK o \in 1 .. (l - i) : o = j - i /\ i + o = j 
      <4>1. j - i \in 1 .. (l - i) /\ i + (j - i) = j  BY <1>2
      <4> QED BY <4>1
    <3>2. R[o] = x  BY <3>1, <2>2, <1>1, <1>2
    <3> QED BY <3>2, <1>a
  <2> QED BY <2>1, <2>2
<1> QED BY <1>1, <1>3, <1>4, <1>8, <1>9

\* b was answered before the start, t is the last one numbered: what is in s was
\* sent, so it is not above fr, and the queue o ends with all from fr + 1 to t.
Queues(b, t, s, o, fr) ==
  /\ b \in Nat /\ t \in Nat /\ fr \in b .. t
  /\ t - fr <= Len(o)
  /\ Ends(o, Len(o) - (t - fr), fr)
  /\ s \in Seq(Nat) /\ ToSet(s) \subseteq (b + 1) .. fr
  /\ \A n \in ToSet(o) : n > b

OutOf(s, o, fr) == {n \in ToSet(s \o o) : n <= fr}

\* What is outstanding lies in different windows, or in the same window of the
\* same round.
Span(S, fr) == \A n \in S : Era(fr) < Era(n) + Windows

InWindow(S, w) == {n \in S : Window(Number(n)) = w}
CountOf(S) == [w \in 0 .. (Windows - 1) |-> Cardinality(InWindow(S, w))]

LEMMA SeqUp ==
  ASSUME NEW A, NEW B, A \subseteq B, NEW s \in Seq(A)
  PROVE  s \in Seq(B)
OBVIOUS

LEMMA SeqDown ==
  ASSUME NEW A, NEW B, NEW s \in Seq(A), ToSet(s) \subseteq B
  PROVE  s \in Seq(B)
<1>1. \A i \in 1 .. Len(s) : s[i] \in B  BY InToSet
<1>2. Len(s) \in Nat /\ s = [i \in 1 .. Len(s) |-> s[i]]  OBVIOUS
<1> QED BY <1>1, <1>2

LEMMA ConcatSet ==
  ASSUME NEW X, NEW s \in Seq(X), NEW t \in Seq(X)
  PROVE  /\ s \o t \in Seq(X) /\ ToSet(s \o t) = ToSet(s) \cup ToSet(t)
         /\ Len(s \o t) = Len(s) + Len(t)
         /\ \A i \in 1 .. Len(s) : (s \o t)[i] = s[i]
         /\ \A i \in 1 .. Len(t) : (s \o t)[Len(s) + i] = t[i]
<1>1. PICK u : u = s \o t  OBVIOUS
<1>2. /\ u \in Seq(X) /\ Len(u) = Len(s) + Len(t)
      /\ \A i \in 1 .. Len(s) : u[i] = s[i]
      /\ \A i \in 1 .. Len(t) : u[Len(s) + i] = t[i]
  BY <1>1
<1>3. PICK a \in Nat, b \in Nat : a = Len(s) /\ b = Len(t)  OBVIOUS
<1>4. DOMAIN s = 1 .. a /\ DOMAIN t = 1 .. b /\ DOMAIN u = 1 .. (a + b)  BY <1>2, <1>3
<1>5. ASSUME NEW x \in ToSet(u) PROVE x \in ToSet(s) \cup ToSet(t)
  <2>1. PICK i \in 1 .. (a + b) : u[i] = x  BY <1>4, <1>5 DEF ToSet
  <2>2. CASE i \in 1 .. a  BY <2>1, <2>2, <1>2, <1>3, <1>4 DEF ToSet
  <2>3. CASE i > a
    <3>1. PICK j \in 1 .. b : i = a + j
      <4>1. i - a \in 1 .. b /\ i = a + (i - a)  BY <2>3
      <4> QED BY <4>1
    <3>2. x = t[j]  BY <3>1, <2>1, <1>2, <1>3
    <3> QED BY <3>2, <1>4 DEF ToSet
  <2> QED BY <2>2, <2>3
<1>6. ASSUME NEW x \in ToSet(s) PROVE x \in ToSet(u)
  <2>1. PICK i \in 1 .. a : s[i] = x  BY <1>4, <1>6 DEF ToSet
  <2>2. i \in 1 .. (a + b) /\ u[i] = x  BY <2>1, <1>2, <1>3
  <2> QED BY <2>2, <1>4 DEF ToSet
<1>7. ASSUME NEW x \in ToSet(t) PROVE x \in ToSet(u)
  <2>1. PICK i \in 1 .. b : t[i] = x  BY <1>4, <1>7 DEF ToSet
  <2>2. a + i \in 1 .. (a + b) /\ u[a + i] = x  BY <2>1, <1>2, <1>3
  <2> QED BY <2>2, <1>4 DEF ToSet
<1> QED BY <1>1, <1>2, <1>5, <1>6, <1>7

Joined(u, s, t) ==
  /\ ToSet(u) = ToSet(s) \cup ToSet(t)
  /\ Len(u) = Len(s) + Len(t)
  /\ \A i \in 1 .. Len(s) : u[i] = s[i]
  /\ \A i \in 1 .. Len(t) : u[Len(s) + i] = t[i]

LEMMA JoinIs ==
  ASSUME NEW X, NEW s \in Seq(X), NEW t \in Seq(X)
  PROVE  s \o t \in Seq(X) /\ Joined(s \o t, s, t)
BY ConcatSet DEF Joined

LEMMA EndsAfter ==
  ASSUME NEW Q, NEW m, NEW fr, Ends(Q, m, fr), NEW E \in Seq(Nat), \A x \in ToSet(E) : x <= fr
  PROVE  Ends(E \o Q, Len(E) + m, fr)
<1>1. PICK u : u = E \o Q  OBVIOUS
<1>2. PICK a \in Nat, b \in Nat : a = Len(E) /\ b = Len(Q) /\ m \in 0 .. b /\ fr \in Nat /\ Q \in Seq(Nat)
  BY DEF Ends
<1>3. /\ u \in Seq(Nat) /\ Len(u) = a + b
      /\ \A i \in 1 .. a : u[i] = E[i]
      /\ \A i \in 1 .. b : u[a + i] = Q[i]
  BY <1>1, <1>2
<1>4. ASSUME NEW j \in 1 .. (a + m) PROVE u[j] <= fr
  <2>1. CASE j \in 1 .. a
    <3>1. E[j] \in ToSet(E)  BY <2>1, <1>2, InToSet
    <3> QED BY <2>1, <3>1, <1>3
  <2>2. CASE j > a
    <3>1. PICK i \in 1 .. m : j = a + i
      <4>1. j - a \in 1 .. m /\ j = a + (j - a)  BY <2>2, <1>2
      <4> QED BY <4>1
    <3>2. Q[i] <= fr /\ i \in 1 .. b BY <3>1, <1>2 DEF Ends
    <3> QED BY <3>1, <3>2, <1>3
  <2> QED BY <2>1, <2>2
<1>5. ASSUME NEW j \in (a + m + 1) .. (a + b) PROVE u[j] = fr + (j - (a + m))
  <2>1. PICK i \in (m + 1) .. b : j = a + i
    <3>1. j - a \in (m + 1) .. b /\ j = a + (j - a)  BY <1>2
    <3> QED BY <3>1
  <2>2. Q[i] = fr + (i - m) /\ i \in 1 .. b  BY <2>1, <1>2 DEF Ends
  <2>3. u[j] = Q[i]  BY <2>1, <2>2, <1>3
  <2>4. i - m = j - (a + m)  BY <2>1, <1>2
  <2> QED BY <2>2, <2>3, <2>4
<1>6. a + m \in 0 .. (a + b)  BY <1>2
<1> QED BY <1>1, <1>2, <1>3, <1>4, <1>5, <1>6 DEF Ends

-----------------------------------------------------------------------------
(* A pass over the queue: what is due goes back before what waits, the first*)
(* i of that are sent, and g becomes the last command ever sent.           *)

\* A pass over the queue, after the commands due were put in front of it: i of
\* them go, the last of them is g, and s2 and o2 are the two queues then.
Pass(b, t, s, o, fr, due, Q, m, i, g, s2, o2) ==
  /\ Queues(b, t, s, o, fr)
  /\ Q = Only(s, due) \o o /\ m = Len(Only(s, due)) + Len(o) - (t - fr)
  /\ i \in 0 .. Len(Q) /\ g = After(m, fr, i)
  /\ s2 = Only(s, ToSet(s) \ due) \o Firsts(Q, i) /\ o2 = Rest(Q, i)

\* How many commands a pass of i leaves behind.
LEMMA PassLength ==
  ASSUME NEW t \in Nat, NEW fr \in Nat, fr <= t, NEW m \in Nat, NEW i \in Nat, i <= m + (t - fr),
         NEW g, g = (IF i <= m THEN fr ELSE fr + (i - m)), NEW c, c = m + (t - fr) - i
  PROVE  g <= t /\ c - (t - g) = (IF i <= m THEN m - i ELSE 0) /\ t - g <= c
OBVIOUS

\* What is outstanding after a pass: what was, and the fresh commands it sent.
LEMMA Passed ==
  ASSUME NEW b, NEW t, NEW s, NEW o, NEW fr, NEW due, NEW Q, NEW m, NEW i, NEW g, NEW s2, NEW o2,
         Pass(b, t, s, o, fr, due, Q, m, i, g, s2, o2)
  PROVE  /\ Ends(Q, m, fr) /\ \A n \in ToSet(Q) : n > b
         /\ Queues(b, t, s2, o2, g)
         /\ OutOf(s2, o2, g) = OutOf(s, o, fr) \cup (fr + 1) .. g
<1>0. /\ Queues(b, t, s, o, fr) /\ Q = Only(s, due) \o o
      /\ m = Len(Only(s, due)) + Len(o) - (t - fr)
      /\ i \in 0 .. Len(Q) /\ g = After(m, fr, i)
      /\ s2 = Only(s, ToSet(s) \ due) \o Firsts(Q, i) /\ o2 = Rest(Q, i)
  BY DEF Pass
<1>q. /\ b \in Nat /\ t \in Nat /\ fr \in b .. t /\ t - fr <= Len(o)
      /\ Ends(o, Len(o) - (t - fr), fr) /\ s \in Seq(Nat)
      /\ ToSet(s) \subseteq (b + 1) .. fr /\ \A n \in ToSet(o) : n > b
  BY <1>0 DEF Queues
<1>1. /\ Only(s, due) \in Seq(Nat) /\ ToSet(Only(s, due)) = ToSet(s) \cap due
      /\ Only(s, ToSet(s) \ due) \in Seq(Nat)
      /\ ToSet(Only(s, ToSet(s) \ due)) = ToSet(s) \cap (ToSet(s) \ due)
  BY <1>q, OnlyElements
<1>2. PICK E, K : E = Only(s, due) /\ K = Only(s, ToSet(s) \ due)  OBVIOUS
<1>3. /\ E \in Seq(Nat) /\ ToSet(E) = ToSet(s) \cap due /\ K \in Seq(Nat)
      /\ ToSet(K) = ToSet(s) \cap (ToSet(s) \ due)
  BY <1>1, <1>2
<1>4. o \in Seq(Nat)  BY <1>q DEF Ends
<1>5. /\ Q \in Seq(Nat) /\ ToSet(Q) = ToSet(E) \cup ToSet(o)
      /\ Len(Q) = Len(E) + Len(o)
  BY <1>0, <1>2, <1>3, <1>4, ConcatSet
<1>6. Ends(Q, m, fr)
  <2>1. \A x \in ToSet(E) : x <= fr  BY <1>3, <1>q
  <2>2. Ends(E \o o, Len(E) + (Len(o) - (t - fr)), fr)  BY <2>1, <1>3, <1>q, EndsAfter
  <2>3. Len(E) + (Len(o) - (t - fr)) = m
    <3>1. Len(E) \in Nat /\ Len(o) \in Nat BY <1>3, <1>4
    <3> QED BY <3>1, <1>0, <1>2, <1>q
  <2> QED BY <2>2, <2>3, <1>2, <1>0
<1>h. i \in 0 .. Len(Q) /\ g = After(m, fr, i) /\ o2 = Rest(Q, i)  BY <1>0
<1>g. Goes(Q, m, fr, i)  BY <1>6, <1>h DEF Goes
<1>7. \A n \in ToSet(Q) : n > b  BY <1>5, <1>3, <1>q
<1>8. PICK A, F : F = Firsts(Q, i) /\ A = ToSet(F)  OBVIOUS
<1>9. /\ \A x : x \in A <=> \E j \in 1 .. i : Q[j] = x
      /\ F \in Seq(Nat) /\ A \subseteq Nat
  BY <1>8, <1>5, <1>h, Prefix
<1>10. /\ g \in Nat /\ fr <= g
       /\ \A n : (n \in A /\ n > fr) <=> n \in (fr + 1) .. g
       /\ \A n \in A : n <= g
  <2>1. A = ToSet(Firsts(Q, i))  BY <1>8, Zenon
  <2>2. Reaches(A, fr, g)  BY <1>g, <1>h, <2>1, GoneSet
  <2> QED BY <2>2 DEF Reaches
<1>11. /\ Len(o2) = Len(Q) - i /\ o2 \in Seq(Nat)
       /\ Ends(o2, IF i <= m THEN m - i ELSE 0, g)
       /\ \A x : x \in ToSet(o2) <=> \E j \in (i + 1) .. Len(Q) : Q[j] = x
  BY <1>g, <1>h, LeftQueue
<1>12. /\ s2 \in Seq(Nat) /\ ToSet(s2) = ToSet(K) \cup A
  <2>1. s2 = K \o F  BY <1>0, <1>2, <1>8
  <2>2. K \in Seq(Nat) /\ F \in Seq(Nat)  BY <1>3, <1>9
  <2>3. K \o F \in Seq(Nat) /\ ToSet(K \o F) = ToSet(K) \cup ToSet(F)  BY <2>2, ConcatSet
  <2> QED BY <2>1, <2>3, <1>8
<1>13. ToSet(s2 \o o2) = ToSet(s2) \cup ToSet(o2)  BY <1>11, <1>12, ConcatSet
<1>14. PICK l \in Nat : l = Len(Q) /\ i \in 0 .. l  BY <1>5, <1>h
<1>15. m \in 0 .. l /\ l = m + (t - fr)
  <2>1. PICK a \in Nat, c \in Nat : a = Len(E) /\ c = Len(o)  BY <1>3, <1>4
  <2>2. m = a + c - (t - fr) /\ l = a + c BY <2>1, <1>0, <1>2, <1>5, <1>14
  <2>3. t - fr <= c /\ t - fr \in Nat  BY <2>1, <1>q
  <2> QED BY <2>2, <2>3, <2>1
<1>16. \A x : x \in ToSet(Q) <=> \E j \in 1 .. l : Q[j] = x
  <2>1. DOMAIN Q = 1 .. l  BY <1>5, <1>14
  <2> QED BY <2>1 DEF ToSet
<1>17. ToSet(Q) = A \cup ToSet(o2)
  <2>1. ASSUME NEW x \in ToSet(Q) PROVE x \in A \cup ToSet(o2)
    <3>1. PICK j \in 1 .. l : Q[j] = x  BY <2>1, <1>16
    <3>2. j \in 1 .. i \/ j \in (i + 1) .. l  BY <1>14
    <3> QED BY <3>1, <3>2, <1>9, <1>11, <1>14
  <2>2. ASSUME NEW x \in A PROVE x \in ToSet(Q)
    <3>1. PICK j \in 1 .. i : Q[j] = x  BY <2>2, <1>9
    <3>2. j \in 1 .. l  BY <1>14
    <3> QED BY <3>1, <3>2, <1>16
  <2>3. ASSUME NEW x \in ToSet(o2) PROVE x \in ToSet(Q)
    <3>1. PICK j \in (i + 1) .. l : Q[j] = x  BY <2>3, <1>11, <1>14
    <3>2. j \in 1 .. l  BY <1>14
    <3> QED BY <3>1, <3>2, <1>16
  <2> QED BY <2>1, <2>2, <2>3
<1>18. g <= t /\ Len(o2) - (t - g) = (IF i <= m THEN m - i ELSE 0) /\ t - g <= Len(o2)
  <2>1. PICK c : c = Len(o2)  OBVIOUS
  <2>2. c = m + (t - fr) - i /\ i \in Nat /\ i <= m + (t - fr) /\ m \in Nat
    BY <2>1, <1>11, <1>14, <1>15, <1>h, <1>q
  <2>3. g = IF i <= m THEN fr ELSE fr + (i - m)  BY <1>h DEF After
  <2>4. t \in Nat /\ fr \in Nat /\ fr <= t  BY <1>q
  <2> QED BY <2>1, <2>2, <2>3, <2>4, PassLength
<1>19. Queues(b, t, s2, o2, g)
  <2>1. ToSet(s2) \subseteq (b + 1) .. g
    <3>1. \A n \in A : n > b /\ n <= g /\ n \in Nat BY <1>17, <1>7, <1>10, <1>9
    <3>2. \A n \in ToSet(K) : n \in (b + 1) .. fr  BY <1>3, <1>q
    <3>3. \A n \in ToSet(s2) : n \in ToSet(K) \/ n \in A BY <1>12
    <3>4. \A n \in (b + 1) .. fr : n \in (b + 1) .. g  BY <1>10, <1>q
    <3>5. \A n \in A : n \in (b + 1) .. g  BY <3>1, <1>10, <1>q
    <3> QED BY <3>2, <3>3, <3>4, <3>5
  <2>2. \A n \in ToSet(o2) : n > b  BY <1>17, <1>7, <1>q
  <2>3. g \in b .. t  BY <1>10, <1>18, <1>q
  <2>4. Ends(o2, Len(o2) - (t - g), g)  BY <1>11, <1>18
  <2>5. b \in Nat /\ t \in Nat  BY <1>q
  <2> QED BY <2>1, <2>2, <2>3, <2>4, <2>5, <1>12, <1>18 DEF Queues
<1>20. OutOf(s, o, fr) = ToSet(s) \cup {n \in ToSet(o) : n <= fr}
  <2>1. ToSet(s \o o) = ToSet(s) \cup ToSet(o)  BY <1>4, <1>q, ConcatSet
  <2>2. \A n \in ToSet(s) : n <= fr  BY <1>q
  <2> QED BY <2>1, <2>2 DEF OutOf
<1>21. OutOf(s2, o2, g) = ToSet(K) \cup {n \in ToSet(Q) : n <= g}
  <2>1. \A n \in ToSet(K) : n <= g  BY <1>3, <1>10, <1>q
  <2>2. ToSet(s2 \o o2) = ToSet(K) \cup ToSet(Q)  BY <1>13, <1>12, <1>17
  <2> QED BY <2>1, <2>2 DEF OutOf
<1>22. {n \in ToSet(Q) : n > fr /\ n <= g} = (fr + 1) .. g
  <2>1. ASSUME NEW n \in ToSet(Q), n > fr, n <= g PROVE n \in (fr + 1) .. g
    <3>1. n \in Nat  BY <2>1, <1>5, InToSet
    <3> QED BY <3>1, <2>1, <1>10, <1>q
  <2>2. ASSUME NEW n \in (fr + 1) .. g PROVE n \in ToSet(Q)
    BY <2>2, <1>10, <1>17
  <2>3. \A n \in (fr + 1) .. g : n > fr /\ n <= g  BY <1>10
  <2> QED BY <2>1, <2>2, <2>3
<1>23. {n \in ToSet(Q) : n <= g} = {n \in ToSet(Q) : n <= fr} \cup (fr + 1) .. g
  <2>0. ToSet(Q) \subseteq Nat  BY <1>5, InToSet
  <2>1. \A n \in Nat : n <= g <=> (n <= fr \/ (n > fr /\ n <= g))  BY <1>10, <1>q
  <2> QED BY <2>0, <2>1, <1>22
<1>24. {n \in ToSet(Q) : n <= fr} = ToSet(E) \cup {n \in ToSet(o) : n <= fr}
  BY <1>5, <1>3, <1>q
<1>25. ToSet(K) \cup ToSet(E) = ToSet(s)  BY <1>3
<1>26. OutOf(s2, o2, g) = OutOf(s, o, fr) \cup (fr + 1) .. g
  BY <1>20, <1>21, <1>23, <1>24, <1>25
<1> QED BY <1>6, <1>7, <1>19, <1>26

-----------------------------------------------------------------------------
(* The windows: no pass spreads what is outstanding over more than Windows *)
(* of them, so a window counts the commands of one era only.               *)

\* What a pass from fr to g promises of the first command x of a window: its
\* window was empty, and the window before it was not full.
Sparse(S, fr, g) ==
  \A x \in (fr + 1) .. g : x % WindowSize = 0 =>
     /\ \A n \in S \cup (fr + 1) .. (x - 1) : Window(Number(n)) # Window(Number(x))
     /\ \E n \in (x - WindowSize) .. (x - 1) : n \notin S \cup (fr + 1) .. (x - 1)

\* So what is outstanding never spans all the windows,
LEMMA SpanStays ==
  ASSUME NEW S \in SUBSET Nat, NEW fr \in Nat, NEW g \in Nat, fr <= g, \A n \in S : n <= fr,
         Span(S, fr), Sparse(S, fr, g)
  PROVE  Span(S \cup (fr + 1) .. g, g)
<1> SUFFICES ASSUME NEW n \in S \cup (fr + 1) .. g, Era(g) >= Era(n) + Windows PROVE FALSE
  <2>1. \A n \in S \cup (fr + 1) .. g : Era(n) \in Nat  BY EraIs
  <2>2. Era(g) \in Nat /\ Windows \in Nat  BY EraIs, Sizes
  <2>3. \A a, b, c \in Nat : ~(a >= b + c) => a < b + c  OBVIOUS
  <2> QED BY <2>1, <2>2, <2>3 DEF Span
<1>1. n \in Nat  OBVIOUS
<1>2. PICK e \in Nat : e = Era(n)  BY <1>1, EraIs
<1>3. PICK d \in Nat : d = e + Windows  BY <1>2, Sizes
<1>4. PICK x \in Nat : x = d * WindowSize  BY Sizes
<1>5. Era(x) = d /\ x % WindowSize = 0
  <2>1. 0 \in 0 .. (WindowSize - 1)  BY Sizes
  <2>2. x = d * WindowSize + 0  BY <1>4
  <2> QED BY <2>1, <2>2, EraOf
<1>6. x <= g
  <2>1. g < x => Era(g) < d
    <3> SUFFICES ASSUME g < x, Era(g) >= d PROVE FALSE  BY EraIs
    <3>1. PICK h \in Nat : h = Era(g)  BY EraIs
    <3>2. PICK y \in Nat, z \in Nat : y = h * WindowSize /\ z = d * WindowSize  BY Sizes
    <3>3. y <= g  BY <3>1, <3>2, EraIs
    <3>4. z <= y  BY <3>1, <3>2, Sizes
    <3> QED BY <3>2, <3>3, <3>4, <1>4
  <2>2. Era(g) \in Nat /\ Era(g) >= d  BY EraIs, <1>2, <1>3
  <2> QED BY <2>1, <2>2
<1>7. x > fr /\ n < x
  <2>1. n < x
    <3>1. ~(x <= n)
      <4>1. x <= n => Era(x) <= Era(n)  BY <1>1, EraLess
      <4> QED BY <4>1, <1>5, <1>2, <1>3, Sizes
    <3> QED BY <3>1, <1>1
  <2>2. CASE n \in S
    <3>1. Era(fr) < d  BY <2>2, <1>2, <1>3 DEF Span
    <3>2. x <= fr => Era(x) <= Era(fr)  BY EraLess
    <3>3. Era(fr) \in Nat  BY EraIs
    <3> QED BY <3>1, <3>2, <3>3, <1>5, <2>1
  <2>3. CASE n \in (fr + 1) .. g
    BY <2>1, <2>3
  <2> QED BY <2>2, <2>3
<1>8. Window(Number(n)) = Window(Number(x))
  <2>1. Window(Number(n)) = e % Windows /\ Window(Number(x)) = d % Windows
    BY <1>1, <1>2, <1>5, NumberIs
  <2>2. (e + Windows) % Windows = e % Windows
    <3>1. PICK b \in Nat \ {0} : b = Windows  BY Sizes
    <3>2. e \div b \in Nat /\ e % b \in 0 .. (b - 1) /\ e = b * (e \div b) + (e % b)
      BY DivMod
    <3>3. e + b = b * (e \div b + 1) + (e % b)
      <4>1. PICK q \in Nat : q = e \div b  BY <3>2
      <4>2. b * (q + 1) = b * q + b  OBVIOUS
      <4>3. b * q \in Nat OBVIOUS
      <4> QED BY <3>2, <4>1, <4>2, <4>3
    <3>4. (e + b) % b = e % b
      <4>1. e \div b + 1 \in Nat /\ e + b \in Nat  BY <3>2
      <4> QED BY ZenonT(30), <4>1, <3>2, <3>3, DivIs
    <3> QED BY <3>1, <3>4
  <2> QED BY <2>1, <2>2, <1>3
<1>9. n \in S \cup (fr + 1) .. (x - 1)
  BY <1>7, <1>1
<1>10. x \in (fr + 1) .. g  BY <1>6, <1>7
<1> QED BY <1>5, <1>8, <1>9, <1>10 DEF Sparse

\* and the last one sent is never more than FreeWindows windows beyond a place r
\* after which everything up to the window FreeWindows - 2 is still outstanding.
LEMMA ReachStays ==
  ASSUME NEW S \in SUBSET Nat, NEW fr \in Nat, NEW g \in Nat, fr <= g, NEW r \in 0 .. fr,
         Era(fr) <= Era(r) + FreeWindows,
         \A n \in (r + 1) .. fr : n \in S \/ Era(n) <= Era(r) + FreeWindows - 2,
         Sparse(S, fr, g)
  PROVE  Era(g) <= Era(r) + FreeWindows
<1> SUFFICES ASSUME Era(g) > Era(r) + FreeWindows PROVE FALSE
  BY EraIs, Sizes
<1>2. PICK e \in Nat : e = Era(r)  BY EraIs
<1>3. PICK d \in Nat : d = e + FreeWindows + 1  BY <1>2, Sizes
<1>4. PICK x \in Nat : x = d * WindowSize  BY Sizes
<1>5. Era(x) = d /\ x % WindowSize = 0
  <2>1. 0 \in 0 .. (WindowSize - 1)  BY Sizes
  <2>2. x = d * WindowSize + 0  BY <1>4
  <2> QED BY <2>1, <2>2, EraOf
<1>6. x <= g
  <2>1. g < x => Era(g) < d
    <3> SUFFICES ASSUME g < x, Era(g) >= d PROVE FALSE  BY EraIs
    <3>1. PICK h \in Nat : h = Era(g)  BY EraIs
    <3>2. PICK y \in Nat, z \in Nat : y = h * WindowSize /\ z = d * WindowSize  BY Sizes
    <3>3. y <= g  BY <3>1, <3>2, EraIs
    <3>4. z <= y  BY <3>1, <3>2, Sizes
    <3> QED BY <3>2, <3>3, <3>4, <1>4
  <2>2. Era(g) \in Nat  BY EraIs
  <2> QED BY <2>1, <2>2, <1>2, <1>3, Sizes
<1>7. x > fr
  <2>1. Era(fr) < d  BY <1>2, <1>3, EraIs, Sizes
  <2>2. x <= fr => Era(x) <= Era(fr)  BY EraLess
  <2>3. Era(fr) \in Nat  BY EraIs
  <2> QED BY <2>1, <2>2, <2>3, <1>5
<1>8. PICK n \in (x - WindowSize) .. (x - 1) : n \notin S \cup (fr + 1) .. (x - 1)
  <2>1. x \in (fr + 1) .. g  BY <1>6, <1>7
  <2> QED BY <2>1, <1>5 DEF Sparse
<1>9. n \in Nat /\ Era(n) = e + FreeWindows
  <2>1. PICK c \in Nat : c = e + FreeWindows  BY Sizes
  <2>2. d = c + 1  BY <2>1, <1>3, Sizes
  <2>3. x = c * WindowSize + WindowSize  BY <1>4, <2>2, Sizes
  <2>4. PICK y \in Nat : y = c * WindowSize  BY Sizes
  <2>5. PICK k : k \in 0 .. (WindowSize - 1) /\ n = y + k
    <3>1. n - y \in 0 .. (WindowSize - 1) /\ n = y + (n - y)  BY <2>3, <2>4, Sizes
    <3> QED BY <3>1
  <2> QED BY <2>1, <2>4, <2>5, EraOf
<1>10. n > r
  <2>1. n <= r => Era(n) <= Era(r)  BY <1>9, EraLess
  <2> QED BY <2>1, <1>9, <1>2, Sizes
<1>11. n <= fr  BY <1>8, <1>9
<1>12. n \in (r + 1) .. fr  BY <1>10, <1>11, <1>9
<1> QED BY <1>12, <1>8, <1>9, <1>2, Sizes

LEMMA Interval ==
  ASSUME NEW a \in Nat, NEW b \in Int
  PROVE  /\ IsFiniteSet(a .. b)
         /\ a <= b => Cardinality(a .. b) = b - a + 1
BY FS_Interval

\* Count counts on: A reaches from fr to g.
LEMMA CountOn ==
  ASSUME NEW S \in SUBSET Nat, IsFiniteSet(S), NEW fr \in Nat, \A n \in S : n <= fr,
         NEW A \in SUBSET Nat, NEW g, Reaches(A, fr, g), NEW w
  PROVE  Cardinality(InWindow(S, w)) + Cardinality({n \in A : n > fr /\ Window(Number(n)) = w})
           = Cardinality(InWindow(S \cup (fr + 1) .. g, w))
<1>0. g \in Nat /\ fr <= g /\ \A n : (n \in A /\ n > fr) <=> n \in (fr + 1) .. g
  BY DEF Reaches
<1>1. PICK B, T, U : /\ B = {n \in A : n > fr /\ Window(Number(n)) = w}
                     /\ T = InWindow(S, w) /\ U = InWindow(S \cup (fr + 1) .. g, w)
  OBVIOUS
<1>2. B \subseteq (fr + 1) .. g  BY <1>0, <1>1
<1>3. \A n \in (fr + 1) .. g : n \in B <=> Window(Number(n)) = w  BY <1>0, <1>1
<1>4. T \cup B = U  BY <1>1, <1>2, <1>3 DEF InWindow
<1>5. T \cap B = {}
  <2>1. \A n \in T : n \in Nat /\ n <= fr  BY <1>1 DEF InWindow
  <2>2. \A n \in B : n > fr  BY <1>1
  <2> QED BY <2>1, <2>2
<1>6. IsFiniteSet(B) /\ IsFiniteSet(T)
  <2>1. IsFiniteSet((fr + 1) .. g)  BY <1>0, FS_Interval
  <2>2. T \subseteq S  BY <1>1 DEF InWindow
  <2> QED BY <2>1, <2>2, <1>2, FS_Subset
<1>7. Cardinality(U) = Cardinality(T) + Cardinality(B) - Cardinality(T \cap B)
  BY <1>4, <1>6, FS_Union
<1>8. Cardinality(T \cap B) = 0  BY <1>5, FS_EmptySet
<1>9. Cardinality(T) \in Nat /\ Cardinality(B) \in Nat  BY <1>6, FS_CardinalityType
<1> QED BY <1>1, <1>7, <1>8, <1>9

\* The numbers of the window before the one that x begins.
LEMMA LastWindow ==
  ASSUME NEW x \in Nat \ {0}, x % WindowSize = 0, NEW n \in (x - WindowSize) .. (x - 1)
  PROVE  /\ n \in Nat /\ x - WindowSize \in Nat
         /\ Window(Number(n)) = (Window(Number(x)) + Windows - 1) % Windows
<1>1. PICK d \in Nat : d = Era(x)  BY EraIs
<1>2. PICK W \in Nat \ {0} : W = WindowSize  BY Sizes
<1>3. x = d * W  
  <2>1. x = Era(x) * WindowSize + (x % WindowSize)  BY EraIs
  <2>2. d * W \in Nat  OBVIOUS
  <2> QED BY <2>1, <2>2, <1>1, <1>2
<1>4. d # 0  BY <1>3, <1>2
<1>5. PICK c \in Nat : d = c + 1  
  <2>1. d - 1 \in Nat /\ d = (d - 1) + 1  BY <1>4
  <2> QED BY <2>1
<1>6. PICK y \in Nat : y = c * W  BY <1>2
<1>7. x = y + W  BY <1>3, <1>5, <1>6
<1>8. PICK k : k \in 0 .. (W - 1) /\ n = y + k
  <2>1. n - y \in 0 .. (W - 1) /\ n = y + (n - y)  BY <1>2, <1>7
  <2> QED BY <2>1
<1>9. Era(n) = c  BY <1>2, <1>6, <1>8, EraOf
<1>10. n \in Nat /\ x - WindowSize \in Nat  BY <1>8, <1>7, <1>2
<1>11. Window(Number(n)) = c % Windows /\ Window(Number(x)) = (c + 1) % Windows
  BY <1>1, <1>5, <1>9, <1>10, NumberIs
<1>12. c % Windows = (((c + 1) % Windows) + Windows - 1) % Windows
  <2>1. PICK b \in Nat \ {0} : b = Windows /\ b >= 2  BY Sizes
  <2>2. PICK q \in Nat, r \in 0 .. (b - 1) : c = b * q + r /\ r = c % b
    <3>1. c \div b \in Nat /\ c % b \in 0 .. (b - 1) /\ c = b * (c \div b) + (c % b)
      BY <2>1, DivMod
    <3> QED BY <3>1
  <2>3. CASE r < b - 1
    <3>1. PICK e \in Nat, s \in 0 .. (b - 1) : e = c + 1 /\ s = r + 1 /\ e = b * q + s
      <4>1. b * q \in Nat  BY <2>1
      <4>2. r + 1 \in 0 .. (b - 1) /\ c + 1 \in Nat /\ c + 1 = b * q + (r + 1)
        BY <4>1, <2>1, <2>2, <2>3
      <4> QED BY <4>2
    <3>0. e = b * q + s  BY <3>1
    <3>a. e % b = s  BY <3>0, DivIs, Zenon
    <3>2. (c + 1) % b = r + 1  BY <3>1, <3>a
    <3>3. (r + 1) + b - 1 = b * 1 + r /\ (r + 1) + b - 1 \in Nat  BY <2>1
    <3>4. ((r + 1) + b - 1) % b = r  BY <3>3, <2>1, DivIs
    <3> QED BY <3>2, <3>4, <2>1, <2>2
  <2>4. CASE r = b - 1
    <3>1. PICK e \in Nat, h \in Nat : e = c + 1 /\ h = q + 1 /\ e = b * h + 0
      <4>1. PICK z \in Nat : z = b * q  BY <2>1
      <4>2. b * (q + 1) = z + b  BY <2>1, <4>1
      <4>3. c + 1 = z + b  BY <2>1, <2>2, <2>4, <4>1
      <4>4. c + 1 = b * (q + 1) + 0  BY <4>2, <4>3, <2>1
      <4> QED BY <4>4
    <3>a. 0 \in 0 .. (b - 1)  BY <2>1
    <3>0. e = b * h + 0  BY <3>1
    <3>b. e % b = 0  BY <3>0, <3>a, DivIs, Zenon
    <3>2. (c + 1) % b = 0  BY <3>1, <3>b
    <3>3. 0 + b - 1 = b * 0 + r /\ 0 + b - 1 \in Nat  BY <2>1, <2>4
    <3>4. (0 + b - 1) % b = r  BY <3>3, <2>1, DivIs
    <3> QED BY <3>2, <3>4, <2>1, <2>2
  <2> QED BY <2>3, <2>4, <2>1
<1> QED BY <1>10, <1>11, <1>12

-----------------------------------------------------------------------------
(* What is true of the sender.                                             *)

SenderIs ==
  /\ Queues(base, Top, sent, outgoing, fresh)
  /\ Span(Outstanding, fresh)
  /\ windows = CountOf(Outstanding)

LEMMA OutIs ==
  ASSUME NEW b, NEW t, NEW s, NEW o, NEW fr, Queues(b, t, s, o, fr)
  PROVE  /\ OutOf(s, o, fr) \subseteq (b + 1) .. fr
         /\ IsFiniteSet(OutOf(s, o, fr))
         /\ OutOf(s, o, fr) = ToSet(s) \cup {n \in ToSet(o) : n <= fr}
         /\ fr \in Nat /\ b \in Nat /\ s \in Seq(Nat) /\ o \in Seq(Nat)
<1>1. /\ b \in Nat /\ t \in Nat /\ fr \in b .. t
      /\ Ends(o, Len(o) - (t - fr), fr) /\ s \in Seq(Nat)
      /\ ToSet(s) \subseteq (b + 1) .. fr /\ \A n \in ToSet(o) : n > b
  BY DEF Queues
<1>2. o \in Seq(Nat)  BY <1>1 DEF Ends
<1>3. ToSet(s \o o) = ToSet(s) \cup ToSet(o)  BY <1>1, <1>2, ConcatSet
<1>4. \A n \in ToSet(s) : n <= fr  BY <1>1
<1>5. OutOf(s, o, fr) = ToSet(s) \cup {n \in ToSet(o) : n <= fr}  BY <1>3, <1>4 DEF OutOf
<1>6. ToSet(o) \subseteq Nat  BY <1>2, InToSet
<1>7. OutOf(s, o, fr) \subseteq (b + 1) .. fr  
  <2>1. \A n \in Nat : n > b /\ n <= fr => n \in (b + 1) .. fr  BY <1>1
  <2> QED BY <1>1, <1>5, <1>6, <2>1
<1>8. IsFiniteSet((b + 1) .. fr)  BY <1>1, FS_Interval
<1> QED BY <1>1, <1>2, <1>5, <1>7, <1>8, FS_Subset

LEMMA GoneIs ==
  ASSUME NEW p, NEW k \in Nat, NEW i, i = Gone(p, k)
  PROVE  i \in 0 .. k /\ \A j \in 0 .. (i - 1) : MayGo(p, j)
<1>1. PICK S : S = {h \in 0 .. k : \A j \in 0 .. (h - 1) : MayGo(p, j)}  OBVIOUS
<1>2. 0 \in S  BY <1>1
<1>3. IsFiniteSet(S)
  <2>1. IsFiniteSet(0 .. k) /\ S \subseteq 0 .. k  BY <1>1, FS_Interval
  <2> QED BY <2>1, FS_Subset
<1>4. S \subseteq Int  BY <1>1
<1>5. Max(S) \in S  BY <1>2, <1>3, <1>4, MaxIs
<1>6. i = Max(S)  BY <1>1 DEF Gone
<1> QED BY <1>1, <1>5, <1>6

\* The count of a window while a pass is on: A went, and reaches up to g.
LEMMA CountIs ==
  ASSUME SenderIs, NEW p, NEW j, NEW g, First(p, j) \subseteq Nat, Reaches(First(p, j), fresh, g),
         NEW w \in 0 .. (Windows - 1)
  PROVE  Count(p, j, w) = Cardinality(InWindow(Outstanding \cup (fresh + 1) .. g, w))
<1>0. Outstanding = OutOf(sent, outgoing, fresh)  BY DEF Outstanding, OutOf
<1>1. /\ Outstanding \subseteq (base + 1) .. fresh /\ IsFiniteSet(Outstanding)
      /\ fresh \in Nat /\ base \in Nat
  BY <1>0, OutIs DEF SenderIs
<1>2. Outstanding \in SUBSET Nat /\ \A n \in Outstanding : n <= fresh  BY <1>1
<1>3. windows[w] = Cardinality(InWindow(Outstanding, w))  BY DEF SenderIs, CountOf
<1>4. First(p, j) \in SUBSET Nat  OBVIOUS
<1>5. Cardinality(InWindow(Outstanding, w))
        + Cardinality({n \in First(p, j) : n > fresh /\ Window(Number(n)) = w})
      = Cardinality(InWindow(Outstanding \cup (fresh + 1) .. g, w))
  BY <1>1, <1>2, <1>4, CountOn
<1> QED BY <1>3, <1>5 DEF Count

\* A command that begins a window and is not held back.
LEMMA MayGoIs ==
  ASSUME SenderIs, NEW p, NEW j, NEW x \in Nat, x > fresh, x % WindowSize = 0,
         First(p, j) \subseteq Nat, Reaches(First(p, j), fresh, x - 1),
         ~Blocked(p, j, x)
  PROVE  /\ \A n \in Outstanding \cup (fresh + 1) .. (x - 1) : Window(Number(n)) # Window(Number(x))
         /\ \E n \in (x - WindowSize) .. (x - 1) : n \notin Outstanding \cup (fresh + 1) .. (x - 1)
<1>0. Outstanding = OutOf(sent, outgoing, fresh)  BY DEF Outstanding, OutOf
<1>1. /\ Outstanding \subseteq (base + 1) .. fresh /\ IsFiniteSet(Outstanding)
      /\ fresh \in Nat /\ base \in Nat
  BY <1>0, OutIs DEF SenderIs
<1>2. PICK T : T = Outstanding \cup (fresh + 1) .. (x - 1)  OBVIOUS
<1>3. IsFiniteSet(T) /\ T \subseteq Nat
  <2>1. IsFiniteSet((fresh + 1) .. (x - 1))  BY <1>1, FS_Interval
  <2>2. IsFiniteSet(T)  BY <2>1, <1>1, <1>2, FS_Union
  <2> QED BY <2>2, <1>1, <1>2
<1>4. PICK w, v : /\ w = Window(Number(x)) /\ w \in 0 .. (Windows - 1)
                  /\ v = (w + Windows - 1) % Windows /\ v \in 0 .. (Windows - 1)
  <2>1. Window(Number(x)) \in 0 .. (Windows - 1)  BY NumberIs
  <2>2. \A a \in 0 .. (Windows - 1) : (a + Windows - 1) % Windows \in 0 .. (Windows - 1)  
    <3>1. PICK b \in Nat \ {0} : b = Windows /\ b - 1 \in Nat  BY Sizes
    <3>2. ASSUME NEW a \in 0 .. (b - 1) PROVE (a + b - 1) % b \in 0 .. (b - 1)
      <4>1. PICK c \in Nat : c = a + b - 1  BY <3>1
      <4>2. c % b \in 0 .. (b - 1)  BY DivMod
      <4> QED BY <4>1, <4>2
    <3> QED BY <3>1, <3>2
  <2> QED BY <2>1, <2>2
<1>5. Number(x) % WindowSize = 0  BY NumberIs
<1>6. /\ ~(Count(p, j, v) >= WindowSize)
      /\ ~(Count(p, j, w) > 0)
  <2>1. ~(\/ Count(p, j, v) >= WindowSize
          \/ \E f \in w .. (w + FreeWindows - 1) : f < Windows /\ Count(p, j, f) > 0)
    BY <1>4, <1>5 DEF Blocked
  <2>2. w \in w .. (w + FreeWindows - 1) /\ w < Windows
    <3>1. PICK F \in Nat, V \in Nat : F = FreeWindows /\ V = Windows /\ F >= 3  BY Sizes
    <3> QED BY <3>1, <1>4
  <2> QED BY <2>1, <2>2
<1>7. Count(p, j, v) = Cardinality(InWindow(T, v)) /\ Count(p, j, w) = Cardinality(InWindow(T, w))
  BY <1>2, <1>4, CountIs
<1>8. IsFiniteSet(InWindow(T, v)) /\ IsFiniteSet(InWindow(T, w))
  <2>1. InWindow(T, v) \subseteq T /\ InWindow(T, w) \subseteq T  BY DEF InWindow
  <2> QED BY <2>1, <1>3, FS_Subset
<1>9. Cardinality(InWindow(T, w)) = 0 /\ InWindow(T, w) = {}
  <2>1. Cardinality(InWindow(T, w)) \in Nat  BY <1>8, FS_CardinalityType
  <2>2. Cardinality(InWindow(T, w)) = 0  BY <2>1, <1>6, <1>7
  <2> QED BY <2>2, <1>8, FS_EmptySet
<1>10. \A n \in T : Window(Number(n)) # w  BY <1>9 DEF InWindow
<1>11. \E n \in (x - WindowSize) .. (x - 1) : n \notin T
  <2> SUFFICES ASSUME \A n \in (x - WindowSize) .. (x - 1) : n \in T PROVE FALSE
    OBVIOUS
  <2>1. x \in Nat \ {0}  BY <1>1
  <2>2. \A n \in (x - WindowSize) .. (x - 1) : Window(Number(n)) = v
    BY <2>1, <1>4, LastWindow
  <2>3. (x - WindowSize) .. (x - 1) \subseteq InWindow(T, v)  BY <2>2 DEF InWindow
  <2>4. PICK W \in Nat \ {0}, y \in Nat : W = WindowSize /\ y = x - W
    <3>1. WindowSize \in Nat \ {0}  BY Sizes
    <3>2. x - 1 \in (x - WindowSize) .. (x - 1)  BY <3>1, <2>1
    <3>3. x - WindowSize \in Nat  BY <3>2, <2>1, LastWindow
    <3> QED BY <3>1, <3>3
  <2>5. Cardinality(y .. (x - 1)) = W
    <3>1. y <= x - 1 /\ x - 1 \in Int /\ (x - 1) - y + 1 = W  BY <2>4
    <3> QED BY <3>1, Interval
  <2>6. Cardinality(y .. (x - 1)) <= Cardinality(InWindow(T, v))
    BY <2>3, <2>4, <1>8, FS_Subset
  <2>7. Cardinality(InWindow(T, v)) \in Nat  BY <1>8, FS_CardinalityType
  <2> QED BY <2>4, <2>5, <2>6, <2>7, <1>6, <1>7
<1> QED BY <1>2, <1>4, <1>10, <1>11

LEMMA TopIs ==
  ASSUME EType
  PROVE  /\ base \in Nat /\ Top \in Nat /\ base <= Top /\ queued \in Nat
         /\ Top < Start(PacketCount + 1)
         /\ \A n \in Nat : n > base /\ n <= Top => n \in Commands /\ Length(n) \in Nat
<1>1. base \in Nat /\ base \in Bases  BY BaseIs DEF EType
<1>2. queued \in 0 .. PacketCount /\ PacketCount \in Nat  BY StartsAre DEF EType
<1>3. PICK s \in Nat, t \in Nat : s = Start(queued + 1) /\ t = Start(PacketCount + 1) /\ s <= t /\ s > base
  <2>1. queued + 1 \in 1 .. (PacketCount + 1) /\ PacketCount + 1 \in 1 .. (PacketCount + 1)
    BY <1>2
  <2>2. Start(queued + 1) \in Nat /\ Start(PacketCount + 1) \in Nat /\ Start(queued + 1) > base
    BY <2>1, <1>1, StartIs
  <2>3. queued = PacketCount \/ queued + 1 < PacketCount + 1  BY <1>2
  <2>4. Start(queued + 1) <= Start(PacketCount + 1)
    BY <2>1, <2>2, <2>3, <1>1, StartIs
  <2> QED BY <2>2, <2>4
<1>4. Top = s - 1 BY <1>3 DEF Top
<1>5. Top \in Nat /\ base <= Top /\ Top < Start(PacketCount + 1)  BY <1>1, <1>3, <1>4
<1>6. ASSUME NEW n \in Nat, n > base, n <= Top PROVE n \in Commands /\ Length(n) \in Nat
  <2>1. n < Start(PacketCount + 1)  BY <1>6, <1>5, <1>3
  <2> QED BY <2>1, <1>6, <1>1, CommandIs, CommandsAre
<1> QED BY <1>1, <1>2, <1>5, <1>6

LEMMA FitIs ==
  ASSUME NEW x \in Int
  PROVE  Fit(x) \in 0 .. (UintRange - 1)
<1>1. PICK l \in Limits : TRUE  BY BoundAssumption
<1>2. l \in Nat /\ UintRange \in Nat /\ 2 * l < UintRange  BY <1>1, BoundAssumption
<1>3. PICK u \in Nat \ {0} : u = UintRange  BY <1>2
<1>4. x % u \in 0 .. (u - 1)  OBVIOUS
<1> QED BY <1>3, <1>4 DEF Fit

LEMMA SumFits ==
  ASSUME EType, NEW S, S \subseteq (base + 1) .. Top
  PROVE  MapThenSumSet(Length, S) \in Int
<1>1. base \in Nat /\ Top \in Nat  BY TopIs
<1>2. IsFiniteSet(S)
  <2>1. IsFiniteSet((base + 1) .. Top)  BY <1>1, FS_Interval
  <2> QED BY <2>1, FS_Subset
<1>3. \A n \in S : Length(n) \in Int  
  <2>1. \A n \in S : n \in Nat /\ n > base /\ n <= Top  BY <1>1
  <2> QED BY <2>1, TopIs
<1> QED BY <1>2, <1>3, SumIsInt

\* What the sender's half of a pass does: it sends A, and g is the last of it.
Passes(g, A) ==
  /\ g \in Nat /\ fresh <= g /\ g <= Top /\ A \subseteq (base + 1) .. g
  /\ fresh' = g
  /\ data' = Young(data \cup A, g) /\ answers' = Young(answers, g)
  /\ Sparse(Outstanding, fresh, g)
  /\ Queues(base, Top, sent', outgoing', g)
  /\ Outstanding' = Outstanding \cup (fresh + 1) .. g
  /\ windows' = CountOf(Outstanding \cup (fresh + 1) .. g)
  /\ transit' \in 0 .. (UintRange - 1)
  /\ UNCHANGED <<base, queued, limit, open, receiver>>

\* A pass keeps what is true of the sender.
LEMMA ServiceIs ==
  ASSUME EType, SenderIs, NEW due, due \subseteq ToSet(sent), Service(due)
  PROVE  \E g, A : Passes(g, A)
<1>1. PICK p, k, i :
         /\ p = Requeue(due)
         /\ k \in IF SocketFails THEN 1..Len(p.outgoing) ELSE {Len(p.outgoing)}
         /\ i = Gone(p, k)
         /\ outgoing' = SubSeq(p.outgoing, i + 1, Len(p.outgoing))
         /\ sent' = p.sent \o SubSeq(p.outgoing, 1, i)
         /\ fresh' = Max(First(p, i) \cup {fresh})
         /\ windows' = [w \in DOMAIN windows |-> Count(p, i, w)]
         /\ transit' = InTransit(p, i)
         /\ data' = Young(data \cup First(p, i), fresh')
         /\ answers' = Young(answers, fresh')
  BY DEF Service
<1>2. PICK Q : Q = Only(sent, due) \o outgoing  OBVIOUS
<1>3. /\ p.outgoing = Q /\ p.sent = Only(sent, ToSet(sent) \ due)
      /\ p.transit = Fit(transit - MapThenSumSet(Length, due))
  BY <1>1, <1>2 DEF Requeue
<1>4. /\ Queues(base, Top, sent, outgoing, fresh) /\ Span(Outstanding, fresh)
      /\ windows = CountOf(Outstanding)
  BY DEF SenderIs
<1>5. PICK m : m = Len(Only(sent, due)) + Len(outgoing) - (Top - fresh)  OBVIOUS
<1>6. Q \in Seq(Nat)
  <2>1. sent \in Seq(Nat) /\ outgoing \in Seq(Nat)  BY <1>4, OutIs
  <2>2. Only(sent, due) \in Seq(Nat)  BY <2>1, OnlyElements
  <2> QED BY <2>1, <2>2, <1>2, ConcatSet
<1>7. k \in Nat /\ k <= Len(Q)
  <2>1. Len(Q) \in Nat  BY <1>6
  <2> QED BY <2>1, <1>1, <1>3
<1>8. i \in 0 .. k /\ \A j \in 0 .. (i - 1) : MayGo(p, j)
  BY <1>1, <1>7, GoneIs
<1>9. PICK l \in Nat : l = Len(Q) /\ i \in 0 .. l  
  <2>1. Len(Q) \in Nat  BY <1>6
  <2> QED BY <2>1, <1>7, <1>8
<1>10. PICK g : g = After(m, fresh, i)  OBVIOUS
<1>11. sent' = Only(sent, ToSet(sent) \ due) \o Firsts(Q, i) /\ outgoing' = Rest(Q, i)
  BY <1>1, <1>3 DEF Firsts, Rest
<1>12. Pass(base, Top, sent, outgoing, fresh, due, Q, m, i, g, sent', outgoing')
  BY <1>2, <1>4, <1>5, <1>9, <1>10, <1>11 DEF Pass
<1>13. /\ Ends(Q, m, fresh) /\ \A n \in ToSet(Q) : n > base
       /\ Queues(base, Top, sent', outgoing', g)
       /\ OutOf(sent', outgoing', g) = OutOf(sent, outgoing, fresh) \cup (fresh + 1) .. g
  BY <1>12, Passed
<1>14. \A j \in 0 .. l : /\ First(p, j) = ToSet(Firsts(Q, j)) /\ First(p, j) \subseteq Nat
                         /\ Reaches(First(p, j), fresh, After(m, fresh, j))
  <2> SUFFICES ASSUME NEW j \in 0 .. l
               PROVE  /\ First(p, j) = ToSet(Firsts(Q, j)) /\ First(p, j) \subseteq Nat
                      /\ Reaches(First(p, j), fresh, After(m, fresh, j))
    OBVIOUS
  <2>1. First(p, j) = ToSet(Firsts(Q, j))  BY <1>3 DEF First, Firsts
  <2>2. j \in 0 .. Len(Q)  BY <1>9
  <2>3. Goes(Q, m, fresh, j)  BY <1>13, <2>2 DEF Goes
  <2>4. ToSet(Firsts(Q, j)) \subseteq Nat  BY <1>6, <2>2, Prefix
  <2>5. PICK h : h = After(m, fresh, j)  OBVIOUS
  <2>6. PICK A : A = ToSet(Firsts(Q, j))  OBVIOUS
  <2>7. Reaches(A, fresh, h)  BY <2>3, <2>5, <2>6, GoneSet
  <2> QED BY <2>1, <2>4, <2>5, <2>6, <2>7
<1>15. PICK A : A = First(p, i)  OBVIOUS
<1>16. Reaches(A, fresh, g) /\ A \subseteq Nat /\ A = ToSet(Firsts(Q, i)) BY <1>9, <1>10, <1>14, <1>15
<1>17. /\ g \in Nat /\ fresh <= g /\ Max(A \cup {fresh}) = g /\ \A n \in A : n <= g
  BY <1>16 DEF Reaches
<1>18. fresh' = g  BY <1>1, <1>15, <1>17
<1>19. g <= Top  BY <1>13 DEF Queues
<1>20. A \subseteq (base + 1) .. g
  <2>1. ASSUME NEW n \in A PROVE n > base
    <3>1. PICK j \in 1 .. i : Q[j] = n  BY <1>6, <1>9, <1>16, <2>1, Prefix
    <3>2. j \in 1 .. Len(Q)  BY <1>9
    <3>3. n \in ToSet(Q)  BY <1>6, <3>1, <3>2, InToSet
    <3> QED BY <3>3, <1>13
  <2>2. base \in Nat  BY TopIs
  <2> QED BY <2>1, <2>2, <1>16, <1>17
<1>21. Outstanding' = Outstanding \cup (fresh + 1) .. g
  <2>1. Outstanding' = OutOf(sent', outgoing', g)  BY <1>18 DEF Outstanding, OutOf
  <2>2. Outstanding = OutOf(sent, outgoing, fresh)  BY DEF Outstanding, OutOf
  <2> QED BY <2>1, <2>2, <1>13
<1>22. windows' = CountOf(Outstanding \cup (fresh + 1) .. g)
  <2>1. DOMAIN windows = 0 .. (Windows - 1)  BY <1>4 DEF CountOf
  <2>2. \A w \in 0 .. (Windows - 1) :
          Count(p, i, w) = Cardinality(InWindow(Outstanding \cup (fresh + 1) .. g, w))
    BY ZenonT(30), <1>15, <1>16, CountIs
  <2> QED BY <2>1, <2>2, <1>1 DEF CountOf
<1>23. Sparse(Outstanding, fresh, g)
  <2> SUFFICES ASSUME NEW x \in (fresh + 1) .. g, x % WindowSize = 0
               PROVE /\ \A n \in Outstanding \cup (fresh + 1) .. (x - 1) : Window(Number(n)) # Window(Number(x))
                     /\ \E n \in (x - WindowSize) .. (x - 1) : n \notin Outstanding \cup (fresh + 1) .. (x - 1)
    BY DEF Sparse
  <2>1. fresh \in Nat /\ m \in 0 .. l
    BY <1>13, <1>9 DEF Ends
  <2>2. i > m /\ g = fresh + (i - m)
    <3>1. ~(i <= m)  BY <1>10, <1>17, <2>1 DEF After
    <3> QED BY <3>1, <1>9, <1>10, <2>1 DEF After
  <2>3. PICK j \in 0 .. (i - 1) : j = m + (x - fresh) - 1 /\ j + 1 \in (m + 1) .. l
    <3>1. m + (x - fresh) - 1 \in 0 .. (i - 1) /\ m + (x - fresh) - 1 + 1 \in (m + 1) .. l
      BY <2>1, <2>2, <1>9
    <3> QED BY <3>1
  <2>4. Q[j + 1] = x
    <3>1. Q[j + 1] = fresh + ((j + 1) - m)  BY <1>13, <1>9, <2>3 DEF Ends
    <3>2. fresh + ((j + 1) - m) = x  BY <2>1, <2>2, <2>3, <1>17
    <3> QED BY <3>1, <3>2
  <2>5. After(m, fresh, j) = x - 1  BY <2>1, <2>2, <2>3, <1>17 DEF After
  <2>6. MayGo(p, j)  BY <1>8, <2>3
  <2>7. ~Blocked(p, j, x)  BY <2>4, <2>6, <1>3 DEF MayGo
  <2>8. j \in 0 .. l  BY <2>3, <1>9
  <2>9. First(p, j) \subseteq Nat /\ Reaches(First(p, j), fresh, x - 1)  BY <2>5, <2>8, <1>14
  <2>10. x \in Nat /\ x > fresh  BY <2>1, <1>17
  <2> QED BY <2>7, <2>9, <2>10, MayGoIs
<1>24. transit' \in 0 .. (UintRange - 1)
  <2>1. ToSet(sent) \subseteq (base + 1) .. fresh /\ fresh \in base .. Top  BY <1>4 DEF Queues
  <2>2. base \in Nat /\ Top \in Nat  BY TopIs
  <2>3. due \subseteq (base + 1) .. Top  BY <2>1, <2>2
  <2>4. MapThenSumSet(Length, due) \in Int  BY <2>3, SumFits
  <2>5. A \subseteq (base + 1) .. Top  BY <1>17, <1>19, <1>20, <2>2
  <2>6. MapThenSumSet(Length, A) \in Int  BY <2>5, SumFits
  <2>7. transit - MapThenSumSet(Length, due) \in Int  
    <3>1. UintRange \in Nat /\ transit \in 0 .. (UintRange - 1)  BY BoundAssumption DEF EType
    <3> QED BY <3>1, <2>4
  <2>8. p.transit \in Int  BY <2>7, <1>3, FitIs
  <2>9. p.transit + MapThenSumSet(Length, A) \in Int  BY <2>6, <2>8
  <2> QED BY <2>9, <1>1, <1>15, FitIs DEF InTransit
<1>25. UNCHANGED <<base, queued, limit, open, receiver>>  BY DEF Service
<1>26. data' = Young(data \cup A, g) /\ answers' = Young(answers, g)
  BY <1>1, <1>15, <1>18
<1>27. Passes(g, A)
  BY <1>13, <1>17, <1>18, <1>19, <1>20, <1>21, <1>22, <1>23, <1>24, <1>25, <1>26 DEF Passes
<1> QED BY <1>17, <1>27

-----------------------------------------------------------------------------
(* An answer names one outstanding command, and removes it.                *)

LEMMA SpanLess ==
  ASSUME NEW n \in Nat, NEW fr \in Nat, Era(fr) < Era(n) + Windows
  PROVE  fr - n < Modulus
<1>1. PICK a \in Nat, b \in Nat, V \in Nat, W \in Nat \ {0} :
        a = Era(fr) /\ b = Era(n) /\ V = Windows /\ W = WindowSize
  BY EraIs, Sizes
<1>2. a < b + V  BY <1>1
<1>3. PICK x \in Nat, y \in Nat, z \in Nat : x = a * W /\ y = b * W /\ z = V * W
  BY <1>1
<1>4. fr < x + W /\ y <= n  BY <1>1, <1>3, EraIs
<1>5. x + W <= y + z
  <2>1. a + 1 <= b + V  BY <1>2
  <2>2. (a + 1) * W <= (b + V) * W  BY <2>1
  <2>3. (a + 1) * W = a * W + W /\ (b + V) * W = b * W + V * W  OBVIOUS
  <2> QED BY <2>2, <2>3, <1>3
<1>6. Modulus = z  BY <1>1, <1>3, Sizes
<1> QED BY <1>4, <1>5, <1>6

LEMMA AgeIs == MaxAge \in Nat /\ MaxAge + WindowSize <= FreeWindows * WindowSize
               /\ FreeWindows * WindowSize \in Nat /\ Modulus = 2 * (FreeWindows * WindowSize)
<1>1. PICK F \in Nat, W \in Nat : F = FreeWindows /\ W = WindowSize /\ F >= 3  BY Sizes
<1>2. PICK x \in Nat : x = F * W  OBVIOUS
<1>3. (F - 1) * W = x - W  BY <1>2
<1>4. MaxAge \in Nat /\ MaxAge <= x - W  BY <1>1, <1>3, BoundAssumption
<1>5. (2 * F) * W = 2 * x  BY <1>2
<1>6. Modulus = 2 * x  BY <1>1, <1>5, Sizes
<1> QED BY <1>1, <1>2, <1>4, <1>6

\* A number that is acknowledged is outstanding in one command at most, the one
\* the answer is to.
LEMMA AnsweredIs ==
  ASSUME SenderIs, NEW m \in Nat, m <= fresh, m > fresh - MaxAge
  PROVE  Answered(Number(m)) = Outstanding \cap {m}
<1>0. Outstanding = OutOf(sent, outgoing, fresh)  BY DEF Outstanding, OutOf
<1>1. /\ Outstanding \subseteq (base + 1) .. fresh
      /\ fresh \in Nat /\ base \in Nat
  BY <1>0, OutIs DEF SenderIs
<1>2. ASSUME NEW n \in Outstanding, Number(n) = Number(m) PROVE n = m
  <2>1. n \in Nat /\ n <= fresh  BY <1>1
  <2>2. fresh - n < Modulus
    <3>1. Era(fresh) < Era(n) + Windows  BY DEF SenderIs, Span
    <3> QED BY <3>1, <2>1, <1>1, SpanLess
  <2>3. PICK M \in Nat : M = Modulus BY Sizes
  <2>4. MaxAge \in Nat /\ MaxAge < M
    <3>1. PICK x \in Nat, W \in Nat \ {0} : x = FreeWindows * WindowSize /\ W = WindowSize
      BY AgeIs, Sizes
    <3>2. MaxAge \in Nat /\ MaxAge + W <= x /\ M = 2 * x BY <3>1, <2>3, AgeIs
    <3> QED BY <3>1, <3>2
  <2>5. m - n < Modulus /\ n - m < Modulus
    BY <2>1, <2>2, <2>3, <2>4, <1>1
  <2> QED BY <2>1, <2>5, <1>2, SameNumber
<1> QED BY <1>2 DEF Answered

\* m leaves the queues.
LEMMA OnlyQueues ==
  ASSUME NEW b, NEW t, NEW s, NEW o, NEW fr, Queues(b, t, s, o, fr), NEW m \in Nat, m <= fr
  PROVE  /\ Queues(b, t, Only(s, ToSet(s) \ {m}), Only(o, ToSet(o) \ {m}), fr)
         /\ OutOf(Only(s, ToSet(s) \ {m}), Only(o, ToSet(o) \ {m}), fr) = OutOf(s, o, fr) \ {m}
<1>1. /\ b \in Nat /\ t \in Nat /\ fr \in b .. t /\ t - fr <= Len(o)
      /\ Ends(o, Len(o) - (t - fr), fr) /\ s \in Seq(Nat)
      /\ ToSet(s) \subseteq (b + 1) .. fr /\ \A n \in ToSet(o) : n > b
  BY DEF Queues
<1>2. o \in Seq(Nat)  BY <1>1 DEF Ends
<1>3. PICK D, O : D = ToSet(o) \ {m} /\ O = Only(o, D)  OBVIOUS
<1>4. PICK S : S = Only(s, ToSet(s) \ {m})  OBVIOUS
<1>5. S \in Seq(Nat) /\ ToSet(S) = ToSet(s) \cap (ToSet(s) \ {m})
  BY <1>1, <1>4, OnlyElements
<1>6. O \in Seq(Nat) /\ ToSet(O) = ToSet(o) \cap D  BY <1>2, <1>3, OnlyElements
<1>7. PICK r \in Nat, l \in Nat : r = t - fr /\ l = Len(o) /\ r <= l
  <2>1. t - fr \in Nat /\ Len(o) \in Nat  BY <1>1, <1>2
  <2> QED BY <2>1, <1>1
<1>8. \A i \in 1 .. l : i > l - r => o[i] \in D /\ o[i] = fr + (i - (l - r))
  <2> SUFFICES ASSUME NEW i \in 1 .. l, i > l - r PROVE o[i] \in D /\ o[i] = fr + (i - (l - r))
    OBVIOUS
  <2>1. i \in (l - r + 1) .. l  BY <1>7
  <2>2. o[i] = fr + (i - (l - r))  BY <2>1, <1>1, <1>7 DEF Ends
  <2>3. o[i] # m  
    <3>1. fr \in Nat  BY <1>1
    <3>2. fr + (i - (l - r)) > fr  BY <3>1, <1>7
    <3> QED BY <3>1, <3>2, <2>2
  <2>4. o[i] \in ToSet(o)  BY <1>2, <1>7, InToSet
  <2> QED BY <2>2, <2>3, <2>4, <1>3
<1>9. PICK h \in Nat :
        /\ O \in Seq(Nat) /\ Len(O) = h + r
        /\ \A i \in 1 .. h : \E j \in 1 .. (l - r) : O[i] = o[j] /\ o[j] \in D
        /\ \A i \in 1 .. r : O[h + i] = o[l - r + i]
  <2>1. r \in 0 .. Len(o)  BY <1>7
  <2>2. TailIn(o, D, r)  BY <2>1, <1>7, <1>8 DEF TailIn
  <2>3. TailKept(O, o, D, r)  BY <2>2, <1>2, <1>3, OnlyTail
  <2> QED BY <2>3, <1>6, <1>7 DEF TailKept
<1>10. Ends(O, h, fr)
  <2>1. fr \in Nat /\ h \in 0 .. Len(O)  BY <1>1, <1>9
  <2>2. ASSUME NEW j \in 1 .. h PROVE O[j] <= fr
    <3>1. PICK e \in 1 .. (l - r) : O[j] = o[e]  BY <1>9
    <3>2. o[e] <= fr  BY <1>1, <1>7 DEF Ends
    <3> QED BY <3>1, <3>2
  <2>3. ASSUME NEW j \in (h + 1) .. Len(O) PROVE O[j] = fr + (j - h)
    <3>1. PICK e \in 1 .. r : j = h + e
      <4>1. j - h \in 1 .. r /\ j = h + (j - h)  BY <1>9
      <4> QED BY <4>1
    <3>2. O[j] = o[l - r + e]  BY <3>1, <1>9
    <3>3. l - r + e \in 1 .. l /\ l - r + e > l - r  BY <1>7
    <3>4. o[l - r + e] = fr + ((l - r + e) - (l - r))  BY <3>3, <1>8
    <3>5. (l - r + e) - (l - r) = j - h  BY <3>1, <1>7
    <3> QED BY <3>2, <3>4, <3>5
  <2> QED BY <2>1, <2>2, <2>3, <1>9 DEF Ends
<1>11. Queues(b, t, S, O, fr)
  <2>1. Len(O) - (t - fr) = h /\ t - fr <= Len(O)  BY <1>9, <1>7
  <2>2. ToSet(S) \subseteq (b + 1) .. fr  BY <1>5, <1>1
  <2>3. \A n \in ToSet(O) : n > b  BY <1>6, <1>1
  <2> QED BY <2>1, <2>2, <2>3, <1>1, <1>5, <1>10 DEF Queues
<1>12. OutOf(S, O, fr) = OutOf(s, o, fr) \ {m}
  <2>1. OutOf(s, o, fr) = ToSet(s) \cup {n \in ToSet(o) : n <= fr}  BY OutIs
  <2>2. OutOf(S, O, fr) = ToSet(S) \cup {n \in ToSet(O) : n <= fr}  BY <1>11, OutIs
  <2> QED BY <2>1, <2>2, <1>3, <1>5, <1>6
<1> QED BY <1>3, <1>4, <1>11, <1>12

\* One command less in its window.
LEMMA CountLess ==
  ASSUME NEW S, IsFiniteSet(S), S \subseteq Nat, NEW m \in S, windows = CountOf(S)
  PROVE  [windows EXCEPT ![Window(Number(m))] = Left(Window(Number(m)))] = CountOf(S \ {m})
<1>1. PICK v : v = Window(Number(m))  OBVIOUS
<1>2. v \in 0 .. (Windows - 1)  BY <1>1, NumberIs
<1>3. /\ IsFiniteSet(InWindow(S, v)) /\ m \in InWindow(S, v)
      /\ InWindow(S \ {m}, v) = InWindow(S, v) \ {m}
  <2>1. InWindow(S, v) \subseteq S  BY DEF InWindow
  <2>2. IsFiniteSet(InWindow(S, v))  BY <2>1, FS_Subset
  <2> QED BY <2>2, <1>1 DEF InWindow
<1>4. Cardinality(InWindow(S \ {m}, v)) = Cardinality(InWindow(S, v)) - 1
  BY <1>3, FS_RemoveElement
<1>5. windows[v] = Cardinality(InWindow(S, v))  BY <1>2 DEF CountOf
<1>6. windows[v] > 0
  <2>1. Cardinality(InWindow(S, v)) \in Nat  BY <1>3, FS_CardinalityType
  <2>2. Cardinality(InWindow(S, v)) # 0  BY <1>3, FS_EmptySet
  <2> QED BY <2>1, <2>2, <1>5
<1>7. Left(v) = Cardinality(InWindow(S \ {m}, v))  BY <1>4, <1>5, <1>6 DEF Left
<1>8. \A w \in 0 .. (Windows - 1) : w # v => InWindow(S \ {m}, w) = InWindow(S, w)
  BY <1>1 DEF InWindow
<1>9. windows = [w \in 0 .. (Windows - 1) |-> Cardinality(InWindow(S, w))]  BY DEF CountOf
<1>10. [windows EXCEPT ![v] = Left(v)] = [w \in 0 .. (Windows - 1) |-> Cardinality(InWindow(S \ {m}, w))]
  BY <1>2, <1>7, <1>8, <1>9
<1> QED BY <1>1, <1>10 DEF CountOf

\* What an answer to m does.
Acks(m) ==
  /\ Queues(base, Top, sent', outgoing', fresh)
  /\ Outstanding' = Outstanding \ {m}
  /\ windows' = CountOf(Outstanding \ {m})
  /\ transit' \in 0 .. (UintRange - 1)
  /\ UNCHANGED <<base, queued, fresh, limit, open, data, answers, receiver>>

\* An answer keeps what is true of the sender.
LEMMA AcknowledgeIs ==
  ASSUME EType, SenderIs, NEW m \in Nat, m > base, m <= fresh, m > fresh - MaxAge,
         HandleAcknowledge(m)
  PROVE  Acks(m)
<1>0. Outstanding = OutOf(sent, outgoing, fresh)  BY DEF Outstanding, OutOf
<1>1. /\ Queues(base, Top, sent, outgoing, fresh) /\ windows = CountOf(Outstanding)
  BY DEF SenderIs
<1>2. /\ Outstanding \subseteq (base + 1) .. fresh /\ IsFiniteSet(Outstanding)
      /\ fresh \in Nat /\ base \in Nat
  BY <1>0, <1>1, OutIs
<1>3. Answered(Number(m)) = Outstanding \cap {m}  BY AnsweredIs
<1>4. UNCHANGED <<base, queued, fresh, limit, open, data, answers, receiver>>
  BY DEF HandleAcknowledge
<1>5. CASE m \notin Outstanding
  <2>1. UNCHANGED <<outgoing, sent, windows, transit>>  BY <1>3, <1>5 DEF HandleAcknowledge
  <2>2. Outstanding' = Outstanding  BY <2>1, <1>4 DEF Outstanding
  <2>3. Outstanding \ {m} = Outstanding  BY <1>5
  <2>4. transit \in 0 .. (UintRange - 1)  BY DEF EType
  <2>5. /\ Outstanding' = Outstanding \ {m} /\ windows' = CountOf(Outstanding \ {m})
        /\ transit' \in 0 .. (UintRange - 1)
    BY <2>1, <2>2, <2>3, <2>4, <1>1
  <2>6. Queues(base, Top, sent', outgoing', fresh)  BY <2>1, <1>1
  <2> QED BY <2>5, <2>6, <1>4 DEF Acks
<1>6. CASE m \in Outstanding
  <2>1. /\ outgoing' = Only(outgoing, ToSet(outgoing) \ {m})
        /\ sent' = Only(sent, ToSet(sent) \ {m})
        /\ windows' = [windows EXCEPT ![Window(Number(m))] = Left(Window(Number(m)))]
        /\ transit' = Fit(transit - Length(m))
    <3>1. Answered(Number(m)) = {m}  BY <1>3, <1>6
    <3> QED BY <3>1 DEF HandleAcknowledge
  <2>2. /\ Queues(base, Top, sent', outgoing', fresh)
        /\ OutOf(sent', outgoing', fresh) = OutOf(sent, outgoing, fresh) \ {m}
    BY <2>1, <1>1, OnlyQueues
  <2>3. Outstanding' = Outstanding \ {m}
    <3>1. Outstanding' = OutOf(sent', outgoing', fresh)  BY <1>4 DEF Outstanding, OutOf
    <3> QED BY <3>1, <2>2, <1>0
  <2>4. windows' = CountOf(Outstanding \ {m})
    <3>1. Outstanding \subseteq Nat  BY <1>2
    <3>2. PICK S : S = Outstanding  OBVIOUS
    <3>3. [windows EXCEPT ![Window(Number(m))] = Left(Window(Number(m)))] = CountOf(S \ {m})
      BY <3>1, <3>2, <1>1, <1>2, <1>6, CountLess
    <3> QED BY <3>2, <3>3, <2>1
  <2>5. transit' \in 0 .. (UintRange - 1)
    <3>1. fresh <= Top /\ Top \in Nat  BY <1>1 DEF Queues
    <3>2. m <= Top  BY <3>1, <1>2
    <3>3. Length(m) \in Nat  BY <3>2, TopIs
    <3>4. UintRange \in Nat /\ transit \in 0 .. (UintRange - 1)  BY BoundAssumption DEF EType
    <3>5. transit - Length(m) \in Int  BY <3>3, <3>4
    <3> QED BY <3>5, <2>1, FitIs
  <2> QED BY <2>2, <2>3, <2>4, <2>5, <1>4 DEF Acks
<1> QED BY <1>5, <1>6

\* A packet is queued.
LEMMA PeerSendIs ==
  ASSUME EType, SenderIs, PeerSend
  PROVE  /\ Queues(base, Top', sent', outgoing', fresh) /\ Top <= Top' /\ Top' \in Nat
         /\ Outstanding' = Outstanding
         /\ queued' \in 0 .. PacketCount
<1>1. Queues(base, Top, sent, outgoing, fresh)  BY DEF SenderIs
<1>2. /\ queued' = queued + 1 /\ outgoing' = outgoing \o Content(queued + 1)
      /\ queued < PacketCount /\ queued \in 0 .. PacketCount
      /\ UNCHANGED <<base, sent, fresh>>
  BY DEF PeerSend, EType, PacketCount
<1>3. /\ base \in Nat /\ Top \in Nat /\ base <= Top /\ queued \in Nat  BY TopIs
<1>4. PICK p \in 1 .. PacketCount : p = queued + 1  
  <2>1. queued + 1 \in 1 .. PacketCount  BY <1>2, <1>3, StartsAre
  <2> QED BY <2>1
<1>5. PICK L \in Nat : L = Len(Packets[p]) /\ L \in 1 .. WindowSize /\ Start(p + 1) = Start(p) + L
  <2>1. base \in Bases  BY DEF EType
  <2>2. Start(p + 1) = Start(p) + Len(Packets[p]) /\ Len(Packets[p]) \in 1 .. WindowSize
    BY <2>1, StartIs
  <2> QED BY <2>2, Sizes
<1>6. PICK s \in Nat : s = Start(p)
  <2>1. p \in 1 .. (PacketCount + 1) /\ base \in Bases BY StartsAre DEF EType
  <2> QED BY <2>1, StartIs
<1>7. Top = s - 1 /\ Top' = s - 1 + L
  <2>1. Top = Start(p) - 1  BY <1>4 DEF Top
  <2>2. Top' = (Start(queued + 1))' - 1  BY DEF Top
  <2>3. (Start(queued + 1))' = base' + Starts[queued' + 1]  BY DEF Start
  <2>4. base' + Starts[queued' + 1] = Start(p + 1)  BY <1>2, <1>4 DEF Start
  <2> QED BY <2>1, <2>2, <2>3, <2>4, <1>5, <1>6
<1>8. PICK c : /\ c = Content(p) /\ c \in Seq(Nat) /\ Len(c) = L
               /\ \A i \in 1 .. L : c[i] = s + i - 1
  <2>1. DOMAIN Packets[p] = 1 .. L  BY <1>4, <1>5, StartsAre, PacketAssumption
  <2>2. Content(p) = [i \in 1 .. L |-> s + i - 1]
    <3>1. \A i \in 1 .. L : base + Starts[p] + i - 1 = s + i - 1  BY <1>6 DEF Start
    <3> QED BY <2>1, <3>1 DEF Content
  <2>3. PICK c : c = [i \in 1 .. L |-> s + i - 1]  OBVIOUS
  <2>4. s + L \in Nat /\ \A i \in 1 .. L : s + i - 1 \in Nat  BY <1>6, <1>5
  <2>5. c \in Seq(Nat) /\ Len(c) = L  BY <2>3, <2>4
  <2> QED BY <2>2, <2>3, <2>5
<1>9. /\ fresh \in base .. Top /\ Top - fresh <= Len(outgoing)
      /\ Ends(outgoing, Len(outgoing) - (Top - fresh), fresh) /\ sent \in Seq(Nat)
      /\ ToSet(sent) \subseteq (base + 1) .. fresh /\ \A n \in ToSet(outgoing) : n > base
  BY <1>1 DEF Queues
<1>10. PICK l \in Nat, r \in Nat : l = Len(outgoing) /\ r = Top - fresh /\ r <= l /\ outgoing \in Seq(Nat) /\ fresh \in Nat
  <2>1. outgoing \in Seq(Nat)  BY <1>9 DEF Ends
  <2>2. Top - fresh \in Nat /\ Len(outgoing) \in Nat  BY <1>9, <2>1, <1>3
  <2> QED BY <2>1, <2>2, <1>9, <1>3
<1>11. PICK o : o = outgoing \o c  OBVIOUS
<1>12. /\ o \in Seq(Nat) /\ ToSet(o) = ToSet(outgoing) \cup ToSet(c) /\ Len(o) = l + L
       /\ \A i \in 1 .. l : o[i] = outgoing[i]
       /\ \A i \in 1 .. L : o[l + i] = c[i]
  <2>1. outgoing \in Seq(Nat) /\ c \in Seq(Nat)  BY <1>8, <1>10
  <2>2. o \in Seq(Nat) /\ Joined(o, outgoing, c)  BY <2>1, <1>11, JoinIs
  <2> QED BY <2>2, <1>8, <1>10 DEF Joined
<1>13. \A n \in ToSet(c) : n \in Nat /\ n > Top /\ n > base /\ n > fresh
  <2>1. ASSUME NEW n \in ToSet(c) PROVE n \in Nat /\ n > Top
    <3>1. PICK i \in 1 .. L : c[i] = n  BY <2>1, <1>8, InToSet
    <3>2. n = s + i - 1  BY <3>1, <1>8
    <3> QED BY <3>2, <1>7
  <2> QED BY <2>1, <1>3, <1>9
<1>14. Ends(o, Len(o) - (Top' - fresh), fresh) /\ Top' - fresh <= Len(o)
  <2>1. Top' - fresh = r + L  BY <1>7, <1>10
  <2>2. Len(o) - (Top' - fresh) = l - r  BY <2>1, <1>12
  <2>3. l - r \in 0 .. Len(o)  BY <1>10, <1>12
  <2>4. ASSUME NEW j \in 1 .. (l - r) PROVE o[j] <= fresh
    <3>1. outgoing[j] <= fresh  BY <1>9, <1>10 DEF Ends
    <3>2. j \in 1 .. l  BY <1>10
    <3> QED BY <3>1, <3>2, <1>12
  <2>5. ASSUME NEW j \in (l - r + 1) .. Len(o) PROVE o[j] = fresh + (j - (l - r))
    <3>1. CASE j \in 1 .. l
      <4>1. outgoing[j] = fresh + (j - (l - r))
        <5>1. j \in (l - r + 1) .. l  BY <3>1
        <5> QED BY <5>1, <1>9, <1>10 DEF Ends
      <4> QED BY <4>1, <3>1, <1>12
    <3>2. CASE j > l
      <4>1. PICK i \in 1 .. L : j = l + i
        <5>1. j - l \in 1 .. L /\ j = l + (j - l)  BY <3>2, <1>12
        <5> QED BY <5>1
      <4>2. o[j] = s + i - 1  BY <4>1, <1>8, <1>12
      <4>3. s + i - 1 = fresh + (j - (l - r))  BY <4>1, <1>7, <1>10
      <4> QED BY <4>2, <4>3
    <3> QED BY SMTT(30), <3>1, <3>2, <1>10, <1>12
  <2>6. Ends(o, l - r, fresh)  BY <2>3, <2>4, <2>5, <1>10, <1>12 DEF Ends
  <2>7. Top' - fresh <= Len(o)  BY <2>1, <1>10, <1>12
  <2> QED BY <2>2, <2>6, <2>7
<1>15. Top <= Top' /\ Top' \in Nat  BY SMTT(30), <1>6, <1>7, <1>5, <1>3
<1>16. outgoing' = o /\ sent' = sent /\ fresh' = fresh  BY <1>2, <1>4, <1>8, <1>11
<1>17. Queues(base, Top', sent, o, fresh)
  <2>1. fresh \in base .. Top'  BY <1>9, <1>15, <1>3
  <2>2. \A n \in ToSet(o) : n > base  BY <1>9, <1>12, <1>13
  <2> QED BY <2>1, <2>2, <1>3, <1>9, <1>12, <1>14, <1>15 DEF Queues
<1>18. Outstanding' = Outstanding
  <2>1. Outstanding' = OutOf(sent, o, fresh)  BY <1>16 DEF Outstanding, OutOf
  <2>2. Outstanding = OutOf(sent, outgoing, fresh)  BY DEF Outstanding, OutOf
  <2>3. OutOf(sent, o, fresh) = ToSet(sent) \cup {n \in ToSet(o) : n <= fresh}  BY <1>17, OutIs
  <2>4. OutOf(sent, outgoing, fresh) = ToSet(sent) \cup {n \in ToSet(outgoing) : n <= fresh}
    BY <1>1, OutIs
  <2>5. {n \in ToSet(o) : n <= fresh} = {n \in ToSet(outgoing) : n <= fresh}
    <3>1. \A n \in ToSet(c) : ~(n <= fresh)  BY <1>13, <1>10
    <3> QED BY <3>1, <1>12
  <2> QED BY <2>1, <2>2, <2>3, <2>4, <2>5
<1>19. queued' \in 0 .. PacketCount  BY <1>2, <1>4
<1> QED BY <1>15, <1>16, <1>17, <1>18, <1>19

-----------------------------------------------------------------------------
(* The receiver's test of a number: of the commands under way, those with  *)
(* a number it accepts are those it should, though numbers start over.     *)

\* Where a command n of a packet that begins with s is, seen from r, the last
\* one that came out, when hi is the last one that was sent.
Near(r, hi, s, n) ==
  /\ r \in Nat /\ hi \in Nat /\ r <= hi /\ Era(hi) <= Era(r) + FreeWindows
  /\ n \in Nat /\ n <= hi /\ n > hi - MaxAge
  /\ s \in Nat /\ s <= n /\ n < s + WindowSize

Within(r, x) ==
  /\ r \in Nat /\ x \in Nat /\ x - r < Modulus /\ r - x < Modulus
  /\ Era(x) <= Era(r) + FreeWindows /\ Era(r) <= Era(x) + FreeWindows

LEMMA NearIs ==
  ASSUME NEW r, NEW hi, NEW s, NEW n, Near(r, hi, s, n)
  PROVE  Within(r, s) /\ Within(r, n)
<1>1. /\ r \in Nat /\ hi \in Nat /\ r <= hi /\ Era(hi) <= Era(r) + FreeWindows
      /\ n \in Nat /\ n <= hi /\ n > hi - MaxAge
      /\ s \in Nat /\ s <= n /\ n < s + WindowSize
  BY DEF Near
<1>2. PICK x \in Nat, W \in Nat \ {0} : x = FreeWindows * WindowSize /\ W = WindowSize
  BY AgeIs, Sizes
<1>3. MaxAge \in Nat /\ MaxAge + W <= x /\ Modulus = 2 * x  BY <1>2, AgeIs
<1>4. ASSUME NEW y \in Nat, y <= hi, r < y + x PROVE Within(r, y)
  <2>1. Era(y) <= Era(hi)  BY <1>1, <1>4, EraLess
  <2>2. PICK e \in Nat, f \in Nat, h \in Nat, F \in Nat :
           e = Era(y) /\ f = Era(r) /\ h = Era(hi) /\ F = FreeWindows /\ F >= 3 /\ Windows = 2 * F
    BY <1>1, EraIs, Sizes
  <2>3. e <= f + F  BY <2>1, <2>2, <1>1
  <2>4. y - r < Modulus
    <3>1. Era(y) < Era(r) + Windows  BY <2>2, <2>3
    <3> QED BY <3>1, <1>1, SpanLess
  <2>5. r - y < Modulus  BY <1>1, <1>3, <1>4
  <2>6. f <= e + F
    <3>1. y + FreeWindows * WindowSize \in Nat /\ Era(y + FreeWindows * WindowSize) = Era(y) + FreeWindows
      BY Sizes, EraShift
    <3>2. r <= y + FreeWindows * WindowSize  BY <1>2, <1>4, <1>1
    <3>3. Era(r) <= Era(y + FreeWindows * WindowSize)  BY <3>1, <3>2, <1>1, EraLess
    <3> QED BY <3>1, <3>3, <2>2
  <2> QED BY <2>2, <2>3, <2>4, <2>5, <2>6, <1>1 DEF Within
<1>5. r < n + x /\ r < s + x
  BY <1>1, <1>2, <1>3
<1>6. s <= hi  BY <1>1
<1> QED BY <1>1, <1>4, <1>5, <1>6

\* The windows the receiver takes commands for.
LEMMA AheadWindow ==
  ASSUME NEW r, NEW x, Within(r, x), NEW c, c = Number(r)
  PROVE  /\ (/\ Ahead(Number(x), c) >= Window(c)
             /\ Ahead(Number(x), c) < Window(c) + FreeWindows - 1)
            <=> x >= r /\ Era(x) <= Era(r) + FreeWindows - 2
         /\ x >= r /\ Ahead(Number(x), c) - Window(c) \notin {FreeWindows - 1, FreeWindows}
              => Era(x) <= Era(r) + FreeWindows - 2
<1>1. /\ r \in Nat /\ x \in Nat /\ x - r < Modulus /\ r - x < Modulus
      /\ Era(x) <= Era(r) + FreeWindows /\ Era(r) <= Era(x) + FreeWindows
  BY DEF Within
<1>a. PICK e \in Nat, f \in Nat, F \in Nat :
        e = Era(x) /\ f = Era(r) /\ F = FreeWindows /\ F >= 3 /\ Windows = 2 * F
  BY <1>1, EraIs, Sizes
<1>b. PICK w, a : w = Window(Number(r)) /\ a = Ahead(Number(x), Number(r))
  OBVIOUS
<1>2. /\ e = Era(x) /\ f = Era(r) /\ F = FreeWindows /\ F >= 3 /\ Windows = 2 * F
      /\ w = Window(Number(r)) /\ a = Ahead(Number(x), Number(r))
  BY <1>a, <1>b
<1>3. /\ x >= r => a = w + (e - f)
      /\ x < r => a = w + (e - f) + 2 * F
      /\ w \in Nat
  BY <1>1, <1>2, AheadIs
<1>4. x >= r => e >= f  BY <1>1, <1>2, EraLess
<1>5. e <= f + F /\ f <= e + F  BY <1>1, <1>2
<1>7. (a >= w /\ a < w + F - 1) <=> (x >= r /\ e <= f + F - 2)
  BY <1>1, <1>3, <1>4, <1>5
<1>8. x >= r /\ a - w \notin {F - 1, F} => e <= f + F - 2
  BY <1>1, <1>3, <1>4, <1>5
<1> QED BY <1>2, <1>7, <1>8

LEMMA InReachIs ==
  ASSUME NEW r, NEW x, Within(r, x), current = Number(r)
  PROVE  InReach(Number(x)) <=> x >= r /\ Era(x) <= Era(r) + FreeWindows - 2
BY AheadWindow DEF InReach

\* The order of the list is that of the stream.
LEMMA TestIs ==
  ASSUME NEW r \in Nat, NEW x \in Nat, NEW y \in Nat, r < x, r < y, Within(r, x), Within(r, y)
  PROVE  (IF Number(y) >= Number(r) THEN Number(x) >= Number(r) /\ Number(x) <= Number(y)
                                    ELSE Number(x) >= Number(r) \/ Number(x) <= Number(y))
         <=> x <= y
<1>1. PICK c \in Nat, p \in Nat, q \in Nat, M \in Nat :
        /\ c = Number(r) /\ p = Number(x) /\ q = Number(y) /\ M = Modulus /\ c < M /\ p < M /\ q < M
  BY NumberIs, Sizes
<1>2. x < r + M /\ y < r + M  BY <1>1 DEF Within
<1>3. p = c + (x - r) - (IF p < c THEN M ELSE 0)  BY <1>1, <1>2, InOrder
<1>4. q = c + (y - r) - (IF q < c THEN M ELSE 0)  BY <1>1, <1>2, InOrder
<1>5. (IF q >= c THEN p >= c /\ p <= q ELSE p >= c \/ p <= q) <=> x <= y
  BY <1>1, <1>2, <1>3, <1>4
<1> QED BY <1>1, <1>5

-----------------------------------------------------------------------------
(* The receiver's list: ps gives the packet of each entry of L, in order, and*)
(* an entry holds the commands of its packet that came.                    *)

\* The first command of packet p, and the last one of the first d.
From(b, p) == b + Starts[p]
LastOf(b, d) == From(b, d + 1) - 1

Entries == [seq : Nat, parts : Seq(Nat)]

\* e gathers the parts of packet p, has one at least, and hi is the last command
\* that was sent.
EntryIs(b, e, p, hi) ==
  /\ e.seq = Number(From(b, p)) /\ DOMAIN e.parts = DOMAIN Packets[p]
  /\ \E k \in DOMAIN e.parts : e.parts[k] # Missing
  /\ \A k \in DOMAIN e.parts :
       e.parts[k] # Missing => e.parts[k] = From(b, p) + k - 1 /\ e.parts[k] <= hi

\* L gathers the packets ps, in their order: after the first d, up to packet up
\* and up to the window top.
ListIs(b, L, ps, d, up, top, hi) ==
  /\ L \in Seq(Entries) /\ ps \in Seq(Nat) /\ Len(ps) = Len(L)
  /\ \A i \in 1 .. Len(L) : /\ d < ps[i] /\ ps[i] <= up /\ Era(From(b, ps[i])) <= top
                            /\ EntryIs(b, L[i], ps[i], hi)
  /\ \A i, j \in 1 .. Len(L) : i < j => ps[i] < ps[j]

Inserted(u, s, k, e) ==
  /\ Len(u) = Len(s) + 1
  /\ \A i \in 1 .. k : u[i] = s[i]
  /\ u[k + 1] = e
  /\ \A i \in (k + 1) .. Len(s) : u[i + 1] = s[i]

LEMMA InsertIs ==
  ASSUME NEW X, NEW s \in Seq(X), NEW e \in X, NEW k \in 0 .. Len(s)
  PROVE  InsertAt(s, k + 1, e) \in Seq(X) /\ Inserted(InsertAt(s, k + 1, e), s, k, e)
<1>1. PICK a : a = SubSeq(s, 1, k)  OBVIOUS
<1>1a. a \in Seq(X) /\ Len(a) = k /\ \A i \in 1 .. k : a[i] = s[i]
  BY <1>1
<1>2. PICK l \in Nat : l = Len(s) - k
  <2>1. Len(s) - k \in Nat  OBVIOUS
  <2> QED BY <2>1
<1>3. PICK c : c = SubSeq(s, k + 1, Len(s))  OBVIOUS
<1>3a. c \in Seq(X) /\ Len(c) = l /\ \A i \in 1 .. l : c[i] = s[k + i]
  BY <1>2, <1>3
<1>4. PICK h : h = <<e>>  OBVIOUS
<1>4a. h \in Seq(X) /\ Len(h) = 1 /\ h[1] = e
  BY <1>4
<1>5. PICK t : t = a \o h /\ t \in Seq(X) /\ Joined(t, a, h)  BY <1>1a, <1>4a, JoinIs
<1>6. PICK u : u = t \o c /\ u \in Seq(X) /\ Joined(u, t, c)  BY <1>3a, <1>5, JoinIs
<1>7. InsertAt(s, k + 1, e) = u
  <2>1. SubSeq(s, 1, (k + 1) - 1) = a  BY <1>1
  <2> QED BY <2>1, <1>3, <1>4, <1>5, <1>6 DEF InsertAt
<1>8. /\ Len(t) = k + 1
      /\ \A i \in 1 .. k : t[i] = s[i]
      /\ t[k + 1] = e
  BY <1>1a, <1>4a, <1>5 DEF Joined
<1>9. /\ Len(u) = k + 1 + l
      /\ \A i \in 1 .. (k + 1) : u[i] = t[i]
      /\ \A i \in 1 .. l : u[k + 1 + i] = c[i]
  BY <1>3a, <1>6, <1>8 DEF Joined
<1>10. Len(u) = Len(s) + 1  BY <1>2, <1>9
<1>11. \A i \in 1 .. k : u[i] = s[i]  BY <1>8, <1>9
<1>12. u[k + 1] = e  BY <1>8, <1>9
<1>13. ASSUME NEW i \in (k + 1) .. Len(s) PROVE u[i + 1] = s[i]
  <2>1. PICK j \in 1 .. l : i = k + j
    <3>1. i - k \in 1 .. l /\ i = k + (i - k)  BY <1>2
    <3> QED BY <3>1
  <2>2. u[k + 1 + j] = c[j] /\ c[j] = s[k + j]  BY <1>3a, <1>9
  <2>3. k + 1 + j = i + 1  BY <2>1
  <2> QED BY <2>1, <2>2, <2>3
<1> QED BY <1>6, <1>7, <1>10, <1>11, <1>12, <1>13 DEF Inserted

\* All the packets of the list, and p, are within the reach of r.
LEMMA PlaceIs ==
  ASSUME base \in Bases, NEW r \in Nat, current = Number(r), NEW ps, NEW d, NEW up, NEW top, NEW hi,
         ListIs(base, arrived, ps, d, up, top, hi), up \in 0 .. PacketCount, d \in Nat,
         \A i \in 1 .. Len(arrived) : Within(r, Start(ps[i])) /\ r < Start(ps[i]),
         NEW p \in 1 .. PacketCount, Within(r, Start(p)), r < Start(p)
  PROVE  \E k \in 0 .. Len(arrived) :
            /\ Place(Number(Start(p))) = k
            /\ \A i \in 1 .. k : ps[i] <= p
            /\ \A i \in (k + 1) .. Len(arrived) : ps[i] > p
            /\ There(Number(Start(p))) <=> k > 0 /\ ps[k] = p
<1>1. PICK l \in Nat : l = Len(arrived) /\ ps \in Seq(Nat) /\ Len(ps) = l
  <2>1. arrived \in Seq(Entries) /\ ps \in Seq(Nat) /\ Len(ps) = Len(arrived)  BY DEF ListIs
  <2>2. Len(arrived) \in Nat  BY <2>1
  <2> QED BY <2>1, <2>2
<1>2. PacketCount \in Nat  BY StartsAre
<1>3. \A i \in 1 .. l : ps[i] \in 1 .. PacketCount
  <2>1. \A i \in 1 .. l : ps[i] \in Nat  BY <1>1
  <2>2. \A i \in 1 .. l : d < ps[i] /\ ps[i] <= up  BY <1>1 DEF ListIs
  <2> QED BY <2>1, <2>2, <1>2
<1>4. \A o \in 1 .. PacketCount : o \in 1 .. (PacketCount + 1) /\ Start(o) \in Nat
  <2>1. \A o \in 1 .. PacketCount : o \in 1 .. (PacketCount + 1)  BY <1>2
  <2> QED BY <2>1, StartIs
<1>5. \A o, q \in 1 .. PacketCount : o < q => Start(o) < Start(q)
  BY <1>4, StartIs
<1>6. \A o, q \in 1 .. PacketCount : Start(o) <= Start(q) <=> o <= q
  <2> SUFFICES ASSUME NEW o \in 1 .. PacketCount, NEW q \in 1 .. PacketCount
               PROVE Start(o) <= Start(q) <=> o <= q
    OBVIOUS
  <2>1. o < q \/ o = q \/ q < o  OBVIOUS
  <2> QED BY <2>1, <1>4, <1>5
<1>7. \A i \in 1 .. l : From(base, ps[i]) = Start(ps[i])  BY DEF From, Start
<1>8. \A i \in 1 .. l : arrived[i].seq = Number(Start(ps[i]))
  BY <1>1, <1>7 DEF ListIs, EntryIs
<1>9. PICK q : q = Number(Start(p))  OBVIOUS
<1>10. PICK T : T = {i \in 1 .. l : IF q >= current THEN arrived[i].seq >= current /\ arrived[i].seq <= q
                                                   ELSE arrived[i].seq >= current \/ arrived[i].seq <= q}
  OBVIOUS
<1>11. \A i \in 1 .. l : i \in T <=> ps[i] <= p
  <2> SUFFICES ASSUME NEW i \in 1 .. l PROVE i \in T <=> ps[i] <= p  OBVIOUS
  <2>1. PICK x \in Nat, y \in Nat : x = Start(ps[i]) /\ y = Start(p)  BY <1>3, <1>4
  <2>2. r < x /\ r < y /\ Within(r, x) /\ Within(r, y)  BY <2>1, <1>1
  <2>3. (IF Number(y) >= Number(r) THEN Number(x) >= Number(r) /\ Number(x) <= Number(y)
                                   ELSE Number(x) >= Number(r) \/ Number(x) <= Number(y)) <=> x <= y
    BY <2>2, TestIs
  <2>4. i \in T <=> (IF Number(y) >= Number(r) THEN Number(x) >= Number(r) /\ Number(x) <= Number(y)
                                   ELSE Number(x) >= Number(r) \/ Number(x) <= Number(y))
    BY <2>1, <1>8, <1>9, <1>10
  <2> QED BY <2>1, <2>3, <2>4, <1>3, <1>6
<1>12. Place(q) = IF T # {} THEN Max(T) ELSE 0
  BY <1>1, <1>10 DEF Place, SelectLastInSeq
<1>13. IsFiniteSet(T) /\ T \subseteq Int /\ T \subseteq 1 .. l
  <2>1. T \subseteq 1 .. l  BY <1>10
  <2>2. IsFiniteSet(1 .. l)  BY FS_Interval
  <2>3. IsFiniteSet(T)  BY <2>1, <2>2, FS_Subset
  <2> QED BY <2>1, <2>3
<1>14a. PICK k : k = Place(q)  OBVIOUS
<1>14. /\ k \in 0 .. l /\ Place(q) = k
       /\ \A y \in T : y <= k
       /\ k > 0 => k \in T
  <2>1. CASE T = {}  BY <2>1, <1>1, <1>12, <1>14a
  <2>2. CASE T # {}
    <3>1. Max(T) \in T /\ \A y \in T : Max(T) >= y  BY <2>2, <1>13, MaxIs
    <3>2. k \in T /\ \A y \in T : k >= y  BY <3>1, <2>2, <1>12, <1>14a
    <3>3. k \in 1 .. l /\ \A y \in T : y \in 1 .. l  BY <3>2, <1>13
    <3> QED BY <3>2, <3>3, <1>1, <1>14a
  <2> QED BY <2>1, <2>2
<1>15. \A i \in 1 .. k : ps[i] <= p
  <2> SUFFICES ASSUME NEW i \in 1 .. k PROVE ps[i] <= p  OBVIOUS
  <2>1. k \in T /\ k \in 1 .. l  BY <1>14
  <2>2. ps[k] <= p  BY <2>1, <1>11
  <2>3. i < k => ps[i] < ps[k]  
    <3>1. i \in 1 .. Len(arrived) /\ k \in 1 .. Len(arrived)  BY <2>1, <1>1
    <3> QED BY <3>1 DEF ListIs
  <2>4. ps[i] \in Nat /\ ps[k] \in Nat  BY <2>1, <1>1
  <2>5. i < k \/ i = k  BY <1>1, <1>14
  <2> QED BY <2>2, <2>3, <2>4, <2>5
<1>16. \A i \in (k + 1) .. l : ps[i] > p
  <2> SUFFICES ASSUME NEW i \in (k + 1) .. l PROVE ps[i] > p  OBVIOUS
  <2>1. i \in 1 .. l /\ i \notin T  BY <1>1, <1>14
  <2>2. ps[i] \in Nat  BY <2>1, <1>1
  <2>3. ~(ps[i] <= p)  BY <2>1, <1>11
  <2>4. p \in Nat  BY <1>2
  <2> QED BY <2>2, <2>3, <2>4
<1>17. There(q) <=> k > 0 /\ ps[k] = p
  <2>1. There(q) <=> k > 0 /\ arrived[k].seq = q  BY <1>14 DEF There
  <2>2. ASSUME k > 0 PROVE arrived[k].seq = q <=> ps[k] = p
    <3>1. k \in 1 .. l  BY <2>2, <1>1, <1>14
    <3>2. PICK x \in Nat, y \in Nat : x = Start(ps[k]) /\ y = Start(p)  BY <3>1, <1>3, <1>4
    <3>3. r < x /\ r < y /\ x - r < Modulus /\ y - r < Modulus
      BY <3>1, <3>2, <1>1 DEF Within
    <3>4. x - y < Modulus /\ y - x < Modulus
      <4>1. PICK M \in Nat : M = Modulus  BY Sizes
      <4> QED BY <4>1, <3>3
    <3>5. Number(x) = Number(y) => x = y  BY <3>4, SameNumber
    <3>6. ps[k] \in 1 .. PacketCount  BY <3>1, <1>3
    <3>7. x = y => ps[k] = p
      <4>1. ps[k] < p \/ ps[k] = p \/ p < ps[k]  BY <3>6
      <4>2. ps[k] < p => x < y  BY <3>2, <3>6, <1>5
      <4>3. p < ps[k] => y < x  BY <3>2, <3>6, <1>5
      <4> QED BY <4>1, <4>2, <4>3, <3>2
    <3>8. arrived[k].seq = Number(x)  BY <3>1, <3>2, <1>8
    <3> QED BY <3>2, <3>5, <3>7, <3>8, <1>9
  <2> QED BY <2>1, <2>2
<1> QED BY <1>1, <1>9, <1>14, <1>15, <1>16, <1>17

-----------------------------------------------------------------------------
(* What can be handed out: a beginning of the list that goes on from the last*)
(* command delivered, with no packet missing.                              *)

LEMMA ModAdd ==
  ASSUME NEW x \in Nat, NEW y \in Nat
  PROVE  (Number(x) + y) % Modulus = Number(x + y)
<1>1. PICK M \in Nat \ {0} : M = Modulus  BY Sizes
<1>2. PICK b \in Nat : x = Modulus * b + Number(x)  BY Round
<1>3. PICK c \in Nat : c = Number(x)  BY NumberIs
<1>4. PICK z \in Nat : z = c + y  OBVIOUS
<1>5. PICK e \in Nat, f \in 0 .. (M - 1) : e = z \div M /\ f = z % M /\ z = M * e + f
  BY <1>1, DivMod
<1>6. x + y = M * (b + e) + f
  <2>1. M * (b + e) = M * b + M * e  OBVIOUS
  <2>2. PICK u \in Nat, v \in Nat : u = M * b /\ v = M * e
    <3>1. M * b \in Nat /\ M * e \in Nat  OBVIOUS
    <3> QED BY <3>1
  <2>3. x = u + c  BY <1>1, <1>2, <1>3, <2>2
  <2>4. z = v + f  BY <1>5, <2>2
  <2> QED BY <2>1, <2>2, <2>3, <2>4, <1>4
<1>7. (x + y) % M = f
  <2>1. x + y \in Nat /\ b + e \in Nat  OBVIOUS
  <2> QED BY <1>6, <2>1, DivIs
<1>8. z % M = f  BY <1>5
<1> QED BY <1>1, <1>3, <1>4, <1>7, <1>8 DEF Number

\* What the packets of a list are: where their commands lie.
LEMMA FromIs ==
  ASSUME base \in Bases
  PROVE  /\ \A p \in 1 .. (PacketCount + 1) : From(base, p) = Start(p) /\ From(base, p) \in Nat
         /\ \A d \in 0 .. PacketCount : LastOf(base, d) \in Nat /\ LastOf(base, d) + 1 = From(base, d + 1)
                                        /\ LastOf(base, d) >= base
         /\ \A d \in 1 .. PacketCount : LastOf(base, d) = From(base, d) + (Len(Packets[d]) - 1)
                                        /\ Len(Packets[d]) - 1 \in Nat
<1>0. PacketCount \in Nat  BY StartsAre
<1>1. \A p \in 1 .. (PacketCount + 1) : From(base, p) = Start(p) /\ From(base, p) \in Nat
  BY StartIs DEF From, Start
<1>2. ASSUME NEW d \in 0 .. PacketCount
      PROVE LastOf(base, d) \in Nat /\ LastOf(base, d) + 1 = From(base, d + 1) /\ LastOf(base, d) >= base
  <2>1. d + 1 \in 1 .. (PacketCount + 1)  BY <1>0
  <2>2. From(base, d + 1) \in Nat /\ From(base, d + 1) > base  BY <2>1, <1>1, StartIs
  <2>3. base \in Nat  BY BaseIs
  <2> QED BY <2>2, <2>3 DEF LastOf
<1>3. ASSUME NEW d \in 1 .. PacketCount
      PROVE LastOf(base, d) = From(base, d) + (Len(Packets[d]) - 1) /\ Len(Packets[d]) - 1 \in Nat
  <2>1. Start(d + 1) = Start(d) + Len(Packets[d]) /\ Len(Packets[d]) \in 1 .. WindowSize
    BY StartIs
  <2>2. d \in 1 .. (PacketCount + 1) /\ d + 1 \in 1 .. (PacketCount + 1)  BY <1>0
  <2>3. From(base, d) = Start(d) /\ From(base, d + 1) = Start(d + 1) /\ From(base, d) \in Nat
    BY <2>2, <1>1
  <2>4. WindowSize \in Nat  BY Sizes
  <2>5. PICK l \in Nat : l = Len(Packets[d]) /\ l >= 1  BY <2>1, <2>4
  <2>6. LastOf(base, d) = From(base, d + 1) - 1  BY DEF LastOf
  <2> QED BY <2>1, <2>3, <2>5, <2>6
<1> QED BY <1>1, <1>2, <1>3

\* The packets of the list in the reach of the last one that came out.
LEMMA ListReach ==
  ASSUME NEW r \in Nat, NEW x \in Nat, NEW y \in Nat, r < x, x <= y, Era(y) <= Era(r) + FreeWindows - 2
  PROVE  y - x < Modulus /\ x - y < Modulus
<1>1. PICK F \in Nat, W \in Nat \ {0}, M \in Nat : F = FreeWindows /\ W = WindowSize /\ M = Modulus /\ F >= 3
  BY Sizes
<1>2. PICK u \in Nat, v \in Nat : u = Era(r) /\ v = Era(y)  BY EraIs
<1>3. PICK uw \in Nat, vw \in Nat, fw \in Nat : uw = u * W /\ vw = v * W /\ fw = F * W
  <2>1. u * W \in Nat /\ v * W \in Nat /\ F * W \in Nat  BY <1>1, <1>2
  <2> QED BY <2>1
<1>4. uw <= r  BY <1>1, <1>2, <1>3, EraIs
<1>5. y < vw + W  BY <1>1, <1>2, <1>3, EraIs
<1>6. v + 2 <= u + F  BY <1>1, <1>2
<1>7. vw + 2 * W <= uw + fw
  <2>1. (v + 2) * W <= (u + F) * W  BY <1>6
  <2>2. (v + 2) * W = vw + 2 * W /\ (u + F) * W = uw + fw  BY <1>3
  <2> QED BY <2>1, <2>2
<1>8. M = 2 * fw
  <2>1. M = (2 * F) * W  BY <1>1, Sizes
  <2> QED BY <2>1, <1>3
<1> QED BY <1>1, <1>4, <1>5, <1>7, <1>8

LEMMA ReadyIs ==
  ASSUME NEW L, NEW l \in Nat, l = Len(L), NEW k, k = Ready(L)
  PROVE  /\ k \in 0 .. l
         /\ \A j \in 1 .. k : Whole(L[j]) /\ L[j].seq = (Reached(L, j - 1) + 1) % Modulus
         /\ k < l => ~(Whole(L[k + 1]) /\ L[k + 1].seq = (Reached(L, k) + 1) % Modulus)
<1>1. PICK T : T = {i \in 0 .. l : \A j \in 1 .. i :
            /\ Whole(L[j])
            /\ L[j].seq = (Reached(L, j - 1) + 1) % Modulus}
  OBVIOUS
<1>2. k = Max(T)  BY <1>1 DEF Ready
<1>3. T \subseteq 0 .. l /\ T \subseteq Int  BY <1>1
<1>4. 0 \in T  BY <1>1
<1>5. IsFiniteSet(T)
  <2>1. IsFiniteSet(0 .. l)  BY FS_Interval
  <2> QED BY <1>3, <2>1, FS_Subset
<1>6. k \in T /\ \A y \in T : k >= y  BY <1>2, <1>3, <1>4, <1>5, MaxIs
<1>7. k \in 0 .. l  BY <1>3, <1>6
<1>8. \A j \in 1 .. k : Whole(L[j]) /\ L[j].seq = (Reached(L, j - 1) + 1) % Modulus
  BY <1>1, <1>6
<1>9. ASSUME k < l, Whole(L[k + 1]), L[k + 1].seq = (Reached(L, k) + 1) % Modulus
      PROVE FALSE
  <2>1. k + 1 \in 0 .. l  BY <1>7, <1>9
  <2>2. ASSUME NEW j \in 1 .. (k + 1) PROVE Whole(L[j]) /\ L[j].seq = (Reached(L, j - 1) + 1) % Modulus
    <3>1. CASE j = k + 1
      <4>1. j - 1 = k  BY <3>1, <1>7
      <4> QED BY <3>1, <4>1, <1>9
    <3>2. CASE j # k + 1
      <4>1. j \in 1 .. k  BY <3>2, <1>7
      <4> QED BY <4>1, <1>8
    <3> QED BY <3>1, <3>2
  <2>3. k + 1 \in T  BY <1>1, <2>1, <2>2
  <2>4. k >= k + 1  BY <2>3, <1>6
  <2> QED BY <2>4, <1>7
<1> QED BY <1>7, <1>8, <1>9

ContentOf(b, p) == [i \in DOMAIN Packets[p] |-> From(b, p) + i - 1]

LEMMA EntryWhole ==
  ASSUME base \in Bases, NEW p \in 1 .. PacketCount, NEW hi \in Nat, NEW e \in Entries,
         EntryIs(base, e, p, hi), Whole(e)
  PROVE  /\ e.parts = ContentOf(base, p) /\ Len(e.parts) = Len(Packets[p])
         /\ LastOf(base, p) <= hi
<1>0. PacketCount \in Nat /\ WindowSize \in Nat  BY StartsAre, Sizes
<1>1. PICK l \in Nat : l = Len(Packets[p]) /\ l >= 1 /\ DOMAIN Packets[p] = 1 .. l
  <2>1. p \in DOMAIN Packets  BY StartsAre
  <2>2. DOMAIN Packets[p] = 1 .. Len(Packets[p]) /\ Len(Packets[p]) \in 1 .. WindowSize
    BY <2>1, PacketAssumption
  <2> QED BY <2>2, <1>0
<1>2. e.parts \in Seq(Nat)  BY DEF Entries
<1>3. DOMAIN e.parts = 1 .. l  BY <1>1 DEF EntryIs
<1>4. Len(e.parts) = l  BY <1>2, <1>3
<1>5. \A i \in 1 .. l : e.parts[i] = From(base, p) + i - 1 /\ e.parts[i] <= hi
  BY <1>3 DEF EntryIs, Whole
<1>6. e.parts = [i \in 1 .. l |-> e.parts[i]]  BY <1>2, <1>3
<1>7. e.parts = ContentOf(base, p)  BY <1>1, <1>5, <1>6 DEF ContentOf
<1>8. LastOf(base, p) <= hi
  <2>1. LastOf(base, p) = From(base, p) + (l - 1)  BY <1>1, FromIs
  <2>2. From(base, p) \in Nat
    <3>1. p \in 1 .. (PacketCount + 1)  BY <1>0
    <3> QED BY <3>1, FromIs
  <2>3. l \in 1 .. l  BY <1>1
  <2>4. From(base, p) + l - 1 <= hi  BY <1>5, <2>3
  <2> QED BY <2>1, <2>2, <2>4
<1> QED BY <1>1, <1>4, <1>7, <1>8

\* The next entry that may be dispatched is the next packet.
LEMMA NextEntry ==
  ASSUME base \in Bases, NEW d \in Nat, NEW c \in Nat, d <= c, NEW p \in 1 .. PacketCount, c < p,
         Era(From(base, p)) <= Era(LastOf(base, d)) + FreeWindows - 2,
         Number(From(base, p)) = (Number(LastOf(base, c)) + 1) % Modulus
  PROVE  p = c + 1
<1>0. PacketCount \in Nat  BY StartsAre
<1>1. c \in 0 .. PacketCount /\ d \in 0 .. PacketCount /\ c + 1 \in 1 .. PacketCount  BY <1>0
<1>2. PICK r \in Nat : r = LastOf(base, d)  BY <1>1, FromIs
<1>3. PICK x \in Nat : x = From(base, c + 1) /\ x = LastOf(base, c) + 1 /\ LastOf(base, c) \in Nat
  BY <1>1, FromIs
<1>4. PICK y \in Nat : y = From(base, p)
  <2>1. p \in 1 .. (PacketCount + 1)  BY <1>0
  <2> QED BY <2>1, FromIs
<1>5. \A o, q \in 1 .. PacketCount : o < q => From(base, o) < From(base, q)
  <2> SUFFICES ASSUME NEW o \in 1 .. PacketCount, NEW q \in 1 .. PacketCount, o < q
               PROVE From(base, o) < From(base, q)
    OBVIOUS
  <2>1. o \in 1 .. (PacketCount + 1) /\ q \in 1 .. (PacketCount + 1)  BY <1>0
  <2>2. From(base, o) = Start(o) /\ From(base, q) = Start(q)  BY <2>1, FromIs
  <2>3. Start(o) < Start(q)  BY <2>1, StartIs
  <2> QED BY <2>2, <2>3
<1>6. x <= y
  <2>1. c + 1 = p \/ c + 1 < p  OBVIOUS
  <2> QED BY <2>1, <1>1, <1>3, <1>4, <1>5
<1>7. r < x
  <2>1. d + 1 \in 1 .. PacketCount  BY <1>1, <1>0
  <2>2. LastOf(base, d) + 1 = From(base, d + 1) /\ From(base, d + 1) \in Nat
    BY SMTT(30), <1>1, <1>2, FromIs
  <2>3. d + 1 = c + 1 \/ d + 1 < c + 1  OBVIOUS
  <2>4. From(base, d + 1) <= From(base, c + 1)  BY <2>1, <2>2, <2>3, <1>1, <1>3, <1>5
  <2> QED BY <2>2, <2>4, <1>2, <1>3
<1>8. y - x < Modulus /\ x - y < Modulus
  BY <1>2, <1>4, <1>6, <1>7, ListReach
<1>9. Number(y) = Number(x)
  <2>1. 1 \in Nat  OBVIOUS
  <2>2. (Number(LastOf(base, c)) + 1) % Modulus = Number(LastOf(base, c) + 1)  BY <2>1, <1>3, ModAdd
  <2> QED BY <2>2, <1>3, <1>4
<1>10. x = y  BY <1>8, <1>9, SameNumber
<1> QED
  <2>1. c + 1 = p \/ c + 1 < p  OBVIOUS
  <2>2. c + 1 < p => x < y  BY <1>1, <1>3, <1>4, <1>5
  <2> QED BY <2>1, <2>2, <1>10

Dispatches(b, L, ps, d, up, hi, k) ==
  /\ d + k <= up
  /\ \A j \in 1 .. k : ps[j] = d + j /\ L[j].parts = ContentOf(b, d + j)
  /\ k > 0 => LastOf(b, d + k) <= hi
  /\ Reached(L, k) = Number(LastOf(b, d + k))

\* What Ready hands out.
LEMMA DispatchIs ==
  ASSUME base \in Bases, NEW d \in Nat, NEW up \in 0 .. PacketCount, d <= up, NEW hi \in Nat,
         current = Number(LastOf(base, d)), NEW L, NEW ps,
         ListIs(base, L, ps, d, up, Era(LastOf(base, d)) + FreeWindows - 2, hi),
         NEW k, k = Ready(L)
  PROVE  Dispatches(base, L, ps, d, up, hi, k)
<1>0. PacketCount \in Nat  BY StartsAre
<1>1. PICK l \in Nat : l = Len(L) /\ L \in Seq(Entries) /\ ps \in Seq(Nat) /\ Len(ps) = l
  <2>1. L \in Seq(Entries) /\ ps \in Seq(Nat) /\ Len(ps) = Len(L)  BY DEF ListIs
  <2>2. Len(L) \in Nat  BY <2>1
  <2> QED BY <2>1, <2>2
<1>2. /\ k \in 0 .. l
      /\ \A j \in 1 .. k : Whole(L[j]) /\ L[j].seq = (Reached(L, j - 1) + 1) % Modulus
  BY <1>1, ReadyIs
<1>3. \A i \in 1 .. l : /\ d < ps[i] /\ ps[i] <= up /\ EntryIs(base, L[i], ps[i], hi)
                        /\ Era(From(base, ps[i])) <= Era(LastOf(base, d)) + FreeWindows - 2
  BY <1>1 DEF ListIs
<1>4. \A i, j \in 1 .. l : i < j => ps[i] < ps[j]  BY <1>1 DEF ListIs
<1>5. \A i \in 1 .. l : ps[i] \in 1 .. PacketCount
  <2>1. \A i \in 1 .. l : ps[i] \in Nat  BY <1>1
  <2> QED BY <2>1, <1>3, <1>0
<1>6. PICK T : T = {j \in Nat : j <= k =>
                        (d + j <= up /\ (j > 0 => ps[j] = d + j) /\ Reached(L, j) = Number(LastOf(base, d + j)))}
  OBVIOUS
<1>7. 0 \in T
  <2>1. d + 0 = d  OBVIOUS
  <2>2. Reached(L, 0) = Number(LastOf(base, d))  BY DEF Reached
  <2> QED BY <2>1, <2>2, <1>6
<1>8. ASSUME NEW j \in Nat, j \in T PROVE j + 1 \in T
  <2> SUFFICES ASSUME j + 1 <= k
               PROVE /\ d + (j + 1) <= up /\ ps[j + 1] = d + (j + 1)
                     /\ Reached(L, j + 1) = Number(LastOf(base, d + (j + 1)))
    BY <1>6
  <2>1. j + 1 \in 1 .. k /\ j + 1 \in 1 .. l /\ j <= k  BY <1>2
  <2>2. d + j <= up /\ (j > 0 => ps[j] = d + j) /\ Reached(L, j) = Number(LastOf(base, d + j))
    BY <1>6, <1>8, <2>1
  <2>3. PICK p \in 1 .. PacketCount : p = ps[j + 1]  BY <2>1, <1>5
  <2>4. d + j < p
    <3>1. CASE j = 0  BY <3>1, <2>1, <2>3, <1>3
    <3>2. CASE j > 0
      <4>1. j \in 1 .. l /\ j < j + 1  BY <3>2, <2>1
      <4> QED BY <4>1, <3>2, <2>1, <2>2, <2>3, <1>4
    <3> QED BY <3>1, <3>2
  <2>5. Whole(L[j + 1]) /\ L[j + 1].seq = (Reached(L, j) + 1) % Modulus
    <3>1. (j + 1) - 1 = j  OBVIOUS
    <3> QED BY <3>1, <2>1, <1>2
  <2>6. EntryIs(base, L[j + 1], p, hi) /\ L[j + 1].seq = Number(From(base, p))
    BY <2>1, <2>3, <1>3 DEF EntryIs
  <2>7. p = (d + j) + 1
    <3>1. d + j \in Nat /\ d <= d + j  OBVIOUS
    <3>2. Era(From(base, p)) <= Era(LastOf(base, d)) + FreeWindows - 2  BY <2>1, <2>3, <1>3
    <3>3. Number(From(base, p)) = (Number(LastOf(base, d + j)) + 1) % Modulus  BY <2>2, <2>5, <2>6
    <3> QED BY <3>1, <3>2, <3>3, <2>4, NextEntry
  <2>8. p = d + (j + 1)  BY <2>7
  <2>9. p <= up  BY <2>1, <2>3, <1>3
  <2>10. L[j + 1] \in Entries  BY <2>1, <1>1
  <2>11. Len(L[j + 1].parts) = Len(Packets[p])  BY <2>5, <2>6, <2>10, EntryWhole
  <2>12. Reached(L, j + 1) = (L[j + 1].seq + Len(L[j + 1].parts) - 1) % Modulus
    <3>1. j + 1 # 0  OBVIOUS
    <3> QED BY <3>1 DEF Reached
  <2>13. Reached(L, j + 1) = Number(LastOf(base, p))
    <3>1. PICK m \in Nat : m = Len(Packets[p]) - 1 /\ LastOf(base, p) = From(base, p) + m  BY FromIs
    <3>2. From(base, p) \in Nat
      <4>1. p \in 1 .. (PacketCount + 1)  BY <1>0
      <4> QED BY <4>1, FromIs
    <3>3. (Number(From(base, p)) + m) % Modulus = Number(From(base, p) + m)  BY <3>1, <3>2, ModAdd
    <3>4. Number(From(base, p)) \in Nat  BY <3>2, NumberIs
    <3>5. Len(Packets[p]) \in Nat
      <4>1. Len(Packets[p]) \in 1 .. WindowSize /\ WindowSize \in Nat  BY StartsAre, Sizes
      <4> QED BY <4>1
    <3>6. Number(From(base, p)) + Len(Packets[p]) - 1 = Number(From(base, p)) + m  BY <3>1, <3>4, <3>5
    <3> QED BY <3>1, <3>3, <3>6, <2>6, <2>11, <2>12
  <2> QED BY <2>3, <2>8, <2>9, <2>13
<1>9. Nat \subseteq T  BY <1>7, <1>8, InductiveSet
<1>10. k \in T /\ k \in Nat  BY <1>2, <1>9
<1>11. d + k <= up /\ Reached(L, k) = Number(LastOf(base, d + k))  BY <1>6, <1>10
<1>12. ASSUME NEW j \in 1 .. k
       PROVE ps[j] = d + j /\ L[j].parts = ContentOf(base, d + j) /\ LastOf(base, d + j) <= hi
  <2>1. j \in T /\ j \in 1 .. l /\ j \in Nat /\ j <= k  BY <1>2, <1>9
  <2>2. ps[j] = d + j  BY <2>1, <1>6
  <2>3. d + j \in 1 .. PacketCount  BY <2>1, <2>2, <1>5
  <2>4. EntryIs(base, L[j], d + j, hi) /\ Whole(L[j]) /\ L[j] \in Entries
    BY <2>1, <2>2, <1>1, <1>2, <1>3
  <2> QED BY <2>2, <2>3, <2>4, EntryWhole
<1>13. k > 0 => LastOf(base, d + k) <= hi
  <2>1. k > 0 => k \in 1 .. k  BY <1>10
  <2> QED BY <2>1, <1>12
<1> QED BY <1>11, <1>12, <1>13 DEF Dispatches

-----------------------------------------------------------------------------
(* No command the receiver has is lost to it, and one that arrives is taken.*)

Holds(D, n) == \E i \in DOMAIN D : \E j \in DOMAIN D[i] : D[i][j] = n
Gathers(L, n) == \E i \in DOMAIN L : \E j \in DOMAIN L[i].parts : L[i].parts[j] = n

\* L2 is the list L after n arrived.
Gathered(b, L, L2, d, up, top, hi, n) ==
  /\ \E ps : ListIs(b, L2, ps, d, up, top, hi)
  /\ \A m : m # Missing /\ Gathers(L, m) => Gathers(L2, m)
  /\ Gathers(L2, n)

LEMMA GatherNone ==
  ASSUME NEW b, NEW L, NEW ps, NEW d, NEW up, NEW top, NEW hi, NEW n,
         ListIs(b, L, ps, d, up, top, hi),
         NEW k \in 1 .. Len(L), NEW f \in DOMAIN L[k].parts, L[k].parts[f] = n
  PROVE  Gathered(b, L, L, d, up, top, hi, n)
<1>1. L \in Seq(Entries)  BY DEF ListIs
<1>2. k \in DOMAIN L  BY <1>1
<1>3. Gathers(L, n)  BY <1>2 DEF Gathers
<1> QED BY <1>3 DEF Gathered

LEMMA GatherInsert ==
  ASSUME NEW b, NEW L, NEW ps, NEW d \in Nat, NEW up \in Nat, NEW top, NEW hi, NEW n,
         ListIs(b, L, ps, d, up, top, hi),
         NEW p \in Nat, d < p, p <= up, Era(From(b, p)) <= top,
         NEW k \in 0 .. Len(L), \A i \in 1 .. k : ps[i] < p, \A i \in (k + 1) .. Len(L) : ps[i] > p,
         NEW e \in Entries, EntryIs(b, e, p, hi), NEW f \in DOMAIN e.parts, e.parts[f] = n
  PROVE  Gathered(b, L, InsertAt(L, k + 1, e), d, up, top, hi, n)
<1>1. PICK l \in Nat : l = Len(L) /\ L \in Seq(Entries) /\ ps \in Seq(Nat) /\ Len(ps) = l
  <2>1. L \in Seq(Entries) /\ ps \in Seq(Nat) /\ Len(ps) = Len(L)  BY DEF ListIs
  <2>2. Len(L) \in Nat  BY <2>1
  <2> QED BY <2>1, <2>2
<1>2. PICK u : u = InsertAt(L, k + 1, e) /\ u \in Seq(Entries) /\ Inserted(u, L, k, e)
  BY <1>1, InsertIs
<1>3. PICK v : v = InsertAt(ps, k + 1, p) /\ v \in Seq(Nat) /\ Inserted(v, ps, k, p)
  BY <1>1, InsertIs
<1>4. /\ Len(u) = l + 1 /\ Len(v) = l + 1
      /\ \A i \in 1 .. k : u[i] = L[i] /\ v[i] = ps[i]
      /\ u[k + 1] = e /\ v[k + 1] = p
      /\ \A i \in (k + 1) .. l : u[i + 1] = L[i] /\ v[i + 1] = ps[i]
  BY <1>1, <1>2, <1>3 DEF Inserted
\* Where an element of the new list comes from.
<1>5. ASSUME NEW i \in 1 .. (l + 1)
      PROVE \/ i \in 1 .. k /\ i \in 1 .. l /\ u[i] = L[i] /\ v[i] = ps[i]
            \/ i = k + 1 /\ u[i] = e /\ v[i] = p
            \/ i - 1 \in (k + 1) .. l /\ i - 1 \in 1 .. l /\ u[i] = L[i - 1] /\ v[i] = ps[i - 1]
  <2>1. CASE i \in 1 .. k  BY <2>1, <1>1, <1>4
  <2>2. CASE i = k + 1  BY <2>2, <1>4
  <2>3. CASE i > k + 1
    <3>1. PICK j \in (k + 1) .. l : j = i - 1 /\ i = j + 1
      <4>1. i - 1 \in (k + 1) .. l /\ i = (i - 1) + 1  BY <2>3, <1>1
      <4> QED BY <4>1
    <3>2. j \in 1 .. l  BY <1>1, <3>1
    <3> QED BY <3>1, <3>2, <1>4
  <2> QED BY <2>1, <2>2, <2>3, <1>1
<1>6. \A i \in 1 .. l : /\ d < ps[i] /\ ps[i] <= up /\ Era(From(b, ps[i])) <= top
                        /\ EntryIs(b, L[i], ps[i], hi)
  BY <1>1 DEF ListIs
<1>7. \A i, j \in 1 .. l : i < j => ps[i] < ps[j]  BY <1>1 DEF ListIs
<1>8. ASSUME NEW i \in 1 .. Len(u)
      PROVE /\ d < v[i] /\ v[i] <= up /\ Era(From(b, v[i])) <= top
            /\ EntryIs(b, u[i], v[i], hi)
  <2>1. i \in 1 .. (l + 1)  BY <1>4
  <2>2. CASE i \in 1 .. l /\ u[i] = L[i] /\ v[i] = ps[i]  BY <2>2, <1>6
  <2>3. CASE u[i] = e /\ v[i] = p  BY <2>3
  <2>4. CASE i - 1 \in 1 .. l /\ u[i] = L[i - 1] /\ v[i] = ps[i - 1]  BY <2>4, <1>6
  <2> QED BY <2>1, <2>2, <2>3, <2>4, <1>5
<1>9. ASSUME NEW i \in 1 .. Len(u), NEW j \in 1 .. Len(u), i < j
      PROVE v[i] < v[j]
  <2>1. i \in 1 .. (l + 1) /\ j \in 1 .. (l + 1)  BY <1>4
  <2>2. \A x \in 1 .. l : ps[x] \in Nat  BY <1>1
  <2>3. CASE i \in 1 .. k /\ i \in 1 .. l /\ v[i] = ps[i]
    <3>1. CASE j \in 1 .. l /\ v[j] = ps[j]  BY <2>3, <3>1, <1>7, <1>9
    <3>2. CASE v[j] = p  BY <2>3, <3>2
    <3>3. CASE j - 1 \in (k + 1) .. l /\ j - 1 \in 1 .. l /\ v[j] = ps[j - 1]
      <4>1. i < j - 1  BY <2>3, <3>3
      <4> QED BY <4>1, <2>3, <3>3, <1>7
    <3> QED BY <2>1, <3>1, <3>2, <3>3, <1>5
  <2>4. CASE i = k + 1 /\ v[i] = p
    <3>1. j - 1 \in (k + 1) .. l /\ v[j] = ps[j - 1]  BY <2>1, <2>4, <1>5, <1>9
    <3> QED BY <3>1, <2>4, <1>1
  <2>5. CASE i - 1 \in (k + 1) .. l /\ i - 1 \in 1 .. l /\ v[i] = ps[i - 1]
    <3>1. j - 1 \in (k + 1) .. l /\ j - 1 \in 1 .. l /\ v[j] = ps[j - 1]
      <4>1. j > k + 1  BY <2>1, <2>5, <1>9
      <4>2. ~(j \in 1 .. k) /\ j # k + 1  BY <4>1
      <4> QED BY <4>2, <2>1, <1>5
    <3>2. i - 1 < j - 1  BY <1>9
    <3> QED BY <3>1, <3>2, <2>5, <1>7
  <2> QED BY <2>1, <2>3, <2>4, <2>5, <1>5
<1>10. ListIs(b, u, v, d, up, top, hi)  BY <1>2, <1>3, <1>4, <1>8, <1>9 DEF ListIs
<1>11. DOMAIN u = 1 .. (l + 1) /\ DOMAIN L = 1 .. l  BY <1>1, <1>2, <1>4
<1>12. ASSUME NEW m, Gathers(L, m) PROVE Gathers(u, m)
  <2>1. PICK i \in 1 .. l : \E j \in DOMAIN L[i].parts : L[i].parts[j] = m
    BY <1>11, <1>12 DEF Gathers
  <2>2. PICK j \in 1 .. (l + 1) : u[j] = L[i]
    <3>1. CASE i \in 1 .. k
      <4>1. i \in 1 .. (l + 1)  BY <1>1
      <4> QED BY <3>1, <4>1, <1>4
    <3>2. CASE i \in (k + 1) .. l
      <4>1. i + 1 \in 1 .. (l + 1)  BY <1>1
      <4> QED BY <3>2, <4>1, <1>4
    <3> QED BY <3>1, <3>2, <1>1
  <2> QED BY <2>1, <2>2, <1>11 DEF Gathers
<1>13. Gathers(u, n)
  <2>1. k + 1 \in 1 .. (l + 1)  BY <1>1
  <2> QED BY <2>1, <1>4, <1>11 DEF Gathers
<1> QED BY <1>2, <1>10, <1>12, <1>13 DEF Gathered

LEMMA GatherPart ==
  ASSUME NEW b, NEW L, NEW ps, NEW d, NEW up, NEW top, NEW hi, NEW n \in Nat,
         ListIs(b, L, ps, d, up, top, hi), NEW k \in 1 .. Len(L), NEW f \in DOMAIN L[k].parts,
         n = From(b, ps[k]) + f - 1, n <= hi, n # Missing, L[k].parts[f] = Missing
  PROVE  Gathered(b, L, [L EXCEPT ![k].parts[f] = n], d, up, top, hi, n)
<1>1. PICK l \in Nat : l = Len(L) /\ L \in Seq(Entries) /\ ps \in Seq(Nat) /\ Len(ps) = l
  <2>1. L \in Seq(Entries) /\ ps \in Seq(Nat) /\ Len(ps) = Len(L)  BY DEF ListIs
  <2>2. Len(L) \in Nat  BY <2>1
  <2> QED BY <2>1, <2>2
<1>2. PICK g : g = L[k].parts  OBVIOUS
<1>3. PICK h : h = [g EXCEPT ![f] = n]  OBVIOUS
<1>4. L[k] \in Entries /\ L[k].seq \in Nat /\ g \in Seq(Nat)
  <2>1. L[k] \in Entries  BY <1>1
  <2>2. L[k].seq \in Nat /\ L[k].parts \in Seq(Nat)  BY <2>1 DEF Entries
  <2> QED BY <2>1, <2>2, <1>2
<1>5. h \in Seq(Nat) /\ DOMAIN h = DOMAIN g /\ h[f] = n /\ \A j \in DOMAIN g : j # f => h[j] = g[j]
  BY <1>2, <1>3, <1>4
<1>6. PICK u : u = [L EXCEPT ![k].parts[f] = n]  OBVIOUS
<1>7. u[k] = [L[k] EXCEPT !.parts[f] = n] /\ \A i \in 1 .. l : i # k => u[i] = L[i]
  <2>1. PICK w : w = [L[k] EXCEPT !.parts[f] = n]  OBVIOUS
  <2>2. u = [L EXCEPT ![k] = w]  BY <1>6, <2>1
  <2>3. DOMAIN L = 1 .. l /\ k \in 1 .. l  BY <1>1
  <2>4. u[k] = w /\ \A i \in 1 .. l : i # k => u[i] = L[i]  BY <2>2, <2>3
  <2> QED BY <2>1, <2>4
<1>8. u[k].parts = h /\ u[k].seq = L[k].seq /\ u[k] \in Entries
  BY <1>2, <1>3, <1>4, <1>5, <1>7 DEF Entries
<1>9. u \in Seq(Entries) /\ Len(u) = l /\ DOMAIN u = 1 .. l /\ DOMAIN L = 1 .. l
  <2>1. DOMAIN u = 1 .. l /\ DOMAIN L = 1 .. l  BY <1>1, <1>6
  <2>2. ASSUME NEW i \in 1 .. l PROVE u[i] \in Entries
    <3>1. L[i] \in Entries  BY <1>1
    <3> QED BY <3>1, <1>7, <1>8
  <2>3. u = [i \in 1 .. l |-> u[i]]  BY <1>6, <2>1
  <2>4. u \in Seq(Entries)  BY <2>2, <2>3
  <2> QED BY <2>1, <2>4
<1>10. \A i \in 1 .. l : /\ d < ps[i] /\ ps[i] <= up /\ Era(From(b, ps[i])) <= top
                         /\ EntryIs(b, L[i], ps[i], hi)
  BY <1>1 DEF ListIs
<1>11. EntryIs(b, u[k], ps[k], hi)
  <2>1. /\ L[k].seq = Number(From(b, ps[k])) /\ DOMAIN g = DOMAIN Packets[ps[k]]
        /\ \A j \in DOMAIN g : g[j] # Missing => g[j] = From(b, ps[k]) + j - 1 /\ g[j] <= hi
    BY <1>1, <1>2, <1>10 DEF EntryIs
  <2>2. \A j \in DOMAIN h : h[j] # Missing => h[j] = From(b, ps[k]) + j - 1 /\ h[j] <= hi
    BY <2>1, <1>5
  <2>3. \E j \in DOMAIN h : h[j] # Missing  BY <1>2, <1>5
  <2> QED BY <2>1, <2>2, <2>3, <1>5, <1>8 DEF EntryIs
<1>12. \A i \in 1 .. l : EntryIs(b, u[i], ps[i], hi)  BY <1>7, <1>10, <1>11
<1>13. \A i, j \in 1 .. l : i < j => ps[i] < ps[j]  BY <1>1 DEF ListIs
<1>14. ListIs(b, u, ps, d, up, top, hi)  BY <1>1, <1>9, <1>10, <1>12, <1>13 DEF ListIs
<1>15. ASSUME NEW m, m # Missing, Gathers(L, m) PROVE Gathers(u, m)
  <2>1. PICK i \in 1 .. l : \E j \in DOMAIN L[i].parts : L[i].parts[j] = m
    BY <1>9, <1>15 DEF Gathers
  <2>2. CASE i # k  BY <2>1, <2>2, <1>7, <1>9 DEF Gathers
  <2>3. CASE i = k
    <3>1. PICK j \in DOMAIN g : g[j] = m  BY <2>1, <2>3, <1>2
    <3>2. j # f  BY <3>1, <1>2, <1>15
    <3>3. h[j] = m /\ j \in DOMAIN h  BY <3>1, <3>2, <1>5
    <3> QED BY <3>3, <1>1, <1>8, <1>9 DEF Gathers
  <2> QED BY <2>2, <2>3
<1>16. Gathers(u, n)  BY <1>1, <1>2, <1>5, <1>8, <1>9 DEF Gathers
<1> QED BY <1>6, <1>14, <1>15, <1>16 DEF Gathered

DeliveredIs(b, D, up) ==
  /\ D \in Seq(Seq(Nat)) /\ Len(D) <= up
  /\ \A p \in 1 .. Len(D) : D[p] = ContentOf(b, p)

LEMMA HoldsOld ==
  ASSUME base \in Bases, NEW up \in 0 .. PacketCount, NEW D, DeliveredIs(base, D, up),
         NEW p \in 1 .. PacketCount, p <= Len(D), NEW f \in 1 .. Len(Packets[p]),
         NEW n, n = Start(p) + f - 1
  PROVE  Holds(D, n)
<1>0. PacketCount \in Nat /\ p \in DOMAIN Packets  BY StartsAre
<1>1. p \in 1 .. Len(D) /\ DOMAIN D = 1 .. Len(D)
  <2>1. D \in Seq(Seq(Nat))  BY DEF DeliveredIs
  <2> QED BY <2>1
<1>2. D[p] = ContentOf(base, p)  BY <1>1 DEF DeliveredIs
<1>3. DOMAIN Packets[p] = 1 .. Len(Packets[p])  BY <1>0, PacketAssumption
<1>4. D[p][f] = From(base, p) + f - 1 /\ f \in DOMAIN D[p]  BY <1>2, <1>3 DEF ContentOf
<1>5. From(base, p) = Start(p)  BY DEF From, Start
<1> QED BY <1>1, <1>4, <1>5 DEF Holds

LEMMA WithinTop ==
  ASSUME NEW r \in Nat, NEW x \in Nat, r < x, Era(x) <= Era(r) + FreeWindows - 2
  PROVE  Within(r, x)
<1>1. PICK F \in Nat, W \in Nat \ {0}, M \in Nat : F = FreeWindows /\ W = WindowSize /\ M = Modulus /\ F >= 3
  BY Sizes
<1>2. PICK u \in Nat, v \in Nat : u = Era(r) /\ v = Era(x)  BY EraIs
<1>3. u <= v  BY <1>2, EraLess
<1>4. PICK uw \in Nat, vw \in Nat, fw \in Nat : uw = u * W /\ vw = v * W /\ fw = F * W
  <2>1. u * W \in Nat /\ v * W \in Nat /\ F * W \in Nat  BY <1>1, <1>2
  <2> QED BY <2>1
<1>5. uw <= r  BY <1>1, <1>2, <1>4, EraIs
<1>6. x < vw + W  BY <1>1, <1>2, <1>4, EraIs
<1>7. vw + 2 * W <= uw + fw
  <2>1. v + 2 <= u + F  BY <1>1, <1>2
  <2>2. (v + 2) * W <= (u + F) * W  BY <2>1
  <2>3. (v + 2) * W = vw + 2 * W /\ (u + F) * W = uw + fw  BY <1>4
  <2> QED BY <2>2, <2>3
<1>8. M = 2 * fw
  <2>1. M = (2 * F) * W  BY <1>1, Sizes
  <2> QED BY <2>1, <1>4
<1>9. x - r < M /\ r - x < M  BY <1>1, <1>5, <1>6, <1>7, <1>8
<1>10. Era(x) <= Era(r) + FreeWindows /\ Era(r) <= Era(x) + FreeWindows  BY <1>1, <1>2, <1>3
<1> QED BY <1>1, <1>9, <1>10 DEF Within

\* What the receiver has, when hi is the last command sent: D came out, and L
\* waits for packets before it.
Receives(b, up, hi, D, L, ps, r) ==
  /\ up \in 0 .. PacketCount /\ hi \in Nat /\ hi <= LastOf(b, up)
  /\ DeliveredIs(b, D, up) /\ r = LastOf(b, Len(D)) /\ r <= hi
  /\ Era(hi) <= Era(r) + FreeWindows
  /\ ListIs(b, L, ps, Len(D), up, Era(r) + FreeWindows - 2, hi)

Arrives(b, up, hi, D, L, r, n, L2) ==
  \/ L2 = L /\ (Holds(D, n) \/ Era(n) > Era(r) + FreeWindows - 2)
  \/ Gathered(b, L, L2, Len(D), up, Era(r) + FreeWindows - 2, hi, n)

\* Where the packet of a command lies.
Lies(n, p, f, r, d, up) ==
  /\ p = PacketOf(n) /\ p \in 1 .. PacketCount /\ Start(p) \in Nat
  /\ f = Fragment(n) /\ f \in 1 .. Len(Packets[p]) /\ Len(Packets[p]) \in Nat
  /\ DOMAIN Packets[p] = 1 .. Len(Packets[p])
  /\ Len(Packets[p]) <= WindowSize
  /\ n = Start(p) + f - 1 /\ p <= up
  /\ r < Start(p) => d < p
  /\ Start(p) <= r => p <= d
  /\ Start(p) = r => Len(Packets[p]) = 1

LEMMA LiesIs ==
  ASSUME base \in Bases, NEW d \in Nat, NEW up \in 0 .. PacketCount, d <= up,
         NEW r, r = LastOf(base, d), NEW n \in Nat, n > base, n <= LastOf(base, up)
  PROVE  Lies(n, PacketOf(n), Fragment(n), r, d, up)
<1>0. PacketCount \in Nat /\ WindowSize \in Nat  BY StartsAre, Sizes
<1>1. d \in 0 .. PacketCount /\ d + 1 \in 1 .. (PacketCount + 1) /\ up + 1 \in 1 .. (PacketCount + 1)
  BY <1>0
<1>2. \A o, q \in 1 .. (PacketCount + 1) : o <= q => Start(o) <= Start(q)
  <2> SUFFICES ASSUME NEW o \in 1 .. (PacketCount + 1), NEW q \in 1 .. (PacketCount + 1), o <= q
               PROVE Start(o) <= Start(q)
    OBVIOUS
  <2>1. PICK x \in Nat, y \in Nat : x = Start(o) /\ y = Start(q)  BY StartIs
  <2>2. o < q => x < y  BY <2>1, StartIs
  <2>3. o = q => x = y  BY <2>1
  <2>4. o < q \/ o = q  BY <1>0
  <2> QED BY <2>1, <2>2, <2>3, <2>4
<1>3. r + 1 = Start(d + 1) /\ r \in Nat  BY <1>1, FromIs
<1>4. LastOf(base, up) + 1 = Start(up + 1) /\ LastOf(base, up) \in Nat  BY <1>1, FromIs
<1>5. n < Start(up + 1) /\ Start(up + 1) \in Nat  BY <1>4
<1>6. n < Start(PacketCount + 1)
  <2>1. PacketCount + 1 \in 1 .. (PacketCount + 1) /\ Start(PacketCount + 1) \in Nat
    <3>1. PacketCount + 1 \in 1 .. (PacketCount + 1)  BY <1>0
    <3> QED BY <3>1, StartIs
  <2>2. up + 1 <= PacketCount + 1  BY <1>0
  <2> QED BY <2>1, <2>2, <1>1, <1>2, <1>5
<1>7. PICK p : p = PacketOf(n)  OBVIOUS
<1>8. PICK f : f = Fragment(n)  OBVIOUS
<1>9. /\ p \in 1 .. PacketCount /\ Start(p) <= n
      /\ f \in 1 .. Len(Packets[p]) /\ n = Start(p) + f - 1
  BY <1>6, <1>7, <1>8, CommandIs
<1>10. p \in 1 .. (PacketCount + 1) /\ p + 1 \in 1 .. (PacketCount + 1) /\ p \in DOMAIN Packets
  BY <1>0, <1>9, StartsAre
<1>11. /\ Start(p) \in Nat /\ Start(p + 1) = Start(p) + Len(Packets[p])
       /\ Len(Packets[p]) \in 1 .. WindowSize
  BY <1>9, <1>10, StartIs
<1>12. DOMAIN Packets[p] = 1 .. Len(Packets[p])  BY <1>10, PacketAssumption
<1>13. p <= up
  <2>1. CASE up < p
    <3>1. up + 1 <= p  BY <2>1, <1>0, <1>9
    <3>2. Start(up + 1) <= Start(p)  BY <3>1, <1>1, <1>2, <1>10, <1>11
    <3> QED BY <3>2, <1>5, <1>9, <1>11
  <2> QED BY <2>1, <1>0, <1>9
<1>14. Start(p) <= r => p <= d
  <2>1. CASE d < p
    <3>1. d + 1 <= p  BY <2>1, <1>0, <1>9
    <3>2. Start(d + 1) <= Start(p)  BY <3>1, <1>1, <1>2, <1>10, <1>11
    <3> QED BY <3>2, <1>3, <1>11
  <2> QED BY <2>1, <1>0, <1>9
<1>15. p <= d => Start(p + 1) <= r + 1
  <2>1. p <= d => p + 1 <= d + 1  BY <1>0, <1>9
  <2> QED BY <2>1, <1>1, <1>2, <1>3, <1>10
<1>16. PICK l \in Nat : l = Len(Packets[p]) /\ l >= 1 /\ l <= WindowSize  BY <1>0, <1>11
<1>17. r < Start(p) => d < p
  <2>1. CASE p <= d  BY <2>1, <1>3, <1>11, <1>15, <1>16
  <2> QED BY <2>1, <1>0, <1>9
<1>18. Start(p) = r => l = 1
  <2> SUFFICES ASSUME Start(p) = r PROVE l = 1  OBVIOUS
  <2>1. p <= d  BY <1>3, <1>14
  <2>2. Start(p) + l <= r + 1  BY <2>1, <1>11, <1>15, <1>16
  <2>3. PICK x \in Nat : x = Start(p)  BY <1>11
  <2>4. r = x  BY <2>3
  <2>5. x + l <= x + 1  BY <2>2, <2>3, <2>4
  <2>6. l <= 1  BY <2>5
  <2>7. l >= 1  BY <1>16
  <2> QED BY <2>6, <2>7
<1> QED BY <1>7, <1>8, <1>9, <1>11, <1>12, <1>13, <1>14, <1>16, <1>17, <1>18 DEF Lies

LEMMA NewSingle ==
  ASSUME base \in Bases, NEW r, NEW d, NEW up, NEW hi, NEW p, NEW f, NEW n \in Nat,
         Lies(n, p, f, r, d, up), Len(Packets[p]) = 1, n > base, n <= hi,
         NEW e, e = [seq |-> Number(n), parts |-> <<n>>]
  PROVE  e \in Entries /\ EntryIs(base, e, p, hi) /\ f \in DOMAIN e.parts /\ e.parts[f] = n
<1>1. PICK h : h = <<n>>  OBVIOUS
<1>2. h \in Seq(Nat) /\ DOMAIN h = 1 .. 1 /\ h[1] = n  BY <1>1
<1>3. f = 1 /\ n = Start(p) /\ DOMAIN Packets[p] = 1 .. 1
  <2>1. f \in 1 .. 1 /\ n = Start(p) + f - 1 /\ DOMAIN Packets[p] = 1 .. 1 /\ Start(p) \in Nat
    BY DEF Lies
  <2> QED BY <2>1
<1>4. From(base, p) = n  BY <1>3 DEF From, Start
<1>5. e.seq = Number(n) /\ e.parts = h  BY <1>1
<1>6. Number(n) \in Nat  BY NumberIs
<1>7. e = [seq |-> Number(n), parts |-> h]  BY <1>1
<1>8. e \in Entries  BY <1>2, <1>6, <1>7 DEF Entries
<1>9. n # Missing /\ \A k \in 1 .. 1 : k = 1 /\ n + k - 1 = n
  <2>1. n # 0  BY BaseIs
  <2> QED BY <2>1 DEF Missing
<1>10. \A k \in DOMAIN h : h[k] # Missing => h[k] = From(base, p) + k - 1 /\ h[k] <= hi
  BY <1>2, <1>4, <1>9
<1>11. \E k \in DOMAIN h : h[k] # Missing  BY <1>2, <1>9
<1>12. EntryIs(base, e, p, hi)  BY <1>2, <1>3, <1>4, <1>5, <1>10, <1>11 DEF EntryIs
<1> QED BY <1>2, <1>3, <1>5, <1>8, <1>12

NewParts(p, f, n) == [[i \in DOMAIN Packets[p] |-> Missing] EXCEPT ![f] = n]

LEMMA NewFragment ==
  ASSUME base \in Bases, NEW r, NEW d, NEW up, NEW hi, NEW p, NEW f, NEW n \in Nat,
         Lies(n, p, f, r, d, up), n > base, n <= hi,
         NEW e, e = [seq |-> Number(Start(p)), parts |-> NewParts(p, f, n)]
  PROVE  e \in Entries /\ EntryIs(base, e, p, hi) /\ f \in DOMAIN e.parts /\ e.parts[f] = n
<1>1. PICK g : g = [i \in DOMAIN Packets[p] |-> Missing]  OBVIOUS
<1>2. PICK h : h = [g EXCEPT ![f] = n]  OBVIOUS
<1>3. PICK l \in Nat : l = Len(Packets[p]) /\ DOMAIN Packets[p] = 1 .. l /\ f \in 1 .. l
                       /\ n = Start(p) + f - 1 /\ Start(p) \in Nat
  BY DEF Lies
<1>4. DOMAIN h = 1 .. l /\ h[f] = n /\ \A k \in 1 .. l : k # f => h[k] = Missing
  BY <1>1, <1>2, <1>3
<1>5. \A k \in 1 .. l : h[k] \in Nat  BY <1>4 DEF Missing
<1>6. h = [k \in 1 .. l |-> h[k]]  BY <1>1, <1>2, <1>3
<1>7. h \in Seq(Nat)  BY <1>5, <1>6
<1>8. e = [seq |-> Number(Start(p)), parts |-> h]  BY <1>1, <1>2 DEF NewParts
<1>9. e.seq = Number(Start(p)) /\ e.parts = h  BY <1>8
<1>10. Number(Start(p)) \in Nat  BY <1>3, NumberIs
<1>11. e \in Entries
  <2>1. PICK c \in Nat : c = Number(Start(p))  BY <1>10
  <2>2. e = [seq |-> c, parts |-> h]  BY <1>8, <2>1
  <2> QED BY <2>2, <1>7 DEF Entries
<1>12. From(base, p) = Start(p)  BY DEF From, Start
<1>13. n # Missing
  <2>1. n # 0  BY BaseIs
  <2> QED BY <2>1 DEF Missing
<1>14. \A k \in DOMAIN h : h[k] # Missing => h[k] = From(base, p) + k - 1 /\ h[k] <= hi
  BY <1>3, <1>4, <1>12
<1>15. \E k \in DOMAIN h : h[k] # Missing  BY <1>3, <1>4, <1>13
<1>16. EntryIs(base, e, p, hi)  BY <1>3, <1>4, <1>9, <1>12, <1>14, <1>15 DEF EntryIs
<1> QED BY <1>3, <1>4, <1>9, <1>11, <1>16

\* What becomes of a command that arrives.
LEMMA ArrivesIs ==
  ASSUME base \in Bases, NEW up, NEW hi, NEW ps, NEW r, current = Number(r),
         Receives(base, up, hi, delivered, arrived, ps, r),
         NEW n \in Nat, n > base, n <= hi, n > hi - MaxAge, ~Refused(n),
         NEW list, list = IF Len(Packets[PacketOf(n)]) = 1 THEN QueueReliable(n) ELSE QueueFragment(n)
  PROVE  Arrives(base, up, hi, delivered, arrived, r, n, list)
<1>0. PacketCount \in Nat /\ WindowSize \in Nat  BY StartsAre, Sizes
<1>1. PICK d \in Nat : d = Len(delivered) /\ d <= up
  <2>1. delivered \in Seq(Seq(Nat)) /\ Len(delivered) <= up  BY DEF Receives, DeliveredIs
  <2>2. Len(delivered) \in Nat  BY <2>1
  <2> QED BY <2>1, <2>2
<1>2. /\ up \in 0 .. PacketCount /\ hi \in Nat /\ hi <= LastOf(base, up)
      /\ DeliveredIs(base, delivered, up) /\ r = LastOf(base, d) /\ r <= hi
      /\ Era(hi) <= Era(r) + FreeWindows
      /\ ListIs(base, arrived, ps, d, up, Era(r) + FreeWindows - 2, hi)
  BY <1>1 DEF Receives
<1>3. r \in Nat
  <2>1. d \in 0 .. PacketCount  BY <1>0, <1>1, <1>2
  <2> QED BY <2>1, <1>2, FromIs
<1>4. n <= LastOf(base, up)
  <2>1. LastOf(base, up) \in Nat  BY <1>2, FromIs
  <2> QED BY <2>1, <1>2
<1>5. PICK p : p = PacketOf(n)  OBVIOUS
<1>6. PICK f : f = Fragment(n)  OBVIOUS
<1>7. Lies(n, p, f, r, d, up)  BY <1>1, <1>2, <1>4, <1>5, <1>6, LiesIs
<1>8. PICK s \in Nat : s = Start(p)  BY <1>7 DEF Lies
<1>9. PICK l \in Nat : /\ l = Len(Packets[p]) /\ f \in 1 .. l /\ n = s + f - 1 /\ l <= WindowSize
                       /\ DOMAIN Packets[p] = 1 .. l
  BY <1>7, <1>8 DEF Lies
<1>10. Near(r, hi, s, n)
  <2>1. s <= n /\ n < s + WindowSize  BY <1>0, <1>9
  <2> QED BY <2>1, <1>2, <1>3 DEF Near
<1>11. Within(r, s) /\ Within(r, n)  BY <1>10, NearIs
<1>12. InReach(Number(s)) <=> s >= r /\ Era(s) <= Era(r) + FreeWindows - 2  BY <1>11, InReachIs
<1>13. n - Fragment(n) + 1 = s
  <2>1. n - f + 1 = s  BY <1>9
  <2> QED BY <2>1, <1>6
<1>14. l = 1 => n = s  BY <1>9
<1>15. l = 1 => list = QueueReliable(n)  BY <1>5, <1>9
<1>16. l # 1 => list = QueueFragment(n)  BY <1>5, <1>9
<1>17. s <= r => Holds(delivered, n)
  <2> SUFFICES ASSUME s <= r PROVE Holds(delivered, n)  OBVIOUS
  <2>1. p \in 1 .. PacketCount /\ p <= d /\ f \in 1 .. Len(Packets[p]) /\ n = Start(p) + f - 1
    BY <1>7, <1>8 DEF Lies
  <2> QED BY <2>1, <1>1, <1>2, HoldsOld
<1>18. CASE ~InReach(Number(s))
  <2>1. list = arrived
    <3>1. CASE l = 1  BY <3>1, <1>14, <1>15, <1>18 DEF QueueReliable
    <3>2. CASE l # 1  BY <3>2, <1>13, <1>16, <1>18 DEF QueueFragment
    <3> QED BY <3>1, <3>2
  <2>2. s < r \/ Era(s) > Era(r) + FreeWindows - 2
    <3>1. Era(s) \in Nat /\ Era(r) \in Nat /\ FreeWindows \in Nat  BY <1>3, EraIs, Sizes
    <3> QED BY <3>1, <1>3, <1>12, <1>18
  <2>3. CASE s < r  BY <2>1, <2>3, <1>3, <1>17 DEF Arrives
  <2>4. CASE Era(s) > Era(r) + FreeWindows - 2
    <3>1. Era(s) <= Era(n)  BY <1>10, EraLess DEF Near
    <3>2. Era(s) \in Nat /\ Era(n) \in Nat /\ Era(r) \in Nat /\ FreeWindows \in Nat  BY <1>3, EraIs, Sizes
    <3>3. Era(n) > Era(r) + FreeWindows - 2  BY <2>4, <3>1, <3>2
    <3> QED BY <3>3, <2>1 DEF Arrives
  <2> QED BY <2>2, <2>3, <2>4
<1>19. CASE s = r
  <2>1. l = 1  BY <1>7, <1>8, <1>9, <1>19 DEF Lies
  <2>2. Number(n) = current  BY <2>1, <1>14, <1>19
  <2>3. list = arrived  BY <2>1, <2>2, <1>15 DEF QueueReliable
  <2>4. Holds(delivered, n)  BY <1>3, <1>17, <1>19
  <2> QED BY <2>3, <2>4 DEF Arrives
<1>20. CASE InReach(Number(s)) /\ s # r
  <2>1. r < s /\ Era(s) <= Era(r) + FreeWindows - 2  BY <1>3, <1>12, <1>20
  <2>2. d < p /\ p <= up /\ p \in 1 .. PacketCount /\ p \in Nat
    <3>1. d < p /\ p <= up /\ p \in 1 .. PacketCount  BY <2>1, <1>7, <1>8 DEF Lies
    <3> QED BY <3>1
  <2>3. From(base, p) = s  BY <1>8 DEF From, Start
  <2>4. PICK a \in Nat : a = Len(arrived) /\ arrived \in Seq(Entries) /\ ps \in Seq(Nat) /\ Len(ps) = a
    <3>1. arrived \in Seq(Entries) /\ ps \in Seq(Nat) /\ Len(ps) = Len(arrived)  BY <1>2 DEF ListIs
    <3>2. Len(arrived) \in Nat  BY <3>1
    <3> QED BY <3>1, <3>2
  <2>5. \A i \in 1 .. a : /\ d < ps[i] /\ ps[i] <= up /\ Era(From(base, ps[i])) <= Era(r) + FreeWindows - 2
                          /\ EntryIs(base, arrived[i], ps[i], hi)
    BY <2>4, <1>2 DEF ListIs
  <2>6. ASSUME NEW i \in 1 .. Len(arrived)
        PROVE Within(r, Start(ps[i])) /\ r < Start(ps[i])
    <3>1. i \in 1 .. a /\ ps[i] \in Nat  BY <2>4
    <3>2. ps[i] \in 1 .. (PacketCount + 1) /\ d + 1 \in 1 .. (PacketCount + 1) /\ d + 1 <= ps[i]
      BY <3>1, <2>5, <1>0, <1>2
    <3>3. PICK x \in Nat : x = Start(ps[i]) /\ x = From(base, ps[i])  BY <3>2, FromIs
    <3>4. LastOf(base, d) + 1 = From(base, d + 1)
      <4>1. d \in 0 .. PacketCount  BY <1>0, <1>1, <1>2
      <4> QED BY <4>1, FromIs
    <3>5. PICK y \in Nat : y = Start(d + 1) /\ y = r + 1
      <4>1. From(base, d + 1) = Start(d + 1) /\ From(base, d + 1) \in Nat  BY <3>2, FromIs
      <4> QED BY <4>1, <3>4, <1>2
    <3>6. d + 1 < ps[i] => y < x  BY <3>2, <3>3, <3>5, StartIs
    <3>7. d + 1 = ps[i] => y = x  BY <3>3, <3>5
    <3>8. d + 1 < ps[i] \/ d + 1 = ps[i]  BY <3>1, <3>2
    <3>9. r < x  BY <3>5, <3>6, <3>7, <3>8, <1>3
    <3>10. Era(x) <= Era(r) + FreeWindows - 2  BY <3>1, <3>3, <2>5
    <3> QED BY <3>3, <3>9, <3>10, <1>3, WithinTop
  <2>7. PICK k \in 0 .. Len(arrived) :
            /\ Place(Number(Start(p))) = k
            /\ \A i \in 1 .. k : ps[i] <= p
            /\ \A i \in (k + 1) .. Len(arrived) : ps[i] > p
            /\ There(Number(Start(p))) <=> k > 0 /\ ps[k] = p
    BY <2>1, <2>2, <2>6, <1>2, <1>3, <1>8, <1>11, PlaceIs
  <2>8. Place(Number(s)) = k /\ (There(Number(s)) <=> k > 0 /\ ps[k] = p)  BY <2>7, <1>8
  <2>9. n # Missing
    <3>1. n # 0  BY BaseIs
    <3> QED BY <3>1 DEF Missing
  <2>10. l = 1 => Number(n) # current
    <3>1. current = Number(r) /\ s - r < Modulus /\ r - s < Modulus  BY <1>11 DEF Within
    <3>2. Number(s) # Number(r)  BY <3>1, <2>1, <1>3, SameNumber
    <3> QED BY <3>1, <3>2, <1>14
  <2>11. CASE There(Number(s))
    <3>1. k > 0 /\ ps[k] = p  BY <2>8, <2>11
    <3>2. k \in 1 .. a /\ k \in 1 .. Len(arrived)  BY <2>4, <3>1
    <3>3. EntryIs(base, arrived[k], p, hi)  BY <2>5, <3>1, <3>2
    <3>4. /\ DOMAIN arrived[k].parts = 1 .. l
          /\ \E j \in DOMAIN arrived[k].parts : arrived[k].parts[j] # Missing
          /\ \A j \in DOMAIN arrived[k].parts :
               arrived[k].parts[j] # Missing => arrived[k].parts[j] = s + j - 1
      BY <3>3, <2>3, <1>9 DEF EntryIs
    <3>5. f \in DOMAIN arrived[k].parts  BY <3>4, <1>9
    <3>6. CASE arrived[k].parts[f] # Missing
      <4>1. arrived[k].parts[f] = n  BY <3>4, <3>5, <3>6, <1>9
      <4>2. list = arrived
        <5>1. CASE l = 1  BY <5>1, <2>11, <1>14, <1>15 DEF QueueReliable
        <5>2. CASE l # 1
          <6>1. list = IF arrived[Place(Number(s))].parts[Fragment(n)] # Missing THEN arrived
                       ELSE [arrived EXCEPT ![Place(Number(s))].parts[Fragment(n)] = n]
            BY <5>2, <2>11, <1>13, <1>16, <1>20 DEF QueueFragment
          <6> QED BY <6>1, <3>6, <2>8, <1>6
        <5> QED BY <5>1, <5>2
      <4>3. Gathered(base, arrived, arrived, d, up, Era(r) + FreeWindows - 2, hi, n)
        BY <4>1, <3>2, <3>5, <1>2, GatherNone
      <4> QED BY <4>2, <4>3, <1>1 DEF Arrives
    <3>7. CASE arrived[k].parts[f] = Missing
      <4>1. l # 1
        <5>1. l = 1 => f = 1 /\ \A j \in 1 .. l : j = 1  BY <1>9
        <5> QED BY <5>1, <3>4, <3>7
      <4>2. list = IF arrived[Place(Number(s))].parts[Fragment(n)] # Missing THEN arrived
                   ELSE [arrived EXCEPT ![Place(Number(s))].parts[Fragment(n)] = n]
        BY <4>1, <2>11, <1>13, <1>16, <1>20 DEF QueueFragment
      <4>3. list = [arrived EXCEPT ![k].parts[f] = n]  BY <4>2, <3>7, <2>8, <1>6
      <4>4. n = From(base, ps[k]) + f - 1  BY <3>1, <2>3, <1>9
      <4>5. Gathered(base, arrived, [arrived EXCEPT ![k].parts[f] = n],
                     d, up, Era(r) + FreeWindows - 2, hi, n)
        BY <4>4, <3>2, <3>5, <3>7, <2>9, <1>2, GatherPart
      <4> QED BY <4>3, <4>5, <1>1 DEF Arrives
    <3> QED BY <3>6, <3>7
  <2>12. CASE ~There(Number(s))
    <3>1. ASSUME NEW i \in 1 .. k PROVE ps[i] < p
      <4>1. i \in 1 .. a /\ k \in 1 .. a /\ k > 0  BY <2>4
      <4>2. ps[i] <= p /\ ps[k] <= p /\ ps[k] # p  BY <2>7, <2>8, <2>12, <4>1
      <4>3. i < k => ps[i] < ps[k]  BY <2>4, <4>1, <1>2 DEF ListIs
      <4>4. i < k \/ i = k  BY <4>1
      <4>5. ps[i] \in Nat /\ ps[k] \in Nat  BY <2>4, <4>1
      <4> QED BY <4>2, <4>3, <4>4, <4>5, <2>2
    <3>2. PICK e : /\ e \in Entries /\ EntryIs(base, e, p, hi) /\ f \in DOMAIN e.parts /\ e.parts[f] = n
                   /\ list = InsertAt(arrived, k + 1, e)
      <4>1. CASE l = 1
        <5>1. PICK e : e = [seq |-> Number(n), parts |-> <<n>>]  OBVIOUS
        <5>2. Len(Packets[p]) = 1  BY <4>1, <1>9
        <5>3. e \in Entries /\ EntryIs(base, e, p, hi) /\ f \in DOMAIN e.parts /\ e.parts[f] = n
          BY <5>1, <5>2, <1>7, NewSingle
        <5>4. list = InsertAt(arrived, k + 1, e)
          BY <5>1, <4>1, <2>8, <2>10, <2>12, <1>14, <1>15, <1>20 DEF QueueReliable
        <5> QED BY <5>3, <5>4
      <4>2. CASE l # 1
        <5>1. PICK e : e = [seq |-> Number(Start(p)), parts |-> NewParts(p, f, n)]
          OBVIOUS
        <5>2. e \in Entries /\ EntryIs(base, e, p, hi) /\ f \in DOMAIN e.parts /\ e.parts[f] = n
          BY <5>1, <1>7, NewFragment
        <5>3. list = InsertAt(arrived, Place(Number(s)) + 1,
                     [seq |-> Number(s), parts |-> NewParts(PacketOf(n), Fragment(n), n)])
          BY <4>2, <2>12, <1>13, <1>16, <1>20 DEF QueueFragment, NewParts
        <5>4. list = InsertAt(arrived, k + 1, e)  BY <5>1, <5>3, <2>8, <1>5, <1>6, <1>8
        <5> QED BY <5>2, <5>4
      <4> QED BY <4>1, <4>2
    <3>3. up \in Nat  BY <1>0, <1>2
    <3>4. Era(From(base, p)) <= Era(r) + FreeWindows - 2  BY <2>1, <2>3
    <3>5. Gathered(base, arrived, InsertAt(arrived, k + 1, e), d, up, Era(r) + FreeWindows - 2, hi, n)
      BY <3>1, <3>2, <3>3, <3>4, <2>2, <2>7, <1>2, GatherInsert
    <3> QED BY <3>2, <3>5, <1>1 DEF Arrives
  <2> QED BY <2>11, <2>12
<1> QED BY <1>18, <1>19, <1>20

-----------------------------------------------------------------------------
(* What is true of the receiver, and what a step of it does: packets come  *)
(* out whole and in order, the first entry then left cannot.               *)

\* Nothing is left to dispatch.
Stuck(L, c) == L # <<>> => ~(Whole(L[1]) /\ L[1].seq = (c + 1) % Modulus)

ReceiverIs(b, up, hi, D, L, c) ==
  /\ \E ps : Receives(b, up, hi, D, L, ps, LastOf(b, Len(D)))
  /\ c = Number(LastOf(b, Len(D))) /\ Stuck(L, c)

Took(D, L, n) == Holds(D, n) \/ Gathers(L, n)

\* The packets after D, the first k of them, come out.
Delivers(b, up, D, D2) ==
  \E k \in Nat : Len(D) + k <= up /\ D2 = D \o [j \in 1 .. k |-> ContentOf(b, Len(D) + j)]

\* From D and L, with nothing held back, to D2 and L2.
Moves(b, up, D, L, D2, L2) ==
  /\ \A m : Took(D, L, m) => Took(D2, L2, m)
  /\ Era(LastOf(b, Len(D))) <= Era(LastOf(b, Len(D2)))
  /\ Delivers(b, up, D, D2)

\* The list L without its first k entries, the parts of which join D.
Splits(D, L, k, D2, L2) ==
  /\ k = Ready(L)
  /\ D2 = D \o [i \in 1 .. k |-> L[i].parts]
  /\ L2 = Rest(L, k)

LEMMA SeqIs ==
  ASSUME NEW X, NEW k \in Nat, NEW g \in [1 .. k -> X]
  PROVE  g \in Seq(X) /\ Len(g) = k
OBVIOUS

RestOf(q, s, k, v) == Len(q) = v /\ \A i \in 1 .. v : q[i] = s[k + i]

LEMMA RestIs ==
  ASSUME NEW X, NEW s \in Seq(X), NEW k \in 0 .. Len(s), NEW v, v = Len(s) - k
  PROVE  Rest(s, k) \in Seq(X) /\ RestOf(Rest(s, k), s, k, v)
BY DEF Rest, RestOf

\* What becomes of the packets handed out.
LEMMA MovesIs ==
  ASSUME base \in Bases, NEW up, NEW hi, NEW D, NEW L, NEW ps, NEW r, current = Number(r),
         Receives(base, up, hi, D, L, ps, r),
         NEW k, NEW D2, NEW L2, Splits(D, L, k, D2, L2)
  PROVE  /\ ReceiverIs(base, up, hi, D2, L2, Reached(L, k))
         /\ Moves(base, up, D, L, D2, L2)
<1>0. PacketCount \in Nat /\ WindowSize \in Nat /\ FreeWindows \in Nat  BY StartsAre, Sizes
<1>1. PICK d \in Nat : d = Len(D) /\ d <= up /\ D \in Seq(Seq(Nat))
  <2>1. D \in Seq(Seq(Nat)) /\ Len(D) <= up  BY DEF Receives, DeliveredIs
  <2>2. Len(D) \in Nat  BY <2>1
  <2> QED BY <2>1, <2>2
<1>2. /\ up \in 0 .. PacketCount /\ hi \in Nat /\ hi <= LastOf(base, up)
      /\ r = LastOf(base, d) /\ r <= hi
      /\ Era(hi) <= Era(r) + FreeWindows
      /\ ListIs(base, L, ps, d, up, Era(r) + FreeWindows - 2, hi)
      /\ \A p \in 1 .. d : D[p] = ContentOf(base, p)
  BY <1>1 DEF Receives, DeliveredIs
<1>3. up \in Nat /\ d \in 0 .. PacketCount  BY <1>0, <1>1, <1>2
<1>4. r \in Nat  BY <1>2, <1>3, FromIs
<1>5. PICK l \in Nat : l = Len(L) /\ L \in Seq(Entries) /\ ps \in Seq(Nat) /\ Len(ps) = l
  <2>1. L \in Seq(Entries) /\ ps \in Seq(Nat) /\ Len(ps) = Len(L)  BY <1>2 DEF ListIs
  <2>2. Len(L) \in Nat  BY <2>1
  <2> QED BY <2>1, <2>2
<1>6. /\ k \in 0 .. l /\ k \in Nat
      /\ k < l => ~(Whole(L[k + 1]) /\ L[k + 1].seq = (Reached(L, k) + 1) % Modulus)
  <2>1. k \in 0 .. l /\ (k < l => ~(Whole(L[k + 1]) /\ L[k + 1].seq = (Reached(L, k) + 1) % Modulus))
    BY <1>5, ReadyIs DEF Splits
  <2> QED BY <2>1
<1>7. Dispatches(base, L, ps, d, up, hi, k)
  <2>1. ListIs(base, L, ps, d, up, Era(LastOf(base, d)) + FreeWindows - 2, hi)  BY <1>2
  <2> QED BY <2>1, <1>1, <1>2, DispatchIs DEF Splits
<1>8. /\ d + k <= up
      /\ \A j \in 1 .. k : ps[j] = d + j /\ L[j].parts = ContentOf(base, d + j)
      /\ k > 0 => LastOf(base, d + k) <= hi
      /\ Reached(L, k) = Number(LastOf(base, d + k))
  BY <1>7 DEF Dispatches
<1>9. PICK g : g = [i \in 1 .. k |-> L[i].parts]  OBVIOUS
<1>10. g \in Seq(Seq(Nat)) /\ Len(g) = k /\ \A i \in 1 .. k : g[i] = L[i].parts
  <2>1. \A i \in 1 .. k : L[i] \in Entries  BY <1>5, <1>6
  <2>2. \A i \in 1 .. k : L[i].parts \in Seq(Nat)  BY <2>1 DEF Entries
  <2>3. g \in [1 .. k -> Seq(Nat)]  BY <1>9, <2>2
  <2>4. g \in Seq(Seq(Nat)) /\ Len(g) = k  BY <2>3, <1>6, SeqIs
  <2> QED BY <2>4, <1>9
<1>11. D2 \in Seq(Seq(Nat)) /\ Joined(D2, D, g)
  <2>1. D2 = D \o g  BY <1>9 DEF Splits
  <2> QED BY <2>1, <1>1, <1>10, JoinIs
<1>12. /\ Len(D2) = d + k /\ \A i \in 1 .. d : D2[i] = D[i]
       /\ \A i \in 1 .. k : D2[d + i] = g[i]
  BY <1>1, <1>10, <1>11 DEF Joined
<1>13. PICK r2 : r2 = LastOf(base, d + k)  OBVIOUS
<1>14. d + k \in 0 .. PacketCount /\ r2 \in Nat
  <2>1. d + k \in 0 .. PacketCount  BY <1>0, <1>2, <1>3, <1>6, <1>8
  <2> QED BY <2>1, <1>13, FromIs
<1>15. r <= r2
  <2>1. CASE k = 0  BY <2>1, <1>2, <1>4, <1>13
  <2>2. CASE k > 0
    <3>1. d + 1 \in 1 .. (PacketCount + 1) /\ d + k + 1 \in 1 .. (PacketCount + 1) /\ d + 1 < d + k + 1
      BY <2>2, <1>0, <1>3, <1>6, <1>14
    <3>2. Start(d + 1) < Start(d + k + 1)  BY <3>1, StartIs
    <3>3. From(base, d + 1) = Start(d + 1) /\ From(base, d + k + 1) = Start(d + k + 1)
      BY <3>1, FromIs
    <3>4. r + 1 = From(base, d + 1) /\ r2 + 1 = From(base, d + k + 1)
      BY <1>2, <1>3, <1>13, <1>14, FromIs
    <3>5. r + 1 < r2 + 1  BY <3>2, <3>3, <3>4
    <3> QED BY <3>5, <1>4, <1>14
  <2> QED BY <2>1, <2>2, <1>6
<1>16. Era(r) <= Era(r2) /\ Era(r) \in Nat /\ Era(r2) \in Nat /\ Era(hi) \in Nat
  BY <1>2, <1>4, <1>14, <1>15, EraLess, EraIs
<1>17. r2 <= hi
  <2>1. CASE k = 0  BY <2>1, <1>2, <1>3, <1>13
  <2>2. CASE k > 0  BY <2>2, <1>8, <1>13
  <2> QED BY <2>1, <2>2, <1>6
<1>18. Era(hi) <= Era(r2) + FreeWindows  BY <1>0, <1>2, <1>16
<1>19. DeliveredIs(base, D2, up)
  <2>1. ASSUME NEW p \in 1 .. Len(D2) PROVE D2[p] = ContentOf(base, p)
    <3>1. p \in 1 .. (d + k)  BY <1>12
    <3>2. CASE p \in 1 .. d  BY <3>2, <1>2, <1>12
    <3>3. CASE p > d
      <4>1. PICK j \in 1 .. k : p = d + j
        <5>1. p - d \in 1 .. k /\ p = d + (p - d)  BY <3>1, <3>3, <1>6
        <5> QED BY <5>1
      <4>2. D2[d + j] = ContentOf(base, d + j)  BY <1>8, <1>10, <1>12
      <4> QED BY <4>1, <4>2
    <3> QED BY <3>1, <3>2, <3>3
  <2> QED BY <2>1, <1>8, <1>11, <1>12 DEF DeliveredIs
<1>20. PICK q : q = Rest(ps, k)  OBVIOUS
<1>21. PICK v \in Nat : v = l - k
  <2>1. l - k \in Nat  BY <1>6
  <2> QED BY <2>1
<1>22. q \in Seq(Nat) /\ Len(q) = v /\ \A i \in 1 .. v : q[i] = ps[k + i]
  <2>1. k \in 0 .. Len(ps) /\ v = Len(ps) - k  BY <1>5, <1>6, <1>21
  <2>2. q \in Seq(Nat) /\ RestOf(q, ps, k, v)  BY <2>1, <1>5, <1>20, RestIs
  <2> QED BY <2>2 DEF RestOf
<1>23. L2 \in Seq(Entries) /\ Len(L2) = v /\ \A i \in 1 .. v : L2[i] = L[k + i]
  <2>1. k \in 0 .. Len(L) /\ v = Len(L) - k  BY <1>5, <1>6, <1>21
  <2>2. L2 = Rest(L, k)  BY DEF Splits
  <2>3. L2 \in Seq(Entries) /\ RestOf(L2, L, k, v)  BY <2>1, <2>2, <1>5, RestIs
  <2> QED BY <2>3 DEF RestOf
<1>24. \A i \in 1 .. l : /\ d < ps[i] /\ ps[i] <= up /\ Era(From(base, ps[i])) <= Era(r) + FreeWindows - 2
                         /\ EntryIs(base, L[i], ps[i], hi) /\ ps[i] \in Nat
  BY <1>2, <1>5 DEF ListIs
<1>25. \A i, j \in 1 .. l : i < j => ps[i] < ps[j]  BY <1>2, <1>5 DEF ListIs
<1>26. ASSUME NEW i \in 1 .. Len(L2)
       PROVE /\ d + k < q[i] /\ q[i] <= up /\ Era(From(base, q[i])) <= Era(r2) + FreeWindows - 2
             /\ EntryIs(base, L2[i], q[i], hi)
  <2>1. i \in 1 .. v /\ k + i \in 1 .. l  BY <1>6, <1>21, <1>23
  <2>2. q[i] = ps[k + i] /\ L2[i] = L[k + i]  BY <2>1, <1>22, <1>23
  <2>3. d + k < ps[k + i]
    <3>1. CASE k = 0  BY <3>1, <2>1, <1>24
    <3>2. CASE k > 0
      <4>1. k \in 1 .. l /\ k \in 1 .. k /\ k < k + i  BY <3>2, <2>1, <1>6
      <4>2. ps[k] < ps[k + i] /\ ps[k] = d + k  BY <4>1, <2>1, <1>8, <1>25
      <4> QED BY <4>2
    <3> QED BY <3>1, <3>2, <1>6
  <2>4. Era(From(base, ps[k + i])) <= Era(r2) + FreeWindows - 2
    <3>1. ps[k + i] \in 1 .. (PacketCount + 1)  BY <2>1, <1>0, <1>2, <1>24
    <3>2. From(base, ps[k + i]) \in Nat  BY <3>1, FromIs
    <3>3. Era(From(base, ps[k + i])) \in Nat  BY <3>2, EraIs
    <3>4. Era(From(base, ps[k + i])) <= Era(r) + FreeWindows - 2  BY <2>1, <1>24
    <3> QED BY <3>3, <3>4, <1>0, <1>16
  <2> QED BY <2>1, <2>2, <2>3, <2>4, <1>24
<1>27. ASSUME NEW i \in 1 .. Len(L2), NEW j \in 1 .. Len(L2), i < j PROVE q[i] < q[j]
  <2>1. k + i \in 1 .. l /\ k + j \in 1 .. l /\ k + i < k + j  BY <1>6, <1>21, <1>23, <1>27
  <2>2. q[i] = ps[k + i] /\ q[j] = ps[k + j]  BY <1>22, <1>23
  <2> QED BY <2>1, <2>2, <1>25
<1>28. ListIs(base, L2, q, d + k, up, Era(r2) + FreeWindows - 2, hi)
  BY <1>22, <1>23, <1>26, <1>27 DEF ListIs
<1>29. Receives(base, up, hi, D2, L2, q, LastOf(base, Len(D2)))
  BY <1>2, <1>12, <1>13, <1>17, <1>18, <1>19, <1>28 DEF Receives
<1>30. Stuck(L2, Reached(L, k))
  <2> SUFFICES ASSUME L2 # <<>>
               PROVE ~(Whole(L2[1]) /\ L2[1].seq = (Reached(L, k) + 1) % Modulus)
    BY DEF Stuck
  <2>1. v > 0  BY <1>23
  <2>2. k < l /\ 1 \in 1 .. v  BY <2>1, <1>6, <1>21
  <2>3. L2[1] = L[k + 1]  BY <2>2, <1>23
  <2> QED BY <2>2, <2>3, <1>6
<1>31. ReceiverIs(base, up, hi, D2, L2, Reached(L, k))
  <2>1. Reached(L, k) = Number(LastOf(base, Len(D2)))  BY <1>8, <1>12
  <2> QED BY <2>1, <1>29, <1>30 DEF ReceiverIs
<1>32. ASSUME NEW m, Took(D, L, m) PROVE Took(D2, L2, m)
  <2>0. DOMAIN D = 1 .. d /\ DOMAIN D2 = 1 .. (d + k) /\ DOMAIN L = 1 .. l /\ DOMAIN L2 = 1 .. v
    BY <1>1, <1>5, <1>11, <1>12, <1>23
  <2>1. CASE Holds(D, m)
    <3>1. PICK i \in 1 .. d : \E j \in DOMAIN D[i] : D[i][j] = m  BY <2>0, <2>1 DEF Holds
    <3>2. i \in DOMAIN D2 /\ D2[i] = D[i]  BY <2>0, <1>6, <1>12
    <3> QED BY <3>1, <3>2 DEF Holds, Took
  <2>2. CASE Gathers(L, m)
    <3>1. PICK i \in 1 .. l : \E j \in DOMAIN L[i].parts : L[i].parts[j] = m
      BY <2>0, <2>2 DEF Gathers
    <3>2. CASE i \in 1 .. k
      <4>1. D2[d + i] = L[i].parts /\ d + i \in DOMAIN D2  BY <3>2, <2>0, <1>6, <1>10, <1>12
      <4> QED BY <3>1, <4>1 DEF Holds, Took
    <3>3. CASE i > k
      <4>1. PICK j \in 1 .. v : i = k + j
        <5>1. i - k \in 1 .. v /\ i = k + (i - k)  BY <3>3, <1>6, <1>21
        <5> QED BY <5>1
      <4>2. L2[j] = L[i] /\ j \in DOMAIN L2  BY <4>1, <2>0, <1>23
      <4> QED BY <3>1, <4>2 DEF Gathers, Took
    <3> QED BY <3>2, <3>3, <1>6
  <2> QED BY <2>1, <2>2, <1>32 DEF Took
<1>33. Delivers(base, up, D, D2)
  <2>1. g = [j \in 1 .. k |-> ContentOf(base, Len(D) + j)]  BY <1>1, <1>8, <1>9
  <2>2. D2 = D \o [j \in 1 .. k |-> ContentOf(base, Len(D) + j)]  BY <2>1, <1>9 DEF Splits
  <2>3. Len(D) + k <= up  BY <1>1, <1>8
  <2> QED BY <2>2, <2>3, <1>6 DEF Delivers
<1>34. Era(LastOf(base, Len(D))) <= Era(LastOf(base, Len(D2)))
  BY <1>1, <1>2, <1>12, <1>13, <1>16
<1> QED BY <1>31, <1>32, <1>33, <1>34 DEF Moves

-----------------------------------------------------------------------------
(* What is true of the network and of what the sender concludes from it:   *)
(* commands under way are no older than MaxAge, an answer is about a command*)
(* the receiver has, so is every command sent and not outstanding.         *)

\* The era of the last command that came out.
Out(b, D) == Era(LastOf(b, Len(D)))

\* In the network are commands, and answers to commands, up to hi.
NetIs(b, hi, ns) == \A n \in ns : n \in Nat /\ b < n /\ n <= hi /\ n > hi - MaxAge

\* The receiver took the command for good.
Safe(b, D, L, n) == Took(D, L, n) /\ Era(n) <= Out(b, D) + FreeWindows - 2

KnownIs(b, D, L, ns) == \A n \in ns : Safe(b, D, L, n)
SentIs(b, fr, S, D, L) == \A n \in (b + 1) .. fr : n \in S \/ Safe(b, D, L, n)

LEMMA ReceiverMore ==
  ASSUME NEW b, NEW up, NEW hi, NEW D, NEW L, NEW c, ReceiverIs(b, up, hi, D, L, c),
         NEW up2 \in 0 .. PacketCount, up <= up2, NEW hi2 \in Nat, hi <= hi2, hi2 <= LastOf(b, up2),
         Era(hi2) <= Out(b, D) + FreeWindows, LastOf(b, Len(D)) \in Nat
  PROVE  ReceiverIs(b, up2, hi2, D, L, c)
<1>0. PacketCount \in Nat  BY StartsAre
<1>1. PICK r \in Nat : r = LastOf(b, Len(D))  OBVIOUS
<1>2. PICK ps : Receives(b, up, hi, D, L, ps, r)  BY <1>1 DEF ReceiverIs
<1>3. /\ up \in 0 .. PacketCount /\ hi \in Nat
      /\ D \in Seq(Seq(Nat)) /\ Len(D) <= up /\ \A p \in 1 .. Len(D) : D[p] = ContentOf(b, p)
      /\ r <= hi
      /\ ListIs(b, L, ps, Len(D), up, Era(r) + FreeWindows - 2, hi)
  BY <1>2 DEF Receives, DeliveredIs
<1>4. Len(D) <= up2
  <2>1. Len(D) \in Nat  BY <1>3
  <2> QED BY <2>1, <1>0, <1>3
<1>5. L \in Seq(Entries) /\ ps \in Seq(Nat) /\ Len(ps) = Len(L) /\ Len(L) \in Nat
  <2>1. L \in Seq(Entries) /\ ps \in Seq(Nat) /\ Len(ps) = Len(L)  BY <1>3 DEF ListIs
  <2> QED BY <2>1
<1>6. \A i \in 1 .. Len(L) : /\ Len(D) < ps[i] /\ ps[i] <= up /\ Era(From(b, ps[i])) <= Era(r) + FreeWindows - 2
                             /\ EntryIs(b, L[i], ps[i], hi)
  BY <1>3 DEF ListIs
<1>7. ASSUME NEW i \in 1 .. Len(L) PROVE ps[i] <= up2 /\ EntryIs(b, L[i], ps[i], hi2)
  <2>1. ps[i] \in Nat /\ ps[i] <= up  BY <1>5, <1>6
  <2>2. ps[i] <= up2  BY <2>1, <1>0, <1>3
  <2>3. L[i] \in Entries  BY <1>5
  <2>4. L[i].parts \in Seq(Nat)  BY <2>3 DEF Entries
  <2>5. EntryIs(b, L[i], ps[i], hi)  BY <1>6
  <2>6. ASSUME NEW k \in DOMAIN L[i].parts, L[i].parts[k] # Missing
        PROVE L[i].parts[k] = From(b, ps[i]) + k - 1 /\ L[i].parts[k] <= hi2
    <3>1. L[i].parts[k] = From(b, ps[i]) + k - 1 /\ L[i].parts[k] <= hi  BY <2>5, <2>6 DEF EntryIs
    <3>2. L[i].parts[k] \in Nat  BY <2>4
    <3> QED BY <3>1, <3>2, <1>3
  <2>7. EntryIs(b, L[i], ps[i], hi2)  BY <2>5, <2>6 DEF EntryIs
  <2> QED BY <2>2, <2>7
<1>8. \A i, j \in 1 .. Len(L) : i < j => ps[i] < ps[j]  BY <1>3 DEF ListIs
<1>9. ListIs(b, L, ps, Len(D), up2, Era(r) + FreeWindows - 2, hi2)
  BY <1>5, <1>6, <1>7, <1>8 DEF ListIs
<1>10. DeliveredIs(b, D, up2)  BY <1>3, <1>4 DEF DeliveredIs
<1>11. r <= hi2  BY <1>3
<1>12. Era(hi2) <= Era(r) + FreeWindows  BY <1>1 DEF Out
<1>13. Receives(b, up2, hi2, D, L, ps, r)  BY <1>1, <1>9, <1>10, <1>11, <1>12 DEF Receives
<1> QED BY <1>1, <1>13 DEF ReceiverIs

\* What is queued are commands.
LEMMA QueuesType ==
  ASSUME base \in Bases, NEW t \in Nat, t < Start(PacketCount + 1), NEW s, NEW o, NEW fr,
         Queues(base, t, s, o, fr)
  PROVE  s \in Seq(Commands) /\ o \in Seq(Commands)
<1>1. \A n \in Nat : n > base /\ n <= t => n \in Commands
  <2> SUFFICES ASSUME NEW n \in Nat, n > base, n <= t PROVE n \in Commands  OBVIOUS
  <2>1. PacketCount + 1 \in 1 .. (PacketCount + 1)
    <3>1. PacketCount \in Nat  BY StartsAre
    <3> QED BY <3>1
  <2>2. Start(PacketCount + 1) \in Nat  BY <2>1, StartIs
  <2>3. n < Start(PacketCount + 1)  BY <2>2
  <2> QED BY <2>3, CommandsAre
<1>2. /\ base \in Nat /\ fr \in base .. t /\ fr \in Nat /\ fr <= t
      /\ t - fr <= Len(o)
      /\ Ends(o, Len(o) - (t - fr), fr)
      /\ s \in Seq(Nat) /\ ToSet(s) \subseteq (base + 1) .. fr
      /\ \A n \in ToSet(o) : n > base
  <2>1. base \in Nat  BY BaseIs
  <2> QED BY <2>1 DEF Queues
<1>3. s \in Seq(Commands)
  <2>1. ToSet(s) \subseteq Commands
    <3> SUFFICES ASSUME NEW n \in ToSet(s) PROVE n \in Commands  OBVIOUS
    <3>1. n \in (base + 1) .. fr  BY <1>2
    <3>2. n \in Nat /\ n > base /\ n <= t  BY <3>1, <1>2
    <3> QED BY <3>2, <1>1
  <2> QED BY <2>1, <1>2, SeqDown
<1>4. o \in Seq(Commands)
  <2>1. o \in Seq(Nat)  BY <1>2 DEF Ends
  <2>2. PICK l \in Nat : l = Len(o) /\ DOMAIN o = 1 .. l  BY <2>1
  <2>3. PICK m : m = l - (t - fr) /\ Ends(o, m, fr)  BY <2>2, <1>2
  <2>4. m \in Nat  BY <2>2, <2>3, <1>2
  <2>5. ASSUME NEW j \in 1 .. l PROVE o[j] \in Commands
    <3>1. o[j] \in ToSet(o)  BY <2>2 DEF ToSet
    <3>2. o[j] > base  BY <3>1, <1>2
    <3>3. o[j] \in Nat  BY <2>1, <2>2
    <3>4. CASE j <= m
      <4>1. j \in 1 .. m  BY <3>4, <2>4
      <4>2. o[j] <= fr  BY <4>1, <2>3 DEF Ends
      <4> QED BY <4>2, <3>2, <3>3, <1>1, <1>2
    <3>5. CASE j > m
      <4>1. j \in (m + 1) .. Len(o)  BY <3>5, <2>2, <2>4
      <4>2. o[j] = fr + (j - m)  BY <4>1, <2>3 DEF Ends
      <4>3. fr + (j - m) <= t  BY <2>3, <1>2, <2>2, <2>4
      <4> QED BY <4>2, <4>3, <3>2, <3>3, <1>1
    <3> QED BY <3>4, <3>5, <2>4
  <2>6. ToSet(o) \subseteq Commands  BY <2>2, <2>5 DEF ToSet
  <2> QED BY <2>1, <2>6, SeqDown
<1> QED BY <1>3, <1>4

\* A command arrives.
Received(n, hi) ==
  /\ ReceiverIs(base, queued, hi, delivered', arrived', current')
  /\ \A m : m # Missing /\ Took(delivered, arrived, m) => Took(delivered', arrived', m)
  /\ Out(base, delivered) <= Out(base, delivered') /\ Out(base, delivered) \in Nat
  /\ Out(base, delivered') \in Nat
  /\ Delivers(base, queued, delivered, delivered')
  /\ answers' = answers \/ (answers' = answers \cup {n} /\ Safe(base, delivered', arrived', n))

LEMMA OutNat ==
  ASSUME base \in Bases, NEW up, NEW hi, NEW D, NEW L, NEW c, ReceiverIs(base, up, hi, D, L, c)
  PROVE  /\ LastOf(base, Len(D)) \in Nat /\ Out(base, D) \in Nat
         /\ Len(D) \in 0 .. PacketCount /\ up \in 0 .. PacketCount /\ D \in Seq(Seq(Nat)) /\ Len(D) <= up
         /\ hi \in Nat /\ LastOf(base, Len(D)) <= hi /\ hi <= LastOf(base, up)
         /\ Era(hi) <= Out(base, D) + FreeWindows
         /\ c = Number(LastOf(base, Len(D))) /\ base <= LastOf(base, Len(D))
<1>0. PacketCount \in Nat  BY StartsAre
<1>1. PICK r : r = LastOf(base, Len(D))  OBVIOUS
<1>2. PICK ps : Receives(base, up, hi, D, L, ps, r)  BY <1>1 DEF ReceiverIs
<1>3. /\ up \in 0 .. PacketCount /\ hi \in Nat /\ D \in Seq(Seq(Nat)) /\ Len(D) <= up
      /\ r <= hi /\ hi <= LastOf(base, up) /\ Era(hi) <= Era(r) + FreeWindows
  BY <1>2 DEF Receives, DeliveredIs
<1>4. Len(D) \in 0 .. PacketCount
  <2>1. Len(D) \in Nat  BY <1>3
  <2> QED BY <2>1, <1>0, <1>3
<1>5. r \in Nat /\ r >= base  BY <1>1, <1>4, FromIs
<1>6. base \in Nat  BY BaseIs
<1>7. Out(base, D) = Era(r) /\ Era(r) \in Nat  BY <1>1, <1>5, EraIs DEF Out
<1>8. c = Number(r)  BY <1>1 DEF ReceiverIs
<1> QED BY <1>1, <1>3, <1>4, <1>5, <1>6, <1>7, <1>8

\* An answer goes back only for what is safe.
LEMMA AnswerIs ==
  ASSUME base \in Bases, NEW up, NEW hi, NEW D, NEW L, NEW c, ReceiverIs(base, up, hi, D, L, c),
         NEW n \in Nat, n <= hi, n > hi - MaxAge,
         Ahead(Number(n), c) - Window(c) \notin {FreeWindows - 1, FreeWindows}
  PROVE  Era(n) <= Out(base, D) + FreeWindows - 2
<1>1. PICK r \in Nat : r = LastOf(base, Len(D))  BY OutNat
<1>2. r <= hi /\ hi \in Nat /\ Era(hi) <= Era(r) + FreeWindows /\ c = Number(r)
  BY <1>1, OutNat DEF Out
<1>3. n < n + WindowSize
  <2>1. WindowSize \in Nat /\ WindowSize # 0  BY Sizes
  <2> QED BY <2>1
<1>4. Near(r, hi, n, n)  BY <1>2, <1>3 DEF Near
<1>5. Within(r, n)  BY <1>4, NearIs
<1>6. CASE n >= r
  <2>1. Era(n) <= Era(r) + FreeWindows - 2  BY <1>2, <1>5, <1>6, AheadWindow
  <2> QED BY <2>1, <1>1 DEF Out
<1>7. CASE n < r
  <2>1. Era(n) <= Era(r)  BY <1>7, EraLess
  <2>2. Era(n) \in Nat /\ Era(r) \in Nat /\ FreeWindows \in Nat /\ FreeWindows >= 3  BY EraIs, Sizes
  <2>3. Era(n) <= Era(r) + FreeWindows - 2  BY <2>1, <2>2
  <2> QED BY <2>3, <1>1 DEF Out
<1> QED BY <1>6, <1>7

\* Nothing comes out of a list nothing was added to.
LEMMA StuckIs ==
  ASSUME NEW L \in Seq(Entries), Stuck(L, current), NEW k, k = Ready(L)
  PROVE  k = 0
<1>1. PICK l \in Nat : l = Len(L)  OBVIOUS
<1>2. k \in 0 .. l /\ \A j \in 1 .. k : Whole(L[j]) /\ L[j].seq = (Reached(L, j - 1) + 1) % Modulus
  BY <1>1, ReadyIs
<1>3. CASE k > 0
  <2>1. 1 \in 1 .. k /\ L # <<>>  BY <1>1, <1>2, <1>3
  <2>2. Whole(L[1]) /\ L[1].seq = (Reached(L, 1 - 1) + 1) % Modulus  BY <2>1, <1>2
  <2>3. Reached(L, 1 - 1) = current
    <3>1. 1 - 1 = 0  OBVIOUS
    <3> QED BY <3>1 DEF Reached
  <2> QED BY <2>1, <2>2, <2>3 DEF Stuck
<1> QED BY <1>2, <1>3

\* What a step of the receiver does.
LEMMA ReceiveIs ==
  ASSUME base \in Bases, NEW hi, ReceiverIs(base, queued, hi, delivered, arrived, current),
         NEW n \in Nat, n > base, n <= hi, n > hi - MaxAge, Receive(n)
  PROVE  Received(n, hi)
<1>1. PICK list, k :
        /\ list = IF Len(Packets[PacketOf(n)]) = 1 THEN QueueReliable(n) ELSE QueueFragment(n)
        /\ k = Ready(list)
        /\ arrived' = SubSeq(list, k + 1, Len(list))
        /\ delivered' = delivered \o [i \in 1 .. k |-> list[i].parts]
        /\ current' = Reached(list, k)
  BY DEF Receive
<1>2. Splits(delivered, list, k, delivered', arrived')  BY <1>1 DEF Splits, Rest
<1>3. PICK r \in Nat : r = LastOf(base, Len(delivered)) /\ r = LastOf(base, Len(delivered))
  BY OutNat
<1>4. PICK ps : Receives(base, queued, hi, delivered, arrived, ps, r)  BY <1>3 DEF ReceiverIs
<1>5. current = Number(r) /\ Stuck(arrived, current)  BY <1>3 DEF ReceiverIs
<1>6. Arrives(base, queued, hi, delivered, arrived, r, n, list)
  <2>1. ~Refused(n)  BY DEF Receive
  <2> QED BY <2>1, <1>1, <1>4, <1>5, ArrivesIs
<1>7. \E qs : Receives(base, queued, hi, delivered, list, qs, r)
  <2>1. CASE list = arrived  BY <2>1, <1>4
  <2>2. CASE Gathered(base, arrived, list, Len(delivered), queued, Era(r) + FreeWindows - 2, hi, n)
    <3>1. PICK qs : ListIs(base, list, qs, Len(delivered), queued, Era(r) + FreeWindows - 2, hi)
      BY <2>2 DEF Gathered
    <3>2. Receives(base, queued, hi, delivered, list, qs, r)  BY <3>1, <1>4 DEF Receives
    <3> QED BY <3>2
  <2> QED BY <2>1, <2>2, <1>6 DEF Arrives
<1>8. PICK qs : Receives(base, queued, hi, delivered, list, qs, r)  BY <1>7
<1>9. /\ ReceiverIs(base, queued, hi, delivered', arrived', Reached(list, k))
      /\ Moves(base, queued, delivered, list, delivered', arrived')
  BY <1>2, <1>5, <1>8, MovesIs
<1>10. ReceiverIs(base, queued, hi, delivered', arrived', current')  BY <1>1, <1>9
<1>11. /\ \A m : Took(delivered, list, m) => Took(delivered', arrived', m)
       /\ Out(base, delivered) <= Out(base, delivered')
       /\ Delivers(base, queued, delivered, delivered')
  BY <1>9 DEF Moves, Out
<1>12. \A m : m # Missing /\ Took(delivered, arrived, m) => Took(delivered, list, m)
  <2>1. CASE list = arrived  BY <2>1
  <2>2. CASE Gathered(base, arrived, list, Len(delivered), queued, Era(r) + FreeWindows - 2, hi, n)
    BY <2>2 DEF Gathered, Took
  <2> QED BY <2>1, <2>2, <1>6 DEF Arrives
<1>13. Out(base, delivered) \in Nat /\ Out(base, delivered') \in Nat  BY <1>10, OutNat
<1>14. answers' = answers \/ (answers' = answers \cup {n} /\ Safe(base, delivered', arrived', n))
  <2> SUFFICES ASSUME answers' # answers
               PROVE answers' = answers \cup {n} /\ Safe(base, delivered', arrived', n)
    OBVIOUS
  <2>1. /\ Ahead(Number(n), current') - Window(current') \notin {FreeWindows - 1, FreeWindows}
        /\ answers' = answers \cup {n}
    BY DEF Receive
  <2>2. Era(n) <= Out(base, delivered') + FreeWindows - 2  BY <2>1, <1>10, AnswerIs
  <2>3. Took(delivered, list, n)
    <3>1. CASE list = arrived /\ Holds(delivered, n)  BY <3>1 DEF Took
    <3>2. CASE Gathered(base, arrived, list, Len(delivered), queued, Era(r) + FreeWindows - 2, hi, n)
      BY <3>2 DEF Gathered, Took
    <3>3. CASE list = arrived /\ Era(n) > Era(r) + FreeWindows - 2
      <4>1. arrived \in Seq(Entries)  BY <1>4 DEF Receives, ListIs
      <4>2. k = 0  BY <3>3, <4>1, <1>1, <1>5, StuckIs
      <4>3. current' = current  BY <4>2, <1>1 DEF Reached
      <4>4. Era(n) <= Out(base, delivered) + FreeWindows - 2  BY <2>1, <4>3, AnswerIs
      <4>5. Out(base, delivered) = Era(r)  BY <1>3 DEF Out
      <4>6. Era(n) \in Nat /\ Era(r) \in Nat /\ FreeWindows \in Nat  BY EraIs, Sizes
      <4> QED BY <3>3, <4>4, <4>5, <4>6
    <3> QED BY <3>1, <3>2, <3>3, <1>6 DEF Arrives
  <2>4. Took(delivered', arrived', n)  BY <2>3, <1>11
  <2> QED BY <2>1, <2>2, <2>4 DEF Safe
<1> QED BY <1>10, <1>11, <1>12, <1>13, <1>14 DEF Received

-----------------------------------------------------------------------------
(* The invariant of the channel, and its beginning.                        *)

Closed == /\ outgoing = <<>> /\ sent = <<>> /\ fresh = base
          /\ windows = [w \in 0 .. (Windows - 1) |-> 0]

\* The network and the receiver, when hi is the last command sent.
WireIs(hi) ==
  /\ NetIs(base, hi, data \cup answers)
  /\ ReceiverIs(base, queued, hi, delivered, arrived, current)
  /\ KnownIs(base, delivered, arrived, answers)

\* The inductive invariant: while the sender holds the peer it knows what it sent;
\* after it gave up, what is still under way was sent before.
EnetInv ==
  /\ EType
  /\ open => SenderIs /\ WireIs(fresh) /\ SentIs(base, fresh, Outstanding, delivered, arrived)
  /\ ~open => Closed /\ \E hi : WireIs(hi)

LEMMA TopLast ==
  ASSUME base \in Bases
  PROVE  Top = LastOf(base, queued)
BY DEF Top, LastOf, Start, From

LEMMA LimitsAre ==
  /\ Max(Limits) \in Limits /\ UintRange \in Nat /\ UintRange > 0 /\ Patience \in Nat
<1>1. PICK l \in Limits : TRUE  BY BoundAssumption
<1>2. UintRange \in Nat /\ UintRange > 0  BY <1>1, BoundAssumption
<1>3. Limits \subseteq 0 .. UintRange  BY <1>2, BoundAssumption
<1>4. IsFiniteSet(Limits)
  <2>1. IsFiniteSet(0 .. UintRange)  BY <1>2, FS_Interval
  <2> QED BY <2>1, <1>3, FS_Subset
<1>5. Max(Limits) \in Limits
  <2>1. Limits # {} /\ Limits \subseteq Int  BY BoundAssumption
  <2> QED BY <2>1, <1>4, MaxIs
<1> QED BY <1>2, <1>5, BoundAssumption

LEMMA FirstQueues ==
  ASSUME NEW b \in Nat
  PROVE  Queues(b, b, <<>>, <<>>, b) /\ OutOf(<<>>, <<>>, b) = {}
<1>1. PICK e : e = <<>>  OBVIOUS
<1>2. e \in Seq(Nat) /\ Len(e) = 0 /\ DOMAIN e = {}  BY <1>1
<1>3. ToSet(e) = {}  BY <1>2 DEF ToSet
<1>4. Ends(e, 0, b)  BY <1>2 DEF Ends
<1>5. Len(e) - (b - b) = 0 /\ b \in b .. b /\ b - b <= Len(e)  BY <1>2
<1>6. Queues(b, b, e, e, b)  BY <1>2, <1>3, <1>4, <1>5 DEF Queues
<1>7. OutOf(e, e, b) = {}
  <2>1. ToSet(e \o e) = ToSet(e) \cup ToSet(e)  BY <1>2, ConcatSet
  <2> QED BY <2>1, <1>3 DEF OutOf
<1> QED BY <1>1, <1>6, <1>7

LEMMA FirstReceiver ==
  ASSUME base \in Bases
  PROVE  ReceiverIs(base, 0, base, <<>>, <<>>, Number(base))
<1>0. PacketCount \in Nat /\ FreeWindows \in Nat  BY StartsAre, Sizes
<1>1. base \in Nat  BY BaseIs
<1>2. LastOf(base, 0) = base
  <2>1. 0 \in 0 .. PacketCount /\ 1 \in 1 .. (PacketCount + 1) /\ 0 + 1 = 1  BY <1>0
  <2>2. LastOf(base, 0) + 1 = Start(1) /\ Start(1) = base + 1 /\ LastOf(base, 0) \in Nat
    <3>1. LastOf(base, 0) + 1 = From(base, 0 + 1) /\ LastOf(base, 0) \in Nat  BY <2>1, FromIs
    <3>2. From(base, 1) = Start(1)  BY <2>1, FromIs
    <3>3. Start(1) = base + 1  BY StartIs
    <3> QED BY <3>1, <3>2, <3>3, <2>1
  <2> QED BY <2>2, <1>1
<1>3. PICK e : e = <<>>  OBVIOUS
<1>4. Len(e) = 0 /\ e \in Seq(Seq(Nat)) /\ e \in Seq(Entries) /\ e \in Seq(Nat)  BY <1>3
<1>5. DeliveredIs(base, e, 0)  BY <1>4 DEF DeliveredIs
<1>6. ListIs(base, e, e, 0, 0, Era(base) + FreeWindows - 2, base)  BY <1>4 DEF ListIs
<1>7. Era(base) \in Nat  BY <1>1, EraIs
<1>8. Receives(base, 0, base, e, e, e, base)
  <2>1. 0 \in 0 .. PacketCount /\ base <= LastOf(base, 0) /\ Era(base) <= Era(base) + FreeWindows
    BY <1>0, <1>1, <1>2, <1>7
  <2> QED BY <2>1, <1>1, <1>2, <1>4, <1>5, <1>6 DEF Receives
<1>9. Stuck(e, Number(base))  BY <1>3 DEF Stuck
<1> QED BY <1>2, <1>3, <1>4, <1>8, <1>9 DEF ReceiverIs

LEMMA EmptyCount ==
  CountOf({}) = [w \in 0 .. (Windows - 1) |-> 0]
<1>1. \A w : InWindow({}, w) = {}  BY DEF InWindow
<1>2. Cardinality({}) = 0  BY FS_EmptySet
<1>3. \A w : Cardinality(InWindow({}, w)) = 0  BY <1>1, <1>2
<1> QED BY <1>3 DEF CountOf

\* The invariant holds at the start.
LEMMA EnetInit ==
  ASSUME Init
  PROVE  EnetInv
<1>0. PacketCount \in Nat  BY StartsAre
<1>1. /\ base \in Bases /\ queued = 0 /\ outgoing = <<>> /\ sent = <<>> /\ fresh = base
      /\ windows = [w \in 0 .. (Windows - 1) |-> 0]
      /\ transit = 0 /\ limit = Max(Limits) /\ tries = 0 /\ open = TRUE
      /\ data = {} /\ answers = {} /\ current = Number(base) /\ arrived = <<>> /\ delivered = <<>>
  BY DEF Init
<1>2. base \in Nat  BY <1>1, BaseIs
<1>3. EType
  <2>1. limit \in Limits  BY <1>1, LimitsAre
  <2>2. transit \in 0 .. (UintRange - 1) /\ tries \in 0 .. Patience
    <3>1. PICK u \in Nat, v \in Nat : u = UintRange /\ v = Patience /\ u > 0  BY LimitsAre
    <3> QED BY <3>1, <1>1
  <2>3. outgoing \in Seq(Commands) /\ sent \in Seq(Commands)  BY <1>1
  <2> QED BY <2>1, <2>2, <2>3, <1>0, <1>1 DEF EType
<1>4. ReceiverIs(base, queued, fresh, delivered, arrived, current)  BY <1>1, FirstReceiver
<1>5. Top = base
  <2>1. LastOf(base, 0) = base
    <3>1. base <= LastOf(base, 0) /\ base = base  BY <1>1, <1>4, OutNat
    <3>2. LastOf(base, 0) <= base
      <4>1. Len(delivered) = 0  BY <1>1
      <4> QED BY <4>1, <1>1, <1>4, OutNat
    <3>3. LastOf(base, 0) \in Nat
      <4>1. 0 \in 0 .. PacketCount  BY <1>0
      <4> QED BY <4>1, <1>1, FromIs
    <3> QED BY <3>1, <3>2, <3>3, <1>2
  <2> QED BY <2>1, <1>1, TopLast
<1>6. Outstanding = {} /\ Queues(base, Top, sent, outgoing, fresh)
  <2>1. Outstanding = OutOf(sent, outgoing, fresh)  BY DEF Outstanding, OutOf
  <2> QED BY <2>1, <1>1, <1>2, <1>5, FirstQueues
<1>7. SenderIs  BY <1>1, <1>6, EmptyCount DEF SenderIs, Span
<1>8. WireIs(fresh)  BY <1>1, <1>4 DEF WireIs, NetIs, KnownIs
<1>9. SentIs(base, fresh, Outstanding, delivered, arrived)
  <2>1. (base + 1) .. fresh = {}  BY <1>1, <1>2
  <2> QED BY <2>1 DEF SentIs
<1> QED BY <1>1, <1>3, <1>7, <1>8, <1>9 DEF EnetInv

\* What is known stays known.
LEMMA SafeStays ==
  ASSUME NEW b, NEW D, NEW L, NEW D2, NEW L2, Out(b, D) <= Out(b, D2), Out(b, D) \in Nat, Out(b, D2) \in Nat,
         \A m : m # Missing /\ Took(D, L, m) => Took(D2, L2, m),
         NEW n \in Nat, n # Missing, Safe(b, D, L, n)
  PROVE  Safe(b, D2, L2, n)
<1>1. Took(D2, L2, n)  BY DEF Safe
<1>2. Era(n) <= Out(b, D) + FreeWindows - 2  BY DEF Safe
<1>3. Era(n) \in Nat /\ FreeWindows \in Nat  BY EraIs, Sizes
<1>4. Era(n) <= Out(b, D2) + FreeWindows - 2  BY <1>2, <1>3
<1> QED BY <1>1, <1>4 DEF Safe

-----------------------------------------------------------------------------
(* Every action keeps the invariant.                                       *)

LEMMA LastBelow ==
  ASSUME base \in Bases, NEW q \in 0 .. PacketCount
  PROVE  LastOf(base, q) \in Nat /\ LastOf(base, q) < Start(PacketCount + 1)
<1>0. PacketCount \in Nat  BY StartsAre
<1>1. LastOf(base, q) \in Nat /\ LastOf(base, q) + 1 = From(base, q + 1)  BY FromIs
<1>2. q + 1 \in 1 .. (PacketCount + 1) /\ PacketCount + 1 \in 1 .. (PacketCount + 1)  BY <1>0
<1>3. From(base, q + 1) = Start(q + 1)  BY <1>2, FromIs
<1>4. PICK x \in Nat, y \in Nat : x = Start(q + 1) /\ y = Start(PacketCount + 1)
  BY <1>2, StartIs
<1>5. q + 1 < PacketCount + 1 => x < y  BY <1>2, <1>4, StartIs
<1>6. q + 1 = PacketCount + 1 => x = y  BY <1>4
<1>7. q + 1 < PacketCount + 1 \/ q + 1 = PacketCount + 1  BY <1>0
<1> QED BY <1>1, <1>3, <1>4, <1>5, <1>6, <1>7

\* The same for the next state.
LEMMA TopNext ==
  ASSUME base' = base
  PROVE  Top' = LastOf(base, queued')
<1>1. Top' = (Start(queued + 1))' - 1  BY DEF Top
<1>2. (Start(queued + 1))' = base' + Starts[queued' + 1]  BY DEF Start
<1> QED BY <1>1, <1>2 DEF LastOf, From

LEMMA PeerSendInv ==
  ASSUME EnetInv, PeerSend
  PROVE  EnetInv'
<1>1. /\ EType /\ base \in Bases /\ open
      /\ UNCHANGED <<base, limit, data, answers, current, arrived, delivered,
                     sent, fresh, windows, transit, tries, open>>
  BY DEF EnetInv, EType, PeerSend, receiver
<1>2. SenderIs /\ WireIs(fresh) /\ SentIs(base, fresh, Outstanding, delivered, arrived)
  BY <1>1 DEF EnetInv
<1>3. /\ Queues(base, Top', sent', outgoing', fresh) /\ Top <= Top' /\ Top' \in Nat
      /\ Outstanding' = Outstanding
      /\ queued' \in 0 .. PacketCount
  BY <1>1, <1>2, PeerSendIs
<1>4. Top' = LastOf(base, queued') /\ Top = LastOf(base, queued)  BY <1>1, TopNext, TopLast
<1>5. Top' < Start(PacketCount + 1)  BY <1>1, <1>3, <1>4, LastBelow
<1>6. sent' \in Seq(Commands) /\ outgoing' \in Seq(Commands)  BY <1>1, <1>3, <1>5, QueuesType
<1>7. EType'  BY <1>1, <1>3, <1>6 DEF EType
<1>8. SenderIs'  BY <1>1, <1>2, <1>3 DEF SenderIs
<1>9. ReceiverIs(base, queued', fresh, delivered, arrived, current)
  <2>1. ReceiverIs(base, queued, fresh, delivered, arrived, current)  BY <1>2 DEF WireIs
  <2>2. /\ LastOf(base, Len(delivered)) \in Nat /\ fresh \in Nat /\ fresh <= LastOf(base, queued)
        /\ Era(fresh) <= Out(base, delivered) + FreeWindows /\ queued \in 0 .. PacketCount
    BY <1>1, <2>1, OutNat
  <2>3. LastOf(base, queued) \in Nat /\ LastOf(base, queued') \in Nat  BY <1>1, <1>3, <2>2, LastBelow
  <2>4. fresh <= LastOf(base, queued') /\ fresh <= fresh  BY <1>3, <1>4, <2>2, <2>3
  <2>5. queued <= queued'
    <3>1. queued' = queued + 1  BY DEF PeerSend
    <3> QED BY <3>1, <2>2
  <2> QED BY <1>3, <2>1, <2>2, <2>4, <2>5, ReceiverMore
<1>10. WireIs(fresh)'
  <2>1. NetIs(base, fresh, data \cup answers) /\ KnownIs(base, delivered, arrived, answers)
    BY <1>2 DEF WireIs
  <2> QED BY <1>1, <1>9, <2>1 DEF WireIs
<1>11. SentIs(base, fresh, Outstanding, delivered, arrived)'  BY <1>1, <1>2, <1>3
<1> QED BY <1>1, <1>7, <1>8, <1>10, <1>11 DEF EnetInv

LEMMA ServiceInv ==
  ASSUME EnetInv, NEW due, due \subseteq ToSet(sent), Service(due), tries' \in 0 .. Patience
  PROVE  EnetInv'
<1>0. PacketCount \in Nat /\ FreeWindows \in Nat  BY StartsAre, Sizes
<1>1. EType /\ base \in Bases /\ base \in Nat /\ open  BY BaseIs DEF EnetInv, EType, Service
<1>2. SenderIs /\ WireIs(fresh) /\ SentIs(base, fresh, Outstanding, delivered, arrived)
  BY <1>1 DEF EnetInv
<1>3. PICK g, A : Passes(g, A)  BY <1>1, <1>2, ServiceIs
<1>4. /\ g \in Nat /\ fresh <= g /\ g <= Top /\ A \subseteq (base + 1) .. g
      /\ fresh' = g
      /\ data' = Young(data \cup A, g) /\ answers' = Young(answers, g)
      /\ Sparse(Outstanding, fresh, g)
      /\ Queues(base, Top, sent', outgoing', g)
      /\ Outstanding' = Outstanding \cup (fresh + 1) .. g
      /\ windows' = CountOf(Outstanding \cup (fresh + 1) .. g)
      /\ transit' \in 0 .. (UintRange - 1)
      /\ UNCHANGED <<base, queued, limit, open, current, arrived, delivered>>
  BY <1>3 DEF Passes, receiver
<1>5. Top' = Top  BY <1>1, <1>4, TopNext, TopLast
<1>6. /\ Queues(base, Top, sent, outgoing, fresh)
      /\ Span(Outstanding, fresh)
  BY <1>2 DEF SenderIs
<1>7. /\ Outstanding \in SUBSET Nat /\ \A n \in Outstanding : n <= fresh
      /\ fresh \in Nat
  <2>1. Outstanding = OutOf(sent, outgoing, fresh)  BY DEF Outstanding, OutOf
  <2>2. Outstanding \subseteq (base + 1) .. fresh /\ fresh \in Nat  BY <2>1, <1>6, OutIs
  <2> QED BY <2>2, <1>1
<1>8. Top \in Nat /\ Top < Start(PacketCount + 1) /\ queued \in 0 .. PacketCount /\ Top = LastOf(base, queued)
  BY <1>1, TopIs, TopLast DEF EType
<1>9. EType'
  <2>1. sent' \in Seq(Commands) /\ outgoing' \in Seq(Commands)  BY <1>1, <1>4, <1>8, QueuesType
  <2> QED BY <2>1, <1>1, <1>4 DEF EType
<1>10. SenderIs'
  <2>1. Span(Outstanding \cup (fresh + 1) .. g, g)  BY <1>4, <1>6, <1>7, SpanStays
  <2> QED BY <2>1, <1>4, <1>5 DEF SenderIs
<1>11. PICK r \in Nat : r = LastOf(base, Len(delivered))
  BY <1>1, <1>2, OutNat DEF WireIs
<1>12. /\ ReceiverIs(base, queued, fresh, delivered, arrived, current)
       /\ r <= fresh /\ r >= base /\ Era(fresh) <= Era(r) + FreeWindows /\ Out(base, delivered) = Era(r)
  <2>1. ReceiverIs(base, queued, fresh, delivered, arrived, current)  BY <1>2 DEF WireIs
  <2>2. Out(base, delivered) = Era(r)  BY <1>11 DEF Out
  <2> QED BY <2>1, <2>2, <1>1, <1>11, OutNat
<1>13. Era(g) <= Era(r) + FreeWindows
  <2>1. \A n \in (r + 1) .. fresh : n \in Outstanding \/ Era(n) <= Era(r) + FreeWindows - 2
    <3>1. \A n \in (r + 1) .. fresh : n \in (base + 1) .. fresh  BY <1>1, <1>7, <1>12
    <3>2. \A n \in (base + 1) .. fresh : n \in Outstanding \/ Era(n) <= Era(r) + FreeWindows - 2
      BY <1>2, <1>12 DEF SentIs, Safe
    <3> QED BY <3>1, <3>2
  <2>2. r \in 0 .. fresh  BY <1>7, <1>12
  <2> QED BY <2>1, <2>2, <1>4, <1>7, <1>12, ReachStays
<1>14. ReceiverIs(base, queued, g, delivered, arrived, current)
  <2>1. Era(g) <= Out(base, delivered) + FreeWindows  BY <1>12, <1>13
  <2>2. g <= LastOf(base, queued) /\ queued <= queued  BY <1>4, <1>8
  <2> QED BY <2>1, <2>2, <1>4, <1>8, <1>11, <1>12, ReceiverMore
<1>15. NetIs(base, g, data' \cup answers')
  <2> SUFFICES ASSUME NEW n \in data' \cup answers'
               PROVE n \in Nat /\ base < n /\ n <= g /\ n > g - MaxAge
    BY DEF NetIs
  <2>1. n > g - MaxAge /\ (n \in A \/ n \in data \cup answers)  BY <1>4 DEF Young
  <2>2. CASE n \in A
    <3>1. n \in (base + 1) .. g  BY <2>2, <1>4
    <3> QED BY <3>1, <2>1, <1>1, <1>4
  <2>3. CASE n \in data \cup answers
    <3>1. n \in Nat /\ base < n /\ n <= fresh  BY <2>3, <1>2 DEF WireIs, NetIs
    <3> QED BY <3>1, <2>1, <1>4, <1>7
  <2> QED BY <2>1, <2>2, <2>3
<1>16. KnownIs(base, delivered, arrived, answers')
  <2>1. answers' \subseteq answers  BY <1>4 DEF Young
  <2> QED BY <2>1, <1>2 DEF WireIs, KnownIs
<1>17. WireIs(fresh)'  BY <1>4, <1>14, <1>15, <1>16 DEF WireIs
<1>18. SentIs(base, g, Outstanding', delivered, arrived)
  <2> SUFFICES ASSUME NEW n \in (base + 1) .. g
               PROVE n \in Outstanding' \/ Safe(base, delivered, arrived, n)
    BY DEF SentIs
  <2>1. CASE n <= fresh
    <3>1. n \in (base + 1) .. fresh  BY <2>1, <1>1, <1>7
    <3> QED BY <3>1, <1>2, <1>4 DEF SentIs
  <2>2. CASE n > fresh
    <3>1. n \in (fresh + 1) .. g  BY <2>2, <1>1, <1>4, <1>7
    <3> QED BY <3>1, <1>4
  <2> QED BY <2>1, <2>2, <1>1, <1>4, <1>7
<1>19. SentIs(base, fresh, Outstanding, delivered, arrived)'  BY <1>4, <1>18
<1> QED BY <1>1, <1>4, <1>9, <1>10, <1>17, <1>19 DEF EnetInv

LEMMA AcknowledgeInv ==
  ASSUME EnetInv, NEW m \in answers, HandleAcknowledge(m)
  PROVE  EnetInv'
<1>1. EType /\ base \in Bases /\ base \in Nat /\ open /\ tries' = 0
  BY BaseIs DEF EnetInv, EType, HandleAcknowledge
<1>2. SenderIs /\ WireIs(fresh) /\ SentIs(base, fresh, Outstanding, delivered, arrived)
  BY <1>1 DEF EnetInv
<1>3. m \in Nat /\ m > base /\ m <= fresh /\ m > fresh - MaxAge /\ Safe(base, delivered, arrived, m)
  <2>1. /\ NetIs(base, fresh, data \cup answers) /\ KnownIs(base, delivered, arrived, answers)
    BY <1>2 DEF WireIs
  <2>2. m \in data \cup answers  OBVIOUS
  <2>3. m \in Nat /\ base < m /\ m <= fresh /\ m > fresh - MaxAge  BY <2>1, <2>2 DEF NetIs
  <2>4. Safe(base, delivered, arrived, m)  BY <2>1 DEF KnownIs
  <2> QED BY <2>3, <2>4, <1>1
<1>4. Acks(m)  BY <1>1, <1>2, <1>3, AcknowledgeIs
<1>5. /\ Queues(base, Top, sent', outgoing', fresh)
      /\ Outstanding' = Outstanding \ {m}
      /\ windows' = CountOf(Outstanding \ {m})
      /\ transit' \in 0 .. (UintRange - 1)
      /\ UNCHANGED <<base, queued, fresh, limit, open, data, answers, current, arrived, delivered>>
  BY <1>4 DEF Acks, receiver
<1>6. Top' = Top  BY <1>1, <1>5, TopNext, TopLast
<1>7. Top \in Nat /\ Top < Start(PacketCount + 1)  BY <1>1, TopIs
<1>8. EType'
  <2>1. sent' \in Seq(Commands) /\ outgoing' \in Seq(Commands)  BY <1>1, <1>5, <1>7, QueuesType
  <2>2. 0 \in 0 .. Patience
    <3>1. Patience \in Nat  BY LimitsAre
    <3> QED BY <3>1
  <2> QED BY <2>1, <2>2, <1>1, <1>5 DEF EType
<1>9. SenderIs'
  <2>1. Span(Outstanding \ {m}, fresh)  BY <1>2 DEF SenderIs, Span
  <2> QED BY <2>1, <1>5, <1>6 DEF SenderIs
<1>10. WireIs(fresh)'  BY <1>2, <1>5 DEF WireIs
<1>11. SentIs(base, fresh, Outstanding', delivered, arrived)  BY <1>2, <1>3, <1>5 DEF SentIs
<1>12. SentIs(base, fresh, Outstanding, delivered, arrived)'  BY <1>5, <1>11
<1> QED BY <1>1, <1>5, <1>8, <1>9, <1>10, <1>12 DEF EnetInv

LEMMA GiveUpInv ==
  ASSUME EnetInv, GiveUp
  PROVE  EnetInv'
<1>1. /\ EType /\ open /\ open' = FALSE
      /\ outgoing' = <<>> /\ sent' = <<>> /\ fresh' = base /\ transit' = 0
      /\ windows' = [w \in 0 .. (Windows - 1) |-> 0] /\ tries' = 0
      /\ UNCHANGED <<base, queued, limit, data, answers, current, arrived, delivered>>
  BY DEF EnetInv, GiveUp, receiver
<1>2. WireIs(fresh)  BY <1>1 DEF EnetInv
<1>3. PICK hi : hi = fresh  OBVIOUS
<1>4. WireIs(hi)'  BY <1>1, <1>2, <1>3 DEF WireIs
<1>5. Closed'  BY <1>1 DEF Closed
<1>6. EType'
  <2>1. 0 \in 0 .. Patience /\ 0 \in 0 .. (UintRange - 1)
    <3>1. PICK u \in Nat, v \in Nat : u = UintRange /\ v = Patience /\ u > 0  BY LimitsAre
    <3> QED BY <3>1
  <2>2. <<>> \in Seq(Commands)  OBVIOUS
  <2> QED BY <2>1, <2>2, <1>1 DEF EType
<1> QED BY <1>1, <1>4, <1>5, <1>6 DEF EnetInv

LEMMA BandwidthInv ==
  ASSUME EnetInv, BandwidthLimit
  PROVE  EnetInv'
<1>1. /\ EType /\ open /\ limit' \in Limits
      /\ UNCHANGED <<base, data, answers, queued, outgoing, sent, fresh, windows, transit, tries, open,
                     current, arrived, delivered>>
  BY DEF EnetInv, BandwidthLimit, sender, receiver
<1>2. SenderIs /\ WireIs(fresh) /\ SentIs(base, fresh, Outstanding, delivered, arrived)
  BY <1>1 DEF EnetInv
<1>3. EType'  BY <1>1 DEF EType
<1>4. Outstanding' = Outstanding  BY <1>1 DEF Outstanding
<1>5. Top' = Top  BY <1>1, TopNext, TopLast DEF EType
<1>6. SenderIs'  BY <1>1, <1>2, <1>4, <1>5 DEF SenderIs
<1>7. WireIs(fresh)'  BY <1>1, <1>2 DEF WireIs
<1>8. SentIs(base, fresh, Outstanding, delivered, arrived)'  BY <1>1, <1>2, <1>4
<1> QED BY <1>1, <1>3, <1>6, <1>7, <1>8 DEF EnetInv

\* What the network and the receiver do leaves the sender alone.
LEMMA SenderStays ==
  ASSUME EType, UNCHANGED <<base, limit, queued, outgoing, sent, fresh, windows, transit, tries, open>>
  PROVE  /\ EType' /\ Outstanding' = Outstanding /\ (SenderIs => SenderIs') /\ (Closed => Closed')
<1>1. EType'  BY DEF EType
<1>2. Outstanding' = Outstanding  BY DEF Outstanding
<1>3. Top' = Top  BY TopNext, TopLast DEF EType
<1>4. SenderIs => SenderIs'  BY <1>2, <1>3 DEF SenderIs
<1>5. Closed => Closed'  BY DEF Closed
<1> QED BY <1>1, <1>2, <1>4, <1>5

LEMMA LoseInv ==
  ASSUME EnetInv, data' \subseteq data, answers' \subseteq answers,
         UNCHANGED <<base, limit, queued, outgoing, sent, fresh, windows, transit, tries, open,
                     current, arrived, delivered>>
  PROVE  EnetInv'
<1>1. EType  BY DEF EnetInv
<1>2. /\ EType' /\ Outstanding' = Outstanding /\ (SenderIs => SenderIs') /\ (Closed => Closed')
  BY <1>1, SenderStays
<1>3. ASSUME NEW hi, WireIs(hi) PROVE WireIs(hi)'
  <2>1. data' \cup answers' \subseteq data \cup answers  OBVIOUS
  <2>2. NetIs(base, hi, data' \cup answers')  BY <2>1, <1>3 DEF WireIs, NetIs
  <2>3. KnownIs(base, delivered, arrived, answers')  BY <1>3 DEF WireIs, KnownIs
  <2>4. ReceiverIs(base, queued, hi, delivered, arrived, current)  BY <1>3 DEF WireIs
  <2> QED BY <2>2, <2>3, <2>4 DEF WireIs
<1>4. CASE open
  <2>1. SenderIs /\ WireIs(fresh) /\ SentIs(base, fresh, Outstanding, delivered, arrived)
    BY <1>4 DEF EnetInv
  <2>2. PICK hi : hi = fresh  OBVIOUS
  <2>3. WireIs(hi)'  BY <2>1, <2>2, <1>3
  <2>4. WireIs(fresh)'  BY <2>2, <2>3 DEF WireIs
  <2>5. SentIs(base, fresh, Outstanding, delivered, arrived)'  BY <2>1, <1>2
  <2> QED BY <2>1, <2>4, <2>5, <1>2, <1>4 DEF EnetInv
<1>5. CASE ~open
  <2>1. PICK hi : Closed /\ WireIs(hi)  BY <1>5 DEF EnetInv
  <2>2. Closed' /\ WireIs(hi)'  BY <2>1, <1>2, <1>3
  <2> QED BY <2>2, <1>2, <1>5 DEF EnetInv
<1> QED BY <1>4, <1>5

LEMMA ReceiveInv ==
  ASSUME EnetInv, NEW n \in data, Receive(n)
  PROVE  EnetInv'
<1>1. EType /\ base \in Bases /\ base \in Nat  BY BaseIs DEF EnetInv, EType
<1>2. UNCHANGED <<base, limit, queued, outgoing, sent, fresh, windows, transit, tries, open, data>>
  BY DEF Receive, sender
<1>3. /\ EType' /\ Outstanding' = Outstanding /\ (SenderIs => SenderIs') /\ (Closed => Closed')
  BY <1>1, <1>2, SenderStays
<1>4. ASSUME NEW hi, WireIs(hi) PROVE Received(n, hi) /\ WireIs(hi)'
  <2>1. n \in data \cup answers  OBVIOUS
  <2>2. n \in Nat /\ base < n /\ n <= hi /\ n > hi - MaxAge  BY <2>1, <1>4 DEF WireIs, NetIs
  <2>3. ReceiverIs(base, queued, hi, delivered, arrived, current)  BY <1>4 DEF WireIs
  <2>4. n > base  BY <2>2, <1>1
  <2>5. Received(n, hi)  BY <2>2, <2>3, <2>4, <1>1, ReceiveIs
  <2>6. ReceiverIs(base, queued, hi, delivered', arrived', current')  BY <2>5 DEF Received
  <2>7. answers' \subseteq answers \cup {n}  BY <2>5 DEF Received
  <2>8. NetIs(base, hi, data \cup answers')  BY <2>2, <2>7, <1>4 DEF WireIs, NetIs
  <2>9. ASSUME NEW m \in answers' PROVE Safe(base, delivered', arrived', m)
    <3>1. CASE m \in answers
      <4>1. Safe(base, delivered, arrived, m)  BY <3>1, <1>4 DEF WireIs, KnownIs
      <4>2. m \in data \cup answers  BY <3>1
      <4>3. m \in Nat /\ base < m  BY <4>2, <1>4 DEF WireIs, NetIs
      <4>4. m # Missing  BY <4>3, <1>1 DEF Missing
      <4> QED BY <4>1, <4>3, <4>4, <2>5, SafeStays DEF Received
    <3>2. CASE m \notin answers  BY <3>2, <2>5, <2>9 DEF Received
    <3> QED BY <3>1, <3>2
  <2>10. KnownIs(base, delivered', arrived', answers')  BY <2>9 DEF KnownIs
  <2>11. WireIs(hi)'  BY <2>6, <2>8, <2>10, <1>2 DEF WireIs
  <2> QED BY <2>5, <2>11
<1>5. CASE open
  <2>1. SenderIs /\ WireIs(fresh) /\ SentIs(base, fresh, Outstanding, delivered, arrived)
    BY <1>5 DEF EnetInv
  <2>2. PICK hi : hi = fresh  OBVIOUS
  <2>3. Received(n, hi) /\ WireIs(hi)'  BY <2>1, <2>2, <1>4
  <2>4. WireIs(fresh)'  BY <2>2, <2>3, <1>2 DEF WireIs
  <2>5. ASSUME NEW m \in (base + 1) .. fresh
        PROVE m \in Outstanding \/ Safe(base, delivered', arrived', m)
    <3>1. m \in Nat /\ m # Missing
      <4>1. fresh \in Nat  BY <2>1, <1>1, OutNat DEF WireIs
      <4>2. m > base /\ m \in Int  BY <4>1, <1>1
      <4> QED BY <4>2, <1>1 DEF Missing
    <3>2. m \in Outstanding \/ Safe(base, delivered, arrived, m)  BY <2>1 DEF SentIs
    <3> QED BY <3>1, <3>2, <2>3, SafeStays DEF Received
  <2>6. SentIs(base, fresh, Outstanding, delivered', arrived')  BY <2>5 DEF SentIs
  <2>7. SentIs(base, fresh, Outstanding, delivered, arrived)'  BY <2>6, <1>2, <1>3
  <2> QED BY <2>1, <2>4, <2>7, <1>2, <1>3, <1>5 DEF EnetInv
<1>6. CASE ~open
  <2>1. PICK hi : Closed /\ WireIs(hi)  BY <1>6 DEF EnetInv
  <2>2. Closed' /\ WireIs(hi)'  BY <2>1, <1>3, <1>4
  <2> QED BY <2>2, <1>2, <1>3, <1>6 DEF EnetInv
<1> QED BY <1>5, <1>6

\* Every step of the channel keeps the invariant.
LEMMA EnetNext ==
  ASSUME EnetInv, [Next]_vars
  PROVE  EnetInv'
<1>1. CASE PeerSend  BY <1>1, PeerSendInv
<1>2. CASE BandwidthLimit  BY <1>2, BandwidthInv
<1>3. CASE Flush
  <2>1. Service({}) /\ tries' = tries  BY <1>3 DEF Flush
  <2>2. {} \subseteq ToSet(sent) /\ tries' \in 0 .. Patience  BY <2>1 DEF EnetInv, EType
  <2> QED BY <2>1, <2>2, ServiceInv
<1>4. CASE Resend
  <2>1. PICK due \in SUBSET ToSet(sent) : Service(due)  BY <1>4 DEF Resend
  <2>2. tries' \in 0 .. Patience
    <3>1. tries \in 0 .. Patience /\ tries < Patience /\ tries' = tries + 1  BY <1>4 DEF Resend, EnetInv, EType
    <3>2. Patience \in Nat  BY LimitsAre
    <3> QED BY <3>1, <3>2
  <2> QED BY <2>1, <2>2, ServiceInv
<1>5. CASE GiveUp  BY <1>5, GiveUpInv
<1>6. ASSUME NEW m \in answers, HandleAcknowledge(m) PROVE EnetInv'  BY <1>6, AcknowledgeInv
<1>7. ASSUME NEW n \in data, Receive(n) PROVE EnetInv'  BY <1>7, ReceiveInv
<1>8. ASSUME NEW n \in data, LoseData(n) PROVE EnetInv'
  <2>1. /\ data' \subseteq data /\ answers' \subseteq answers
        /\ UNCHANGED <<base, limit, queued, outgoing, sent, fresh, windows, transit, tries, open,
                       current, arrived, delivered>>
    BY <1>8 DEF LoseData, sender, receiver
  <2> QED BY <2>1, LoseInv
<1>9. ASSUME NEW m \in answers, LoseAnswer(m) PROVE EnetInv'
  <2>1. /\ data' \subseteq data /\ answers' \subseteq answers
        /\ UNCHANGED <<base, limit, queued, outgoing, sent, fresh, windows, transit, tries, open,
                       current, arrived, delivered>>
    BY <1>9 DEF LoseAnswer, sender, receiver
  <2> QED BY <2>1, LoseInv
<1>10. CASE UNCHANGED vars
  <2>1. /\ data' \subseteq data /\ answers' \subseteq answers
        /\ UNCHANGED <<base, limit, queued, outgoing, sent, fresh, windows, transit, tries, open,
                       current, arrived, delivered>>
    BY <1>10 DEF vars, sender, receiver
  <2> QED BY <2>1, LoseInv
<1> QED BY <1>1, <1>2, <1>3, <1>4, <1>5, <1>6, <1>7, <1>8, <1>9, <1>10 DEF Next

-----------------------------------------------------------------------------
(* What the invariant says of the properties.                              *)

LEMMA TakenIs ==
  ASSUME NEW n, Took(delivered, arrived, n)
  PROVE  n \in Taken
<1>1. CASE Holds(delivered, n)
  <2>1a. PICK i \in DOMAIN delivered : \E j \in DOMAIN delivered[i] : delivered[i][j] = n
    BY <1>1 DEF Holds
  <2>1. PICK j \in DOMAIN delivered[i] : delivered[i][j] = n  BY <2>1a
  <2>2. delivered[i] \in Range(delivered) /\ n \in Range(delivered[i])  BY <2>1 DEF Range
  <2> QED BY <2>2 DEF Taken
<1>2. CASE Gathers(arrived, n)
  <2>1a. PICK i \in DOMAIN arrived : \E j \in DOMAIN arrived[i].parts : arrived[i].parts[j] = n
    BY <1>2 DEF Gathers
  <2>1. PICK j \in DOMAIN arrived[i].parts : arrived[i].parts[j] = n  BY <2>1a
  <2>2. arrived[i] \in Range(arrived) /\ n \in Range(arrived[i].parts)  BY <2>1 DEF Range
  <2>3. arrived[i].parts \in {e.parts : e \in Range(arrived)}  BY <2>2
  <2> QED BY <2>2, <2>3 DEF Taken
<1> QED BY <1>1, <1>2 DEF Took

LEMMA AnsweredWasTakenInv ==
  ASSUME EnetInv
  PROVE  AnsweredWasTaken
<1> SUFFICES ASSUME open, NEW n \in (base + 1) .. fresh
             PROVE n \in Outstanding \cup Taken
  BY DEF AnsweredWasTaken
<1>1. n \in Outstanding \/ Took(delivered, arrived, n)  BY DEF EnetInv, SentIs, Safe
<1> QED BY <1>1, TakenIs

\* What is outstanding in one window lies in one era.
LEMMA WindowBound ==
  ASSUME NEW S, S \subseteq Nat, IsFiniteSet(S), NEW fr \in Nat, \A n \in S : n <= fr,
         Span(S, fr), NEW w \in 0 .. (Windows - 1)
  PROVE  Cardinality(InWindow(S, w)) \in 0 .. WindowSize
<1>1. PICK W \in Nat \ {0}, V \in Nat : W = WindowSize /\ V = Windows /\ V >= 6
  <2>1. WindowSize \in Nat \ {0} /\ Windows \in Nat /\ Windows >= 6  BY Sizes
  <2> QED BY <2>1
<1>2. PICK I : I = InWindow(S, w)  OBVIOUS
<1>3. I \subseteq S /\ IsFiniteSet(I) /\ \A n \in I : Window(Number(n)) = w
  <2>1. I \subseteq S /\ \A n \in I : Window(Number(n)) = w  BY <1>2 DEF InWindow
  <2>2. IsFiniteSet(I)  BY <2>1, FS_Subset
  <2> QED BY <2>1, <2>2
<1>4. CASE I = {}
  <2>1. Cardinality(I) = 0  BY <1>4, FS_EmptySet
  <2> QED BY <2>1, <1>1, <1>2
<1>5. CASE I # {}
  <2>1. PICK x : x \in I  BY <1>5
  <2>2. x \in Nat /\ Window(Number(x)) = w  BY <2>1, <1>3
  <2>3. PICK e \in Nat : e = Era(x)  BY <2>2, EraIs
  <2>4. ASSUME NEW n \in I PROVE Era(n) = e
    <3>1. n \in Nat /\ Window(Number(n)) = w  BY <1>3
    <3>2. PICK f \in Nat, g \in Nat : f = Era(n) /\ g = Era(fr)  BY <3>1, EraIs
    <3>3. f <= g /\ e <= g  BY <3>1, <3>2, <2>1, <2>2, <2>3, <1>3, EraLess
    <3>4. g < f + V /\ g < e + V  BY <3>2, <2>1, <2>3, <1>1, <1>3 DEF Span
    <3>5. PICK a \in Nat : f = V * a + w
      <4>1. PICK a \in Nat : Era(n) = Windows * a + Window(Number(n))  BY <3>1, Round
      <4> QED BY <4>1, <3>1, <3>2, <1>1
    <3>6. PICK b \in Nat : e = V * b + w
      <4>1. PICK b \in Nat : Era(x) = Windows * b + Window(Number(x))  BY <2>2, Round
      <4> QED BY <4>1, <2>2, <2>3, <1>1
    <3>7. f - e < V /\ e - f < V  BY <3>3, <3>4
    <3>8. V \in Nat \ {0}  BY <1>1
    <3>9. PICK va \in Nat, vb \in Nat : va = V * a /\ vb = V * b
      <4>1. V * a \in Nat /\ V * b \in Nat  OBVIOUS
      <4> QED BY <4>1
    <3>10. w \in Nat  BY <1>1
    <3>11. va - vb < V /\ vb - va < V  BY <3>5, <3>6, <3>7, <3>9, <3>10
    <3>12. a < b => vb >= va + V
      <4>1. b = a + 1 => V * b = V * a + V  BY <3>8, RoundsApart
      <4>2. b > a + 1 => V * b >= V * a + 2 * V  BY <3>8, RoundsApart
      <4>3. a < b => b = a + 1 \/ b > a + 1  OBVIOUS
      <4> QED BY <4>1, <4>2, <4>3, <3>8, <3>9
    <3>13. b < a => va >= vb + V
      <4>1. a = b + 1 => V * a = V * b + V  BY <3>8, RoundsApart
      <4>2. a > b + 1 => V * a >= V * b + 2 * V  BY <3>8, RoundsApart
      <4>3. b < a => a = b + 1 \/ a > b + 1  OBVIOUS
      <4> QED BY <4>1, <4>2, <4>3, <3>8, <3>9
    <3>14. a = b  BY <3>11, <3>12, <3>13, <3>8
    <3> QED BY <3>2, <3>5, <3>6, <3>14
  <2>5. PICK lo \in Nat : lo = e * W
    <3>1. e * W \in Nat  BY <1>1
    <3> QED BY <3>1
  <2>6. I \subseteq lo .. (lo + W - 1)
    <3> SUFFICES ASSUME NEW n \in I PROVE n \in lo .. (lo + W - 1)  OBVIOUS
    <3>1. n \in Nat /\ Era(n) = e  BY <2>4, <1>3
    <3>2. Era(n) * WindowSize <= n /\ n < Era(n) * WindowSize + WindowSize  BY <3>1, EraIs
    <3> QED BY <3>1, <3>2, <2>5, <1>1
  <2>7. IsFiniteSet(lo .. (lo + W - 1)) /\ Cardinality(lo .. (lo + W - 1)) = W
    <3>1. lo + W - 1 \in Int /\ lo <= lo + W - 1 /\ (lo + W - 1) - lo + 1 = W  BY <1>1
    <3> QED BY <3>1, Interval
  <2>8. Cardinality(I) <= W  BY <2>6, <2>7, FS_Subset
  <2>9. Cardinality(I) \in Nat  BY <1>3, FS_CardinalityType
  <2> QED BY <2>8, <2>9, <1>1, <1>2
<1> QED BY <1>4, <1>5

LEMMA EnetTypeOK ==
  ASSUME EnetInv
  PROVE  TypeOK
<1>0. PacketCount \in Nat /\ Len(Packets) = PacketCount  BY StartsAre DEF PacketCount
<1>1. EType /\ base \in Bases /\ base \in Nat  BY BaseIs DEF EnetInv, EType
<1>2. PICK hi : WireIs(hi)  BY DEF EnetInv
<1>3. ReceiverIs(base, queued, hi, delivered, arrived, current) /\ NetIs(base, hi, data \cup answers)
  BY <1>2 DEF WireIs
<1>4. hi \in Nat /\ hi <= Top
  BY <1>1, <1>3, OutNat, TopLast
<1>5. data \subseteq Commands /\ answers \subseteq Commands
  <2> SUFFICES ASSUME NEW n \in data \cup answers PROVE n \in Commands  OBVIOUS
  <2>1. n \in Nat /\ base < n /\ n <= hi  BY <1>3 DEF NetIs
  <2>2. n > base /\ n <= Top  BY <2>1, <1>1, <1>4, TopIs
  <2> QED BY <2>1, <2>2, <1>1, TopIs
<1>6. current \in 0 .. (Modulus - 1)
  <2>1. PICK r \in Nat : current = Number(r)  BY <1>1, <1>3, OutNat
  <2>2. Number(r) \in Nat /\ Number(r) < Modulus /\ Modulus \in Nat  BY NumberIs, Sizes
  <2> QED BY <2>1, <2>2
<1>7. fresh \in Commands \cup Bases
  <2>1. CASE open
    <3>1. ReceiverIs(base, queued, fresh, delivered, arrived, current)  BY <2>1 DEF EnetInv, WireIs
    <3>2. fresh \in Nat /\ fresh <= Top /\ base <= fresh
      <4>1. /\ fresh \in Nat /\ fresh <= LastOf(base, queued) /\ base <= LastOf(base, Len(delivered))
            /\ LastOf(base, Len(delivered)) <= fresh /\ LastOf(base, Len(delivered)) \in Nat
        BY <3>1, <1>1, OutNat
      <4> QED BY <4>1, <1>1, TopLast
    <3>3. CASE fresh = base  BY <3>3, <1>1
    <3>4. CASE fresh > base  BY <3>2, <3>4, <1>1, TopIs
    <3> QED BY <3>2, <3>3, <3>4, <1>1
  <2>2. CASE ~open  BY <2>2, <1>1 DEF EnetInv, Closed
  <2> QED BY <2>1, <2>2
<1>8. windows \in [0 .. (Windows - 1) -> 0 .. WindowSize]
  <2>1. CASE open
    <3>1. SenderIs  BY <2>1 DEF EnetInv
    <3>2. Outstanding = OutOf(sent, outgoing, fresh)  BY DEF Outstanding, OutOf
    <3>3. Outstanding \subseteq (base + 1) .. fresh /\ IsFiniteSet(Outstanding) /\ fresh \in Nat
      BY <3>1, <3>2, OutIs DEF SenderIs
    <3>4. Outstanding \subseteq Nat /\ \A n \in Outstanding : n <= fresh  BY <3>3, <1>1
    <3>5. \A w \in 0 .. (Windows - 1) : Cardinality(InWindow(Outstanding, w)) \in 0 .. WindowSize
      BY <3>1, <3>3, <3>4, WindowBound DEF SenderIs
    <3> QED BY <3>1, <3>5 DEF SenderIs, CountOf
  <2>2. CASE ~open
    <3>1. windows = [w \in 0 .. (Windows - 1) |-> 0]  BY <2>2 DEF EnetInv, Closed
    <3>2. 0 \in 0 .. WindowSize
      <4>1. WindowSize \in Nat  BY Sizes
      <4> QED BY <4>1
    <3> QED BY <3>1, <3>2
  <2> QED BY <2>1, <2>2
<1> QED BY <1>0, <1>1, <1>5, <1>6, <1>7, <1>8 DEF TypeOK, EType

LEMMA WindowsCountInv ==
  ASSUME EnetInv
  PROVE  WindowsCount
<1>1. TypeOK  BY EnetTypeOK
<1>2. ASSUME open, NEW w \in DOMAIN windows
      PROVE windows[w] = Cardinality({n \in Outstanding : Window(Number(n)) = w})
  <2>1. windows = CountOf(Outstanding)  BY <1>2 DEF EnetInv, SenderIs
  <2>2. w \in 0 .. (Windows - 1)  BY <2>1, <1>2 DEF CountOf
  <2> QED BY <2>1, <2>2 DEF CountOf, InWindow
<1> QED BY <1>1, <1>2 DEF WindowsCount

-----------------------------------------------------------------------------
(* The refinement of Pipe.                                                 *)

\* The packets the first q ones of which were given, and not yet out of D.
Waiting(b, q, D) == [i \in 1 .. (q - Len(D)) |-> ContentOf(b, Len(D) + i)]

LEMMA ContentIs ==
  /\ \A p : Content(p) = ContentOf(base, p)
  /\ PipeQueue = Waiting(base, queued, delivered)
<1>1. \A p : Content(p) = ContentOf(base, p)  BY DEF Content, ContentOf, From
<1>2. PipeQueue = Waiting(base, queued, delivered)  BY <1>1 DEF PipeQueue, Waiting
<1> QED BY <1>1, <1>2

LEMMA ContentIn ==
  ASSUME base \in Bases, NEW p \in 1 .. PacketCount
  PROVE  ContentOf(base, p) \in PacketContents
<1>0. PacketCount \in Nat /\ PacketCount + 1 \in 1 .. (PacketCount + 1) /\ p \in 1 .. (PacketCount + 1)
      /\ p \in DOMAIN Packets
  BY StartsAre
<1>1. PICK k \in 1 .. WindowSize : k = Len(Packets[p])  BY StartsAre
<1>2. DOMAIN Packets[p] = 1 .. k  BY <1>0, <1>1, PacketAssumption
<1>3. PICK n \in Commands : n = From(base, p)
  <2>1. From(base, p) = Start(p) /\ Start(p) \in Nat /\ Start(p) > base /\ Start(p) < Start(PacketCount + 1)
    <3>1. From(base, p) = Start(p)  BY <1>0, FromIs
    <3>2. Start(p) \in Nat /\ Start(p) > base  BY <1>0, StartIs
    <3>3. p < PacketCount + 1  BY <1>0
    <3>4. Start(p) < Start(PacketCount + 1)  BY <1>0, <3>3, StartIs
    <3> QED BY <3>1, <3>2, <3>4
  <2>2. Start(p) \in Commands  BY <2>1, CommandsAre
  <2> QED BY <2>1, <2>2
<1>4. ContentOf(base, p) = [i \in 1 .. k |-> n + i - 1]  BY <1>2, <1>3 DEF ContentOf
<1> QED BY <1>1, <1>3, <1>4 DEF PacketContents

WaitingIs(f, d, k) == Len(f) = k /\ \A i \in 1 .. k : f[i] = ContentOf(base, d + i)

LEMMA SameWaiting ==
  ASSUME NEW X, NEW f \in Seq(X), NEW g \in Seq(X), NEW d, NEW k, WaitingIs(f, d, k), WaitingIs(g, d, k)
  PROVE  f = g
<1>1. Len(f) = k /\ Len(g) = k /\ \A i \in 1 .. k : f[i] = g[i]  BY DEF WaitingIs
<1> QED BY <1>1

LEMMA WaitingAre ==
  ASSUME base \in Bases, NEW D, NEW d \in Nat, d = Len(D), NEW k \in Nat, d + k <= PacketCount,
         NEW q, q = d + k, NEW f, f = Waiting(base, q, D)
  PROVE  f \in Seq(PacketContents) /\ WaitingIs(f, d, k)
<1>0. PacketCount \in Nat  BY StartsAre
<1>1. q - Len(D) = k  OBVIOUS
<1>2. f = [i \in 1 .. k |-> ContentOf(base, d + i)]  BY <1>1 DEF Waiting
<1>3. \A i \in 1 .. k : ContentOf(base, d + i) \in PacketContents
  <2> SUFFICES ASSUME NEW i \in 1 .. k PROVE ContentOf(base, d + i) \in PacketContents  OBVIOUS
  <2>1. d + i \in 1 .. PacketCount  BY <1>0
  <2> QED BY <2>1, ContentIn
<1>4. f \in [1 .. k -> PacketContents]  BY <1>2, <1>3
<1>5. f \in Seq(PacketContents) /\ Len(f) = k  BY <1>4, SeqIs
<1>6. \A i \in 1 .. k : f[i] = ContentOf(base, d + i)  BY <1>2
<1> QED BY <1>5, <1>6 DEF WaitingIs

LEMMA PipeInit ==
  ASSUME Init
  PROVE  P!Init
<1>1. queued = 0 /\ delivered = <<>> /\ open = TRUE  BY DEF Init
<1>2. Waiting(base, queued, delivered) = <<>>
  <2>1. 1 .. (0 - 0) = {} /\ Len(<<>>) = 0  OBVIOUS
  <2>2. Waiting(base, 0, <<>>) = [i \in {} |-> ContentOf(base, 0 + i)]  BY <2>1 DEF Waiting
  <2>3. [i \in {} |-> ContentOf(base, 0 + i)] = <<>>  OBVIOUS
  <2> QED BY <2>2, <2>3, <1>1
<1>3. PipeQueue = <<>>  BY <1>2, ContentIs
<1> QED BY <1>1, <1>3 DEF P!Init

\* enet_peer_send puts a packet into the pipe.
LEMMA PutIs ==
  ASSUME EnetInv, PeerSend
  PROVE  P!Put
<1>1. /\ base \in Bases /\ open /\ queued \in 0 .. PacketCount /\ queued < PacketCount /\ queued' = queued + 1
      /\ UNCHANGED <<base, delivered, open>>
  BY DEF EnetInv, EType, PeerSend, receiver, PacketCount
<1>2. queued + 1 \in 1 .. PacketCount /\ queued \in Nat
  <2>1. PacketCount \in Nat  BY StartsAre
  <2> QED BY <2>1, <1>1
<1>3. PICK c \in PacketContents : c = ContentOf(base, queued + 1)  BY <1>1, <1>2, ContentIn
<1>4. PICK d \in Nat : d = Len(delivered) /\ d <= queued
  <2>1. ReceiverIs(base, queued, fresh, delivered, arrived, current)  BY <1>1 DEF EnetInv, WireIs
  <2>2. Len(delivered) \in Nat /\ Len(delivered) <= queued
    <3>1. Len(delivered) \in 0 .. PacketCount /\ Len(delivered) <= queued  BY <1>1, <2>1, OutNat
    <3>2. PacketCount \in Nat  BY StartsAre
    <3> QED BY <3>1, <3>2
  <2> QED BY <2>2
<1>5. Waiting(base, queued + 1, delivered) = Append(Waiting(base, queued, delivered), c)
  <2>1. PICK k \in Nat : k = queued - d
    <3>1. queued - d \in Nat  BY <1>2, <1>4
    <3> QED BY <3>1
  <2>2. d + (k + 1) = queued + 1 /\ queued = d + k /\ queued + 1 = d + (k + 1)
    BY <2>1, <1>2, <1>4
  <2>3. d + k <= PacketCount /\ d + (k + 1) <= PacketCount  BY <1>1, <1>2, <2>2
  <2>4. PICK f : f = Waiting(base, queued, delivered)  OBVIOUS
  <2>5. PICK g : g = Waiting(base, queued + 1, delivered)  OBVIOUS
  <2>6. f \in Seq(PacketContents) /\ WaitingIs(f, d, k)  BY <1>1, <1>4, <2>2, <2>3, <2>4, WaitingAre
  <2>7. g \in Seq(PacketContents) /\ WaitingIs(g, d, k + 1)  BY <1>1, <1>4, <2>2, <2>3, <2>5, WaitingAre
  <2>8. Append(f, c) \in Seq(PacketContents) /\ WaitingIs(Append(f, c), d, k + 1)
    <3>1. PICK a : a = Append(f, c)  OBVIOUS
    <3>2. Len(f) = k /\ \A i \in 1 .. k : f[i] = ContentOf(base, d + i)  BY <2>6 DEF WaitingIs
    <3>3. a \in Seq(PacketContents) /\ Len(a) = k + 1 /\ a[k + 1] = c /\ \A i \in 1 .. k : a[i] = f[i]
      BY <3>1, <3>2, <2>6
    <3>4. ASSUME NEW i \in 1 .. (k + 1) PROVE a[i] = ContentOf(base, d + i)
      <4>1. i = k + 1 \/ i \in 1 .. k  OBVIOUS
      <4>2. CASE i = k + 1  BY <4>2, <3>3, <2>2, <1>3
      <4>3. CASE i \in 1 .. k  BY <4>3, <3>2, <3>3
      <4> QED BY <4>1, <4>2, <4>3
    <3> QED BY <3>1, <3>3, <3>4 DEF WaitingIs
  <2>9. Append(f, c) = g  BY <2>7, <2>8, SameWaiting
  <2> QED BY <2>4, <2>5, <2>9
<1>6. PipeQueue = Waiting(base, queued, delivered) /\ PipeQueue' = Waiting(base, queued + 1, delivered)
  <2>1. PipeQueue' = Waiting(base', queued', delivered')  BY DEF PipeQueue, Waiting, Content, ContentOf, From
  <2> QED BY <2>1, <1>1, ContentIs
<1>7. \E x \in PacketContents : PipeQueue' = Append(PipeQueue, x)  BY <1>3, <1>5, <1>6
<1> QED BY <1>1, <1>7 DEF P!Put

LEMMA HeadIs ==
  ASSUME NEW X, NEW s \in Seq(X), NEW k \in 0 .. Len(s)
  PROVE  SubSeq(s, 1, k) \in Seq(X) /\ Len(SubSeq(s, 1, k)) = k
         /\ \A i \in 1 .. k : SubSeq(s, 1, k)[i] = s[i]
OBVIOUS

LEMMA JoinedLength ==
  ASSUME NEW X, NEW Y, NEW s \in Seq(X), NEW t \in Seq(Y)
  PROVE  Len(s \o t) = Len(s) + Len(t)
<1>1. PICK Z : Z = X \cup Y  OBVIOUS
<1>2. s \in Seq(Z) /\ t \in Seq(Z)  BY <1>1
<1> QED BY <1>2

\* What Receive hands out, as the sequences of the contents after d: k of the l that wait.
LEMMA WaitingSplit ==
  ASSUME base \in Bases, NEW d \in Nat, NEW k \in Nat, NEW v \in Nat,
         NEW s \in Seq(PacketContents), WaitingIs(s, d, k + v),
         NEW f \in Seq(PacketContents), WaitingIs(f, d, k),
         NEW g \in Seq(PacketContents), WaitingIs(g, d + k, v)
  PROVE  k \in 0 .. Len(s) /\ f = SubSeq(s, 1, k) /\ g = SubSeq(s, k + 1, Len(s))
<1>1. Len(s) = k + v /\ \A i \in 1 .. (k + v) : s[i] = ContentOf(base, d + i)  BY DEF WaitingIs
<1>2. Len(f) = k /\ \A i \in 1 .. k : f[i] = ContentOf(base, d + i)  BY DEF WaitingIs
<1>3. Len(g) = v /\ \A i \in 1 .. v : g[i] = ContentOf(base, (d + k) + i)  BY DEF WaitingIs
<1>4. k \in 0 .. Len(s)  BY <1>1
<1>5. f = SubSeq(s, 1, k)
  <2>1. PICK a : a = SubSeq(s, 1, k)  OBVIOUS
  <2>2. a \in Seq(PacketContents) /\ Len(a) = k /\ \A i \in 1 .. k : a[i] = s[i]  BY <2>1, <1>4, HeadIs
  <2>3. \A i \in 1 .. k : i \in 1 .. (k + v)  OBVIOUS
  <2>4. WaitingIs(a, d, k)  BY <2>2, <2>3, <1>1 DEF WaitingIs
  <2> QED BY <2>1, <2>2, <2>4, SameWaiting
<1>6. g = SubSeq(s, k + 1, Len(s))
  <2>1. v = Len(s) - k  BY <1>1
  <2>2. PICK a \in Seq(PacketContents) : a = Rest(s, k) /\ RestOf(a, s, k, v)  BY <1>4, <2>1, RestIs
  <2>3. Len(a) = v /\ \A i \in 1 .. v : a[i] = s[k + i]  BY <2>2 DEF RestOf
  <2>4. ASSUME NEW i \in 1 .. v PROVE a[i] = ContentOf(base, (d + k) + i)
    <3>1. k + i \in 1 .. (k + v) /\ d + (k + i) = (d + k) + i  OBVIOUS
    <3>2. s[k + i] = ContentOf(base, d + (k + i))  BY <3>1, <1>1
    <3> QED BY <3>1, <3>2, <2>3
  <2>5. WaitingIs(a, d + k, v)  BY <2>3, <2>4 DEF WaitingIs
  <2>6. a = g  BY <2>5, SameWaiting
  <2> QED BY <2>2, <2>6 DEF Rest
<1> QED BY <1>4, <1>5, <1>6

\* What a command lets out comes out of the pipe, or nothing does.
LEMMA GetIs ==
  ASSUME EnetInv, NEW n \in data, Receive(n)
  PROVE  P!Get \/ UNCHANGED <<PipeQueue, delivered, open>>
<1>1. EType /\ base \in Bases /\ base \in Nat  BY BaseIs DEF EnetInv, EType
<1>2. UNCHANGED <<base, queued, open>>  BY DEF Receive, sender
<1>3. PICK hi : WireIs(hi)  BY DEF EnetInv
<1>4. ReceiverIs(base, queued, hi, delivered, arrived, current)  BY <1>3 DEF WireIs
<1>5. Received(n, hi)
  <2>1. n \in data \cup answers  OBVIOUS
  <2>2. n \in Nat /\ base < n /\ n <= hi /\ n > hi - MaxAge  BY <2>1, <1>3 DEF WireIs, NetIs
  <2>3. n > base  BY <2>2, <1>1
  <2> QED BY <2>2, <2>3, <1>1, <1>4, ReceiveIs
<1>6. Delivers(base, queued, delivered, delivered')  BY <1>5 DEF Received
<1>7. PICK d \in Nat : d = Len(delivered) /\ d <= queued /\ queued \in 0 .. PacketCount
                       /\ delivered \in Seq(Seq(Nat))
  <2>1. Len(delivered) \in 0 .. PacketCount /\ Len(delivered) <= queued /\ queued \in 0 .. PacketCount
        /\ delivered \in Seq(Seq(Nat))
    BY <1>1, <1>4, OutNat
  <2>2. PacketCount \in Nat  BY StartsAre
  <2>3. Len(delivered) \in Nat  BY <2>1, <2>2
  <2> QED BY <2>1, <2>3
<1>8. PICK k \in Nat : d + k <= queued
                       /\ delivered' = delivered \o [j \in 1 .. k |-> ContentOf(base, d + j)]
  BY <1>6, <1>7 DEF Delivers
<1>9. PICK v \in Nat : queued = d + (k + v) /\ queued = (d + k) + v
  <2>1. queued \in Nat
    <3>1. PacketCount \in Nat  BY StartsAre
    <3> QED BY <3>1, <1>7
  <2>2. queued - (d + k) \in Nat /\ queued = d + (k + (queued - (d + k)))
        /\ queued = (d + k) + (queued - (d + k))
    BY <2>1, <1>8
  <2> QED BY <2>2
<1>10. d + (k + v) <= PacketCount /\ d + k <= PacketCount /\ (d + k) + v <= PacketCount
  <2>1. PacketCount \in Nat  BY StartsAre
  <2> QED BY <2>1, <1>7, <1>8, <1>9
<1>11. PICK f : f = [j \in 1 .. k |-> ContentOf(base, d + j)]  OBVIOUS
<1>12. f \in Seq(PacketContents) /\ WaitingIs(f, d, k)
  <2>1. PICK h : h = Waiting(base, d + k, delivered)  OBVIOUS
  <2>2. (d + k) - d = k  OBVIOUS
  <2>3. h = f  BY <2>1, <2>2, <1>7, <1>11 DEF Waiting
  <2>4. h \in Seq(PacketContents) /\ WaitingIs(h, d, k)  BY <2>1, <1>1, <1>7, <1>10, WaitingAre
  <2> QED BY <2>3, <2>4
<1>13. Len(delivered') = d + k /\ delivered' = delivered \o f
  <2>1. Len(f) = k  BY <1>12 DEF WaitingIs
  <2>2. delivered' = delivered \o f  BY <1>8, <1>11
  <2>3. Len(delivered \o f) = d + k  BY ZenonT(30), <2>1, <1>7, <1>12, JoinedLength
  <2> QED BY <2>2, <2>3
<1>14. PICK s : s = Waiting(base, queued, delivered)  OBVIOUS
<1>15. s \in Seq(PacketContents) /\ WaitingIs(s, d, k + v)
  BY <1>1, <1>7, <1>9, <1>10, <1>14, WaitingAre
<1>16. PICK D2 : D2 = delivered'  OBVIOUS
<1>17. PICK g : g = Waiting(base, queued, D2)  OBVIOUS
<1>18. g \in Seq(PacketContents) /\ WaitingIs(g, d + k, v)
  <2>1. PICK e \in Nat : e = d + k  OBVIOUS
  <2>2. e = Len(D2) /\ queued = e + v /\ e + v <= PacketCount  BY <2>1, <1>9, <1>10, <1>13, <1>16
  <2>3. g \in Seq(PacketContents) /\ WaitingIs(g, e, v)  BY <2>2, <1>1, <1>17, WaitingAre
  <2> QED BY <2>1, <2>3
<1>19. PipeQueue = s /\ PipeQueue' = g
  <2>1. PipeQueue' = Waiting(base', queued', delivered')  BY DEF PipeQueue, Waiting, Content, ContentOf, From
  <2> QED BY <2>1, <1>2, <1>14, <1>16, <1>17, ContentIs
<1>20. k \in 0 .. Len(s) /\ f = SubSeq(s, 1, k) /\ g = SubSeq(s, k + 1, Len(s))
  BY <1>1, <1>12, <1>15, <1>18, WaitingSplit
<1>21. CASE k = 0
  <2>1. f = <<>>
    <3>1. Len(f) = 0  BY <1>12, <1>21 DEF WaitingIs
    <3> QED BY <3>1, <1>12
  <2>2. D2 = delivered  BY <2>1, <1>7, <1>13, <1>16
  <2>3. g = s  BY <2>2, <1>14, <1>17
  <2> QED BY <2>2, <2>3, <1>2, <1>16, <1>19
<1>22. CASE k # 0
  <2>1. k \in 1 .. Len(PipeQueue)
    <3>1. k \in 1 .. Len(s)
      <4>1. Len(s) \in Nat  BY <1>15
      <4> QED BY <4>1, <1>20, <1>22
    <3> QED BY <3>1, <1>19
  <2>2. delivered' = delivered \o SubSeq(PipeQueue, 1, k)  BY <1>13, <1>19, <1>20
  <2>3. PipeQueue' = SubSeq(PipeQueue, k + 1, Len(PipeQueue))  BY <1>19, <1>20
  <2>4. \E i \in 1 .. Len(PipeQueue) :
          /\ delivered' = delivered \o SubSeq(PipeQueue, 1, i)
          /\ PipeQueue' = SubSeq(PipeQueue, i + 1, Len(PipeQueue))
          /\ UNCHANGED open
    BY <2>1, <2>2, <2>3, <1>2
  <2> QED BY <2>4, Zenon DEF P!Get
<1> QED BY <1>21, <1>22

LEMMA QueueStays ==
  ASSUME UNCHANGED <<base, queued, delivered>>
  PROVE  PipeQueue' = PipeQueue
<1>1. PipeQueue' = Waiting(base', queued', delivered')  BY DEF PipeQueue, Waiting, Content, ContentOf, From
<1> QED BY <1>1, ContentIs

\* A step of the channel is a step of the pipe or none.
LEMMA PipeNext ==
  ASSUME EnetInv, [Next]_vars
  PROVE  [P!Next]_<<PipeQueue, delivered, open>>
<1>1. CASE PeerSend  BY <1>1, PutIs DEF P!Next
<1>2. CASE GiveUp
  <2>1. open /\ open' = FALSE /\ UNCHANGED <<base, queued, delivered>>  BY <1>2 DEF GiveUp, receiver
  <2>2. PipeQueue' = PipeQueue  BY <2>1, QueueStays
  <2>3. open /\ open' = FALSE /\ UNCHANGED <<PipeQueue, delivered>>  BY <2>1, <2>2
  <2>4. P!GiveUp  BY <2>3, Zenon DEF P!GiveUp
  <2> QED BY <2>4 DEF P!Next
<1>3. ASSUME NEW n \in data, Receive(n) PROVE [P!Next]_<<PipeQueue, delivered, open>>
  <2>1. P!Get \/ UNCHANGED <<PipeQueue, delivered, open>>  BY <1>3, GetIs
  <2> QED BY <2>1 DEF P!Next
<1>4. ASSUME UNCHANGED <<base, queued, delivered, open>> PROVE [P!Next]_<<PipeQueue, delivered, open>>
  <2>1. PipeQueue' = PipeQueue  BY <1>4, QueueStays
  <2> QED BY <2>1, <1>4
<1>5. CASE BandwidthLimit  BY <1>4, <1>5 DEF BandwidthLimit, receiver, sender
<1>6. CASE Flush  BY <1>4, <1>6 DEF Flush, Service, receiver
<1>7. CASE Resend  BY <1>4, <1>7 DEF Resend, Service, receiver
<1>8. ASSUME NEW m \in answers, HandleAcknowledge(m) PROVE [P!Next]_<<PipeQueue, delivered, open>>
  BY <1>4, <1>8 DEF HandleAcknowledge, receiver
<1>9. ASSUME NEW n \in data, LoseData(n) PROVE [P!Next]_<<PipeQueue, delivered, open>>
  BY <1>4, <1>9 DEF LoseData, receiver, sender
<1>10. ASSUME NEW m \in answers, LoseAnswer(m) PROVE [P!Next]_<<PipeQueue, delivered, open>>
  BY <1>4, <1>10 DEF LoseAnswer, receiver, sender
<1>11. CASE UNCHANGED vars  BY <1>4, <1>11 DEF vars, receiver, sender
<1> QED BY <1>1, <1>2, <1>3, <1>5, <1>6, <1>7, <1>8, <1>9, <1>10, <1>11 DEF Next

-----------------------------------------------------------------------------
(* The theorems.                                                           *)

\* The first part of LinksSpec.
LEMMA LinksAreEnet ==
  /\ LinksInit => Init
  /\ [LinksNext]_<<part, vars, ircVars>> => [Next]_vars
BY Zenon DEF LinksInit, LinksNext

\* The invariant holds of every behaviour of the links.
LEMMA EnetHolds == LinksSpec => []EnetInv
<1>1. LinksSpec => LinksInit /\ [][LinksNext]_<<part, vars, ircVars>>  BY PTL DEF LinksSpec
<1>2. LinksInit => EnetInv  BY LinksAreEnet, EnetInit
<1>3. EnetInv /\ [LinksNext]_<<part, vars, ircVars>> => EnetInv'  BY LinksAreEnet, EnetNext
<1> QED BY <1>1, <1>2, <1>3, PTL

\* A command the sender no longer has on its lists is in the receiver's hands.
THEOREM AnsweredCommandsWereTaken == LinksSpec => []AnsweredWasTaken
<1>1. EnetInv => AnsweredWasTaken  BY AnsweredWasTakenInv
<1> QED BY <1>1, EnetHolds, PTL

THEOREM WindowsCountOutstanding == LinksSpec => []WindowsCount
<1>1. EnetInv => WindowsCount  BY WindowsCountInv
<1> QED BY <1>1, EnetHolds, PTL

THEOREM ChannelIsAPipe == LinksSpec => ImplementsPipe
<1>1. LinksSpec => LinksInit /\ [][LinksNext]_<<part, vars, ircVars>>  BY PTL DEF LinksSpec
<1>2. LinksInit => P!Init  BY LinksAreEnet, PipeInit
<1>3. EnetInv /\ [LinksNext]_<<part, vars, ircVars>> => [P!Next]_<<PipeQueue, delivered, open>>
  BY LinksAreEnet, PipeNext
<1>4. P!Init /\ [][P!Next]_<<PipeQueue, delivered, open>> => ImplementsPipe
  BY PTL DEF ImplementsPipe, P!Spec
<1> QED BY <1>1, <1>2, <1>3, <1>4, EnetHolds, PTL
=============================================================================
