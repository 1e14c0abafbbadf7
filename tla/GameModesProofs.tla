--------------------------- MODULE GameModesProofs ---------------------------
(***************************************************************************)
(* Proofs about the flags and bases of GameModes, for every set of players *)
(* and every map.                                                          *)
(***************************************************************************)
EXTENDS GameModes, FiniteSetTheorems, TLAPS

Modes == Flags!Gamemodes \cup {"capture"}

\* Who plays, and on which side; the clock.
PeopleOK ==
  /\ life \in [Players -> {"alive", "dead", "out"}]
  /\ team \in [Players -> {0} \cup Flags!Teams]
  /\ over \in BOOLEAN /\ paused \in BOOLEAN

\* The flags are those of a map; a mode without flags has none.
FlagsOK ==
  /\ gamemode \in Modes
  /\ DOMAIN flags \in {DOMAIN L : L \in Layouts \cup Flags!HoldLayouts}
  /\ flags \in [DOMAIN flags -> Flags!FlagStates]
  /\ notgotflags \in BOOLEAN
  /\ notgotflags => flags = <<>>
  /\ m_capture => flags = <<>> /\ notgotflags
  /\ scores \in [Flags!Teams -> LowScore .. FlagLimit]

\* What CarrierFits says of the flag f, without naming its number.
Suits(f, p) == gamemode = "hold" \/ (gamemode = "protect" <=> f.team = team[p])

Held == \A i \in DOMAIN flags : flags[i].owner # None =>
          life[flags[i].owner] = "alive" /\ Suits(flags[i], flags[i].owner)

\* Nobody has two flags.
OneEach == \A i, j \in DOMAIN flags :
             flags[i].owner # None /\ flags[i].owner = flags[j].owner => i = j

\* The inductive invariant.
FInv == PeopleOK /\ FlagsOK /\ Held /\ BarredStillLives /\ OneEach

-----------------------------------------------------------------------------
(* The operators on a flag.                                                *)

\* The number of a flag that has moved
After(n) == (n + 1) % Versions

LEMMA BumpIs ==
  ASSUME NEW f \in Flags!FlagStates
  PROVE  /\ Flags!Bump(f) \in Flags!FlagStates
         /\ Flags!Bump(f).team = f.team /\ Flags!Bump(f).owner = f.owner
         /\ Flags!Bump(f).dropper = f.dropper /\ Flags!Bump(f).dropped = f.dropped
         /\ Flags!Bump(f).version = After(f.version)
BY FlagAssumption DEF Flags!Bump, Flags!FlagStates, After

LEMMA OwnIs ==
  ASSUME NEW f \in Flags!FlagStates, NEW p \in Players
  PROVE  /\ Flags!Own(f, p) \in Flags!FlagStates
         /\ Flags!Own(f, p).team = f.team /\ Flags!Own(f, p).owner = p
         /\ Flags!Own(f, p).dropper = None /\ Flags!Own(f, p).version = f.version
BY DEF Flags!Own, Flags!FlagStates

LEMMA DropIs ==
  ASSUME NEW f \in Flags!FlagStates, NEW p \in Players
  PROVE  /\ Flags!Drop(f, p) \in Flags!FlagStates
         /\ Flags!Drop(f, p).team = f.team /\ Flags!Drop(f, p).owner = None
         /\ Flags!Drop(f, p).dropper = p /\ Flags!Drop(f, p).dropped = TRUE
         /\ Flags!Drop(f, p).version = f.version
BY DEF Flags!Drop, Flags!FlagStates

LEMMA HomeIs ==
  ASSUME NEW f \in Flags!FlagStates, NEW hide \in BOOLEAN
  PROVE  /\ Flags!Home(f, hide) \in Flags!FlagStates
         /\ Flags!Home(f, hide).team = f.team /\ Flags!Home(f, hide).owner = None
         /\ Flags!Home(f, hide).dropper = None /\ Flags!Home(f, hide).dropped = FALSE
         /\ Flags!Home(f, hide).version = f.version
BY DEF Flags!Home, Flags!FlagStates

\* What becomes of the flag f when p lets go of what he carries: he owns
\* nothing any more, what he had moves and gets its next number, and the rest
\* stays as it is.
Dropped(f, g, p) ==
  /\ g \in Flags!FlagStates
  /\ g.team = f.team
  /\ f.owner = p => /\ g.owner = None /\ g.dropper \in {None, p}
                    /\ g.version = After(f.version)
  /\ f.owner # p => g = f

\* The same when he dies or leaves: he is no flag's dropper any more either.
Forgotten(f, g, p) ==
  /\ g \in Flags!FlagStates
  /\ g.team = f.team
  /\ f.owner = p => /\ g.owner = None /\ g.dropper = None
                    /\ g.version = After(f.version)
  /\ f.owner # p => /\ g.owner = f.owner /\ g.dropped = f.dropped
                    /\ g.version = f.version
                    /\ g.dropper \in {None, f.dropper} \ {p}

LEMMA LetIs ==
  ASSUME NEW f \in Flags!FlagStates, NEW p \in Players, NEW b \in BOOLEAN
  PROVE  Dropped(f, IF f.owner # p THEN f
                    ELSE Flags!Bump(IF b THEN Flags!Home(f, FALSE) ELSE Flags!Drop(f, p)), p)
<1>1. CASE f.owner # p
  BY <1>1 DEF Dropped
<1>2. CASE f.owner = p /\ b
  <2> DEFINE g == Flags!Home(f, FALSE)
  <2>1. /\ g \in Flags!FlagStates /\ g.team = f.team /\ g.owner = None
        /\ g.dropper = None /\ g.dropped = FALSE /\ g.version = f.version
    BY HomeIs
  <2> HIDE DEF g
  <2> QED BY <1>2, <2>1, BumpIs DEF Dropped, g
<1>3. CASE f.owner = p /\ ~b
  <2> DEFINE g == Flags!Drop(f, p)
  <2>1. /\ g \in Flags!FlagStates /\ g.team = f.team /\ g.owner = None
        /\ g.dropper = p /\ g.dropped = TRUE /\ g.version = f.version
    BY DropIs
  <2> HIDE DEF g
  <2> QED BY <1>3, <2>1, BumpIs DEF Dropped, g
<1> QED BY <1>1, <1>2, <1>3

LEMMA DropCarriedIs ==
  ASSUME FlagsOK, NEW p \in Players, NEW b \in BOOLEAN, NEW d, d = Flags!DropCarried(p, b)
  PROVE  DOMAIN d = DOMAIN flags /\ d \in [DOMAIN d -> Flags!FlagStates]
         /\ \A i \in DOMAIN flags : Dropped(flags[i], d[i], p)
<1> DEFINE let(f) == IF f.owner # p THEN f
                     ELSE Flags!Bump(IF b THEN Flags!Home(f, FALSE) ELSE Flags!Drop(f, p))
<1>1. d = [i \in DOMAIN flags |-> let(flags[i])]
  BY DEF Flags!DropCarried
<1>2. ASSUME NEW i \in DOMAIN flags PROVE Dropped(flags[i], d[i], p)
  <2>1. flags[i] \in Flags!FlagStates
    BY DEF FlagsOK
  <2>2. d[i] = let(flags[i])
    BY <1>1
  <2>3. Dropped(flags[i], let(flags[i]), p)
    BY <2>1, LetIs
  <2> QED BY <2>2, <2>3
<1> HIDE DEF let
<1> QED BY <1>1, <1>2 DEF Dropped

LEMMA LetGoIs ==
  ASSUME FlagsOK, NEW p \in Players, NEW b \in BOOLEAN, NEW d, d = Flags!LetGo(p, b)
  PROVE  DOMAIN d = DOMAIN flags /\ d \in [DOMAIN d -> Flags!FlagStates]
         /\ \A i \in DOMAIN flags : Forgotten(flags[i], d[i], p)
<1> DEFINE e == Flags!DropCarried(p, b)
           forget(f) == IF f.dropper = p THEN [f EXCEPT !.dropper = None] ELSE f
<1>1. ASSUME NEW f \in Flags!FlagStates
      PROVE  /\ forget(f) \in Flags!FlagStates
             /\ forget(f).team = f.team /\ forget(f).owner = f.owner
             /\ forget(f).dropped = f.dropped /\ forget(f).version = f.version
             /\ forget(f).dropper \in {None, f.dropper} \ {p}
  <2>1. CASE f.dropper = p
    <3> DEFINE g == [f EXCEPT !.dropper = None]
    <3>1. /\ g \in Flags!FlagStates /\ g.team = f.team /\ g.owner = f.owner
          /\ g.dropped = f.dropped /\ g.version = f.version /\ g.dropper = None
      BY DEF Flags!FlagStates
    <3>2. forget(f) = g
      BY <2>1
    <3> HIDE DEF forget, g
    <3> QED BY <2>1, <3>1, <3>2, PlayersAssumption
  <2>2. CASE f.dropper # p
    BY <2>2
  <2> QED BY <2>1, <2>2
<1>2. d = [i \in DOMAIN flags |-> forget(e[i])]
  BY DEF Flags!LetGo
<1>3. \A i \in DOMAIN flags : Dropped(flags[i], e[i], p)
  BY DropCarriedIs
<1> HIDE DEF e
<1>4. ASSUME NEW i \in DOMAIN flags PROVE Forgotten(flags[i], d[i], p)
  <2>1. Dropped(flags[i], e[i], p) /\ e[i] \in Flags!FlagStates
    BY <1>3 DEF Dropped
  <2>2. d[i] = forget(e[i])
    BY <1>2
  <2> HIDE DEF forget
  <2> QED BY <1>1, <2>1, <2>2 DEF Dropped, Forgotten
<1> HIDE DEF forget
<1> QED BY <1>2, <1>4 DEF Forgotten

-----------------------------------------------------------------------------
(* The inductive invariant.                                                *)

\* In terms of the operators of CtfFlags
LEMMA SuitsIs ==
  \A i, p : Flags!ForMe(p, i) <=> Suits(flags[i], p)
BY DEF Flags!ForMe, Suits, Flags!m_hold, Flags!m_protect

LEMMA NoFlags ==
  /\ DOMAIN <<>> = {}
  /\ <<>> \in [{} -> Flags!FlagStates]
  /\ {} \in {DOMAIN L : L \in Layouts \cup Flags!HoldLayouts}
<1>1. DOMAIN [i \in 0 .. 0 - 1 |-> 0] = {}
  OBVIOUS
<1>2. [i \in 0 .. 0 - 1 |-> 0] \in Flags!HoldLayouts
  BY DEF Flags!HoldLayouts
<1> QED BY <1>1, <1>2

LEMMA FlagsInit == Init => FInv
<1> SUFFICES ASSUME Init PROVE FInv
  OBVIOUS
<1>1. flags = <<>> /\ notgotflags = TRUE /\ gamemode \in Flags!Gamemodes
  BY DEF Init, Flags!Init
<1>2. PeopleOK
  BY DEF Init, Flags!Init, PeopleOK
<1>3. FlagsOK
  BY <1>1, NoFlags, FlagAssumption DEF Init, Flags!Init, FlagsOK, Modes, m_capture, Flags!Gamemodes
<1> QED BY <1>1, <1>2, <1>3, NoFlags DEF FInv, Held, OneEach, BarredStillLives, Flags!BarredStillLives

\* Without flags nothing else has to be shown.
LEMMA EmptyFlags ==
  ASSUME PeopleOK', gamemode' \in Modes, flags' = <<>>, notgotflags' \in BOOLEAN,
         gamemode' = "capture" => notgotflags',
         scores' \in [Flags!Teams -> LowScore .. FlagLimit]
  PROVE  FInv'
<1>1. FlagsOK'
  BY NoFlags DEF FlagsOK, m_capture
<1> QED BY <1>1, NoFlags DEF FInv, Held, OneEach, BarredStillLives, Flags!BarredStillLives


\* A step in the match that brings no flag into other hands: flags stay with
\* who is alive and on his side still, and who dropped one is alive.
LEMMA FlagsMove ==
  ASSUME FInv, PeopleOK', ~m_capture, UNCHANGED <<gamemode, notgotflags>>,
         scores' \in [Flags!Teams -> LowScore .. FlagLimit],
         flags' \in [DOMAIN flags -> Flags!FlagStates],
         \A i \in DOMAIN flags :
           /\ flags'[i].team = flags[i].team
           /\ flags'[i].owner \in {None, flags[i].owner}
           /\ flags'[i].owner # None => /\ life'[flags[i].owner] = "alive"
                                        /\ team'[flags[i].owner] = team[flags[i].owner]
           /\ flags'[i].dropper # None => life'[flags'[i].dropper] = "alive"
  PROVE  FInv'
<1>1. FlagsOK'
  <2>1. DOMAIN flags' = DOMAIN flags
    OBVIOUS
  <2>2. notgotflags => flags' = <<>>
    BY NoFlags DEF FInv, FlagsOK
  <2> QED BY <2>1, <2>2 DEF FInv, FlagsOK, m_capture
<1>2. Held'
  BY DEF FInv, Held, Suits
<1>3. BarredStillLives' /\ OneEach'
  BY DEF FInv, BarredStillLives, Flags!BarredStillLives, OneEach
<1> QED BY <1>1, <1>2, <1>3 DEF FInv

\* The same, when one flag changes.
LEMMA FlagMoves ==
  ASSUME FInv, PeopleOK', ~m_capture, UNCHANGED <<gamemode, notgotflags, life, team>>,
         scores' \in [Flags!Teams -> LowScore .. FlagLimit],
         NEW i \in DOMAIN flags, NEW g \in Flags!FlagStates, flags' = [flags EXCEPT ![i] = g],
         g.team = flags[i].team, g.owner \in {None, flags[i].owner},
         g.dropper \in {None, flags[i].dropper}
  PROVE  FInv'
<1>1. flags' \in [DOMAIN flags -> Flags!FlagStates]
  BY DEF FInv, FlagsOK
<1>2. \A j \in DOMAIN flags : flags'[j] = IF j = i THEN g ELSE flags[j]
  BY DEF FInv, FlagsOK
<1>3. \A j \in DOMAIN flags :
           /\ flags'[j].team = flags[j].team
           /\ flags'[j].owner \in {None, flags[j].owner}
           /\ flags'[j].dropper \in {None, flags[j].dropper}
  BY <1>2
<1>4. \A j \in DOMAIN flags :
           /\ flags[j].owner # None => life[flags[j].owner] = "alive"
           /\ flags[j].dropper # None => life[flags[j].dropper] = "alive"
  BY DEF FInv, Held, BarredStillLives, Flags!BarredStillLives
<1> QED BY <1>1, <1>3, <1>4, FlagsMove

\* Letting go, with or without losing his life
LEMMA LetGoKeeps ==
  ASSUME FInv, ~m_capture, NEW p \in Players, \E b \in Flags!InBase : flags' = Flags!LetGo(p, b),
         PeopleOK', \A q \in Players \ {p} : life'[q] = life[q] /\ team'[q] = team[q],
         UNCHANGED <<gamemode, notgotflags, scores>>
  PROVE  FInv'
<1>1. PICK b \in BOOLEAN : flags' = Flags!LetGo(p, b)
  BY DEF Flags!InBase
<1>2. /\ flags' \in [DOMAIN flags -> Flags!FlagStates]
      /\ \A i \in DOMAIN flags : Forgotten(flags[i], flags'[i], p)
  BY <1>1, LetGoIs DEF FInv
<1>3. \A i \in DOMAIN flags : flags[i].owner \in Players \cup {None} /\ flags[i].dropper \in Players \cup {None}
  BY DEF FInv, FlagsOK, Flags!FlagStates
<1>4. ASSUME NEW i \in DOMAIN flags
      PROVE  /\ flags'[i].team = flags[i].team
             /\ flags'[i].owner \in {None, flags[i].owner} \ {p}
             /\ flags'[i].dropper \in {None, flags[i].dropper} \ {p}
  BY <1>2, PlayersAssumption DEF Forgotten
<1>5. ASSUME NEW i \in DOMAIN flags
      PROVE  /\ flags'[i].team = flags[i].team
             /\ flags'[i].owner \in {None, flags[i].owner}
             /\ flags'[i].owner # None => /\ life'[flags[i].owner] = "alive"
                                          /\ team'[flags[i].owner] = team[flags[i].owner]
             /\ flags'[i].dropper # None => life'[flags'[i].dropper] = "alive"
  BY <1>3, <1>4 DEF FInv, Held, BarredStillLives, Flags!BarredStillLives
<1>6. scores' \in [Flags!Teams -> LowScore .. FlagLimit]
  BY DEF FInv, FlagsOK
<1> QED BY <1>2, <1>5, <1>6, FlagsMove

\* Dropping what one carries and living on; a bot may change sides over it.
LEMMA DropKeeps ==
  ASSUME FInv, ~m_capture, NEW p \in Players, life[p] = "alive",
         \E b \in Flags!InBase : flags' = Flags!DropCarried(p, b),
         PeopleOK', life' = life, \A q \in Players \ {p} : team'[q] = team[q],
         UNCHANGED <<gamemode, notgotflags, scores>>
  PROVE  FInv'
<1>1. PICK b \in BOOLEAN : flags' = Flags!DropCarried(p, b)
  BY DEF Flags!InBase
<1>2. /\ flags' \in [DOMAIN flags -> Flags!FlagStates]
      /\ \A i \in DOMAIN flags : Dropped(flags[i], flags'[i], p)
  BY <1>1, DropCarriedIs DEF FInv
<1>3. \A i \in DOMAIN flags : flags[i].owner \in Players \cup {None} /\ flags[i].dropper \in Players \cup {None}
  BY DEF FInv, FlagsOK, Flags!FlagStates
<1>4. ASSUME NEW i \in DOMAIN flags
      PROVE  /\ flags'[i].team = flags[i].team
             /\ flags'[i].owner \in {None, flags[i].owner} \ {p}
             /\ flags'[i].dropper \in {None, flags[i].dropper, p}
  BY <1>2, PlayersAssumption DEF Dropped
<1>5. ASSUME NEW i \in DOMAIN flags
      PROVE  /\ flags'[i].team = flags[i].team
             /\ flags'[i].owner \in {None, flags[i].owner}
             /\ flags'[i].owner # None => /\ life'[flags[i].owner] = "alive"
                                          /\ team'[flags[i].owner] = team[flags[i].owner]
             /\ flags'[i].dropper # None => life'[flags'[i].dropper] = "alive"
  BY <1>3, <1>4 DEF FInv, Held, BarredStillLives, Flags!BarredStillLives
<1>6. scores' \in [Flags!Teams -> LowScore .. FlagLimit]
  BY DEF FInv, FlagsOK
<1> QED BY <1>2, <1>5, <1>6, FlagsMove

\* Nothing but players changes, and none of those who carry or dropped a flag.
LEMMA PeopleChange ==
  ASSUME FInv, ~m_capture, UNCHANGED <<gamemode, notgotflags, flags, scores>>, PeopleOK',
         \A q \in Players : life[q] = "alive" => life'[q] = "alive" /\ team'[q] = team[q]
  PROVE  FInv'
<1>1. \A i \in DOMAIN flags : flags[i].owner \in Players \cup {None} /\ flags[i].dropper \in Players \cup {None}
  BY DEF FInv, FlagsOK, Flags!FlagStates
<1>2. ASSUME NEW i \in DOMAIN flags
      PROVE  /\ flags'[i].team = flags[i].team
             /\ flags'[i].owner \in {None, flags[i].owner}
             /\ flags'[i].owner # None => /\ life'[flags[i].owner] = "alive"
                                          /\ team'[flags[i].owner] = team[flags[i].owner]
             /\ flags'[i].dropper # None => life'[flags'[i].dropper] = "alive"
  BY <1>1 DEF FInv, Held, BarredStillLives, Flags!BarredStillLives
<1>3. /\ scores' \in [Flags!Teams -> LowScore .. FlagLimit]
      /\ flags' \in [DOMAIN flags -> Flags!FlagStates]
  BY DEF FInv, FlagsOK
<1> QED BY <1>2, <1>3, FlagsMove

\* A point changes the score and the clock only.
LEMMA PointIs ==
  ASSUME FInv, NEW p, Flags!AddPoint(p)
  PROVE  /\ scores' \in [Flags!Teams -> LowScore .. FlagLimit]
         /\ PeopleOK' /\ UNCHANGED <<life, team, gamemode, notgotflags>>
<1>1. scores' \in [Flags!Teams -> LowScore .. FlagLimit]
  <2> DEFINE t == team[p]
             n == IF scores[t] < FlagLimit THEN scores[t] + 1 ELSE scores[t]
  <2>1. scores \in [Flags!Teams -> LowScore .. FlagLimit]
    BY DEF FInv, FlagsOK
  <2>2. t \in Flags!Teams => n \in LowScore .. FlagLimit
    BY <2>1, FlagAssumption
  <2>3. scores' = [scores EXCEPT ![t] = n]
    BY DEF Flags!AddPoint
  <2> HIDE DEF t, n
  <2> QED BY <2>1, <2>2, <2>3
<1>2. PeopleOK' /\ UNCHANGED <<life, team, gamemode, notgotflags>>
  BY DEF FInv, PeopleOK, Flags!AddPoint, Flags!people
<1> QED BY <1>1, <1>2

\* A flag that goes home and gets its next number
LEMMA BumpHomeIs ==
  ASSUME NEW f \in Flags!FlagStates, NEW hide \in BOOLEAN, NEW g,
         g = Flags!Bump(Flags!Home(f, hide))
  PROVE  /\ g \in Flags!FlagStates /\ g.team = f.team /\ g.owner = None
         /\ g.dropper = None /\ g.dropped = FALSE /\ g.version = After(f.version)
<1> DEFINE h == Flags!Home(f, hide)
<1>1. /\ h \in Flags!FlagStates /\ h.team = f.team /\ h.owner = None
      /\ h.dropper = None /\ h.dropped = FALSE /\ h.version = f.version
  BY HomeIs
<1> HIDE DEF h
<1> QED BY <1>1, BumpIs DEF h

\* One flag goes home, and somebody may score.
LEMMA HomeKeeps ==
  ASSUME FInv, ~m_capture, NEW i \in DOMAIN flags, NEW hide \in BOOLEAN,
         flags' = [flags EXCEPT ![i] = Flags!Bump(Flags!Home(@, hide))],
         PeopleOK', UNCHANGED <<gamemode, notgotflags, life, team>>,
         scores' \in [Flags!Teams -> LowScore .. FlagLimit]
  PROVE  FInv'
<1> DEFINE g == Flags!Bump(Flags!Home(flags[i], hide))
<1>1. flags[i] \in Flags!FlagStates /\ flags' = [flags EXCEPT ![i] = g]
  BY DEF FInv, FlagsOK
<1>2. g \in Flags!FlagStates /\ g.team = flags[i].team /\ g.owner = None /\ g.dropper = None
  BY <1>1, BumpHomeIs
<1> HIDE DEF g
<1> QED BY <1>1, <1>2, FlagMoves

LEMMA PickUpKeeps ==
  ASSUME FInv, ~m_capture, NEW p \in Players, NEW i \in DOMAIN flags, NEW v,
         Flags!MayTake(p, i, v), Flags!PickUp(p, i)
  PROVE  FInv'
<1> DEFINE h == Flags!Own(flags[i], p)
           g == Flags!Bump(h)
<1>0. flags[i] \in Flags!FlagStates /\ flags \in [DOMAIN flags -> Flags!FlagStates]
  BY DEF FInv, FlagsOK
<1>1. /\ h \in Flags!FlagStates /\ h.team = flags[i].team /\ h.owner = p
      /\ h.dropper = None /\ h.version = flags[i].version
  BY <1>0, OwnIs
<1>2. flags' = [flags EXCEPT ![i] = g] /\ UNCHANGED <<life, team, gamemode, notgotflags, scores, over, paused>>
  BY DEF Flags!PickUp, Flags!people, Flags!match
<1> HIDE DEF h
<1>3. g \in Flags!FlagStates /\ g.team = flags[i].team /\ g.owner = p /\ g.dropper = None
  BY <1>1, BumpIs
<1> HIDE DEF g
<1>4. /\ flags' \in [DOMAIN flags -> Flags!FlagStates] /\ DOMAIN flags' = DOMAIN flags
      /\ \A j \in DOMAIN flags : flags'[j] = IF j = i THEN g ELSE flags[j]
  BY <1>0, <1>2, <1>3
<1>5. life[p] = "alive" /\ Suits(flags[i], p) /\ \A j \in DOMAIN flags : flags[j].owner # p
  BY SuitsIs DEF Flags!MayTake, Flags!PickUp, Flags!Carried
<1>6. PeopleOK'
  BY <1>2 DEF FInv, PeopleOK
<1>7. FlagsOK'
  <2>1. ~notgotflags
    BY NoFlags DEF FInv, FlagsOK
  <2> QED BY <1>2, <1>4, <2>1 DEF FInv, FlagsOK, m_capture
<1>8. Held'
  BY <1>2, <1>3, <1>4, <1>5 DEF FInv, Held, Suits
<1>9. BarredStillLives' /\ OneEach'
  BY <1>2, <1>3, <1>4, <1>5 DEF FInv, BarredStillLives, Flags!BarredStillLives, OneEach
<1> QED BY <1>6, <1>7, <1>8, <1>9 DEF FInv

LEMMA CaptureKeeps ==
  ASSUME FInv, ~m_capture, NEW p \in Players, NEW i \in DOMAIN flags, flags[i].owner = None,
         Flags!Capture(p, i)
  PROVE  FInv'
<1>1. PICK j \in Flags!Carried(p) :
        flags' = [flags EXCEPT ![i] = Flags!Bump(@), ![j] = Flags!Bump(Flags!Home(@, FALSE))]
  BY DEF Flags!Capture
<1> DEFINE g == Flags!Bump(flags[i])
           h == Flags!Bump(Flags!Home(flags[j], FALSE))
<1>2. /\ flags \in [DOMAIN flags -> Flags!FlagStates] /\ j \in DOMAIN flags /\ i # j
      /\ flags[i] \in Flags!FlagStates /\ flags[j] \in Flags!FlagStates
  BY <1>1, PlayersAssumption DEF FInv, FlagsOK, Flags!Carried
<1>3. flags' = [flags EXCEPT ![i] = g, ![j] = h]
  BY <1>1, <1>2
<1>4. /\ g \in Flags!FlagStates /\ g.team = flags[i].team /\ g.owner = None
      /\ g.dropper = flags[i].dropper
  BY <1>2, BumpIs
<1>5. h \in Flags!FlagStates /\ h.team = flags[j].team /\ h.owner = None /\ h.dropper = None
  <2>1. \A hide \in BOOLEAN : \A k : k = Flags!Bump(Flags!Home(flags[j], hide)) =>
           k \in Flags!FlagStates /\ k.team = flags[j].team /\ k.owner = None /\ k.dropper = None
    BY <1>2, BumpHomeIs
  <2> QED BY <2>1
<1> HIDE DEF g, h
<1>6. /\ flags' \in [DOMAIN flags -> Flags!FlagStates]
      /\ \A k \in DOMAIN flags : flags'[k] = IF k = i THEN g ELSE IF k = j THEN h ELSE flags[k]
  BY <1>2, <1>3, <1>4, <1>5
<1>7. /\ scores' \in [Flags!Teams -> LowScore .. FlagLimit]
      /\ PeopleOK' /\ UNCHANGED <<life, team, gamemode, notgotflags>>
  BY PointIs DEF Flags!Capture
<1>8. \A k \in DOMAIN flags :
        /\ flags'[k].team = flags[k].team
        /\ flags'[k].owner \in {None, flags[k].owner}
        /\ flags'[k].dropper \in {None, flags[k].dropper}
  BY <1>4, <1>5, <1>6
<1>9. \A k \in DOMAIN flags :
        /\ flags[k].owner # None => life[flags[k].owner] = "alive"
        /\ flags[k].dropper # None => life[flags[k].dropper] = "alive"
  BY DEF FInv, Held, BarredStillLives, Flags!BarredStillLives
<1> QED BY <1>6, <1>7, <1>8, <1>9, FlagsMove

LEMMA InitFlagsKeeps ==
  ASSUME FInv, ~m_capture, Flags!InitFlags
  PROVE  FInv'
<1>1. PICK L \in Layouts \cup Flags!HoldLayouts :
        flags' = [i \in DOMAIN L |->
          [team |-> L[i], owner |-> None, dropper |-> None, dropped |-> FALSE,
           invis |-> Flags!m_protect, version |-> IF Flags!m_hold THEN 1 ELSE 0]]
  BY DEF Flags!InitFlags
<1>2. L \in [DOMAIN L -> {0, 1, 2}]
  <2>1. CASE L \in Layouts
    BY <2>1, FlagAssumption
  <2>2. CASE L \in Flags!HoldLayouts
    BY <2>2 DEF Flags!HoldLayouts
  <2> QED BY <2>1, <2>2
<1>3. 0 \in 0 .. Versions - 1 /\ 1 \in 0 .. Versions - 1
  BY FlagAssumption
<1>4. flags' \in [DOMAIN L -> Flags!FlagStates]
  BY <1>1, <1>2, <1>3 DEF Flags!FlagStates, Flags!Teams, Flags!m_protect
<1>5. \A i \in DOMAIN flags' : flags'[i].owner = None /\ flags'[i].dropper = None
  BY <1>1
<1>6. UNCHANGED <<life, team, gamemode, scores, over, paused>> /\ notgotflags' = FALSE
  BY DEF Flags!InitFlags, Flags!people
<1>7. PeopleOK'
  BY <1>6 DEF FInv, PeopleOK
<1>8. FlagsOK'
  BY <1>4, <1>6 DEF FInv, FlagsOK, m_capture
<1> QED BY <1>5, <1>7, <1>8 DEF FInv, Held, OneEach, BarredStillLives, Flags!BarredStillLives

LEMMA TakeFlagKeeps ==
  ASSUME FInv, ~m_capture, NEW p \in Players, NEW i \in DOMAIN flags, NEW v, Flags!TakeFlag(p, i, v)
  PROVE  FInv'
<1>1. CASE Flags!PickUp(p, i)
  BY <1>1, PickUpKeeps DEF Flags!TakeFlag
<1>2. CASE Flags!ProtectScore(p, i)
  <2>1. \E hide \in BOOLEAN : flags' = [flags EXCEPT ![i] = Flags!Bump(Flags!Home(@, hide))]
    BY <1>2 DEF Flags!ProtectScore
  <2>2. Flags!AddPoint(p)
    BY <1>2 DEF Flags!ProtectScore
  <2> QED BY <2>1, <2>2, PointIs, HomeKeeps
<1>3. CASE Flags!ReturnOwn(p, i)
  <2>1. \E hide \in BOOLEAN : flags' = [flags EXCEPT ![i] = Flags!Bump(Flags!Home(@, hide))]
    BY <1>3 DEF Flags!ReturnOwn
  <2>2. UNCHANGED <<life, team, gamemode, notgotflags, scores, over, paused>>
    BY <1>3 DEF Flags!ReturnOwn, Flags!people, Flags!match
  <2>3. PeopleOK' /\ scores' \in [Flags!Teams -> LowScore .. FlagLimit]
    BY <2>2 DEF FInv, PeopleOK, FlagsOK
  <2> QED BY <2>1, <2>2, <2>3, HomeKeeps
<1>4. CASE Flags!Capture(p, i)
  BY <1>4, CaptureKeeps DEF Flags!TakeFlag, Flags!MayTake
<1> QED BY <1>1, <1>2, <1>3, <1>4 DEF Flags!TakeFlag

\* The steps of one player
LEMMA PlayerKeeps ==
  ASSUME FInv, ~m_capture, NEW p \in Players, Flags!PlayerStep(p)
  PROVE  FInv'
<1>0. PeopleOK
  BY DEF FInv
<1>1. CASE Flags!Spawn(p)
  <2>1. PeopleOK' /\ UNCHANGED <<gamemode, notgotflags, flags, scores>>
    BY <1>0, <1>1 DEF Flags!Spawn, PeopleOK, Flags!match
  <2> QED BY <1>0, <1>1, <2>1, PeopleChange DEF Flags!Spawn, PeopleOK
<1>2. CASE Flags!Die(p)
  <2>1. PeopleOK' /\ UNCHANGED <<gamemode, notgotflags, scores>>
    BY <1>0, <1>2 DEF Flags!Die, PeopleOK, Flags!match
  <2> QED BY <1>0, <1>2, <2>1, LetGoKeeps DEF Flags!Die, PeopleOK
<1>3. CASE Flags!Leave(p)
  <2>1. PeopleOK' /\ UNCHANGED <<gamemode, notgotflags, scores>>
    BY <1>0, <1>3 DEF Flags!Leave, PeopleOK, Flags!match
  <2> QED BY <1>0, <1>3, <2>1, LetGoKeeps DEF Flags!Leave, PeopleOK
<1>4. CASE Flags!TryDrop(p)
  <2>1. PeopleOK' /\ UNCHANGED <<gamemode, notgotflags, scores, life, team>>
    BY <1>0, <1>4 DEF Flags!TryDrop, PeopleOK, Flags!match, Flags!people
  <2>2. life[p] = "alive"
    BY <1>4, PlayersAssumption DEF Flags!TryDrop, Flags!Carried, FInv, Held
  <2> QED BY <1>4, <2>1, <2>2, DropKeeps DEF Flags!TryDrop
<1>5. ASSUME NEW t \in Flags!Teams, Flags!Enter(p, t) PROVE FInv'
  <2>1. PeopleOK' /\ UNCHANGED <<gamemode, notgotflags, flags, scores>>
    BY <1>0, <1>5 DEF Flags!Enter, PeopleOK, Flags!match
  <2> QED BY <1>0, <1>5, <2>1, PeopleChange DEF Flags!Enter, PeopleOK
<1>6. ASSUME NEW t \in Flags!Teams, Flags!SwitchTeam(p, t) PROVE FInv'
  <2>1. PeopleOK' /\ UNCHANGED <<gamemode, notgotflags, scores>>
    BY <1>0, <1>6 DEF Flags!SwitchTeam, PeopleOK, Flags!match
  <2>2. \A q \in Players \ {p} : life'[q] = life[q] /\ team'[q] = team[q]
    BY <1>0, <1>6 DEF Flags!SwitchTeam, PeopleOK
  <2>3. CASE life[p] = "alive"
    BY <1>6, <2>1, <2>2, <2>3, LetGoKeeps DEF Flags!SwitchTeam
  <2>4. CASE life[p] # "alive"
    BY <1>6, <2>1, <2>2, <2>4, PeopleChange DEF Flags!SwitchTeam
  <2> QED BY <2>3, <2>4
<1>7. ASSUME NEW t \in Flags!Teams, Flags!MoveBot(p, t) PROVE FInv'
  <2>1. PeopleOK' /\ UNCHANGED <<gamemode, notgotflags, scores, life>>
    BY <1>0, <1>7 DEF Flags!MoveBot, PeopleOK, Flags!match
  <2>2. \A q \in Players \ {p} : team'[q] = team[q]
    BY <1>0, <1>7 DEF Flags!MoveBot, PeopleOK
  <2>3. CASE life[p] = "alive"
    BY <1>7, <2>1, <2>2, <2>3, DropKeeps DEF Flags!MoveBot
  <2>4. CASE life[p] # "alive"
    BY <1>7, <2>1, <2>2, <2>4, PeopleChange DEF Flags!MoveBot
  <2> QED BY <2>3, <2>4
<1>8. ASSUME NEW i \in DOMAIN flags, NEW v \in 0 .. Versions - 1, Flags!TakeFlag(p, i, v) PROVE FInv'
  BY <1>8, TakeFlagKeeps
<1> QED BY <1>1, <1>2, <1>3, <1>4, <1>5, <1>6, <1>7, <1>8 DEF Flags!PlayerStep

\* A new map takes the flags away, and gives everybody a team and a life.
LEMMA ChangeMapPeople ==
  ASSUME PeopleOK, Flags!ChangeMap
  PROVE  PeopleOK'
BY DEF PeopleOK, Flags!ChangeMap, Flags!Teams

LEMMA NoScore == [t \in Flags!Teams |-> 0] \in [Flags!Teams -> LowScore .. FlagLimit]
BY FlagAssumption

\* update() for one flag
LEMMA UpdateKeeps ==
  ASSUME FInv, ~m_capture, NEW i \in DOMAIN flags,
         Flags!ResetFlag(i) \/ Flags!ShowFlag(i) \/ Flags!HoldScore(i)
  PROVE  FInv'
<1>1. CASE Flags!ResetFlag(i)
  <2>1. \E hide \in BOOLEAN : flags' = [flags EXCEPT ![i] = Flags!Bump(Flags!Home(@, hide))]
    BY <1>1 DEF Flags!ResetFlag, Flags!m_protect
  <2>2. UNCHANGED <<life, team, gamemode, notgotflags, over, paused>>
    BY <1>1 DEF Flags!ResetFlag, Flags!people
  <2>3. scores' \in [Flags!Teams -> LowScore .. FlagLimit]
    BY <1>1, FlagAssumption DEF Flags!ResetFlag, FInv, FlagsOK
  <2>4. PeopleOK'
    BY <2>2 DEF FInv, PeopleOK
  <2> QED BY <2>1, <2>2, <2>3, <2>4, HomeKeeps
<1>2. CASE Flags!ShowFlag(i)
  <2> DEFINE g == [flags[i] EXCEPT !.invis = FALSE]
  <2>1. /\ flags' = [flags EXCEPT ![i].invis = FALSE]
        /\ UNCHANGED <<life, team, gamemode, notgotflags, scores, over, paused>>
    BY <1>2 DEF Flags!ShowFlag, Flags!people, Flags!match
  <2>2. flags' = [flags EXCEPT ![i] = g]
    BY <2>1
  <2>3. flags[i] \in Flags!FlagStates
    BY DEF FInv, FlagsOK
  <2>4. /\ g \in Flags!FlagStates /\ g.team = flags[i].team
        /\ g.owner = flags[i].owner /\ g.dropper = flags[i].dropper
    BY <2>3 DEF Flags!FlagStates
  <2> HIDE DEF g
  <2>5. PeopleOK' /\ scores' \in [Flags!Teams -> LowScore .. FlagLimit]
    BY <2>1 DEF FInv, PeopleOK, FlagsOK
  <2> QED BY <2>1, <2>2, <2>4, <2>5, FlagMoves
<1>3. CASE Flags!HoldScore(i)
  <2>1. \E hide \in BOOLEAN : flags' = [flags EXCEPT ![i] = Flags!Bump(Flags!Home(@, hide))]
    BY <1>3 DEF Flags!HoldScore
  <2>2. Flags!AddPoint(flags[i].owner)
    BY <1>3 DEF Flags!HoldScore
  <2> QED BY <2>1, <2>2, PointIs, HomeKeeps
<1> QED BY <1>1, <1>2, <1>3

\* Every step in a mode with flags
LEMMA FlagsNext == FInv /\ ~m_capture /\ Flags!Next => FInv'
<1> SUFFICES ASSUME FInv, ~m_capture, Flags!Next PROVE FInv'
  OBVIOUS
<1>1. CASE Flags!InitFlags
  BY <1>1, InitFlagsKeeps
<1>2. CASE Flags!NewMap
  <2>1. PeopleOK' /\ gamemode' \in Modes /\ gamemode' # "capture"
    BY <1>2 DEF Flags!NewMap, FInv, PeopleOK, FlagsOK, Flags!people, m_capture
  <2> QED BY <1>2, <2>1, NoScore, EmptyFlags DEF Flags!NewMap
<1>3. CASE Flags!TimeUp \/ Flags!Pause
  <2>1. PeopleOK' /\ UNCHANGED <<gamemode, notgotflags, flags, scores, life, team>>
    BY <1>3 DEF Flags!TimeUp, Flags!Pause, FInv, PeopleOK, Flags!people
  <2> QED BY <2>1, PeopleChange
<1>4. CASE Flags!ChangeMap
  <2>1. PeopleOK' /\ gamemode' \in Modes
    BY <1>4, ChangeMapPeople DEF Flags!ChangeMap, FInv, Modes
  <2> QED BY <1>4, <2>1, NoScore, EmptyFlags DEF Flags!ChangeMap
<1>5. ASSUME NEW p \in Players, Flags!PlayerStep(p) PROVE FInv'
  BY <1>5, PlayerKeeps
<1>6. ASSUME NEW i \in DOMAIN flags, Flags!ResetFlag(i) \/ Flags!ShowFlag(i) \/ Flags!HoldScore(i)
      PROVE FInv'
  BY <1>6, UpdateKeeps
<1> QED BY <1>1, <1>2, <1>3, <1>4, <1>5, <1>6 DEF Flags!Next

\* Every step in the mode with bases leaves the players their lives and teams.
LEMMA BasesPeople ==
  ASSUME PeopleOK, Bases!Next, UNCHANGED paused
  PROVE  PeopleOK'
<1>1. Bases!Teams = Flags!Teams /\ Bases!NoTeam = 0
  BY DEF Bases!Teams, Flags!Teams, Bases!NoTeam
<1>2. ASSUME NEW p \in Players, Bases!PlayerStep(p) PROVE PeopleOK'
  <2>1. CASE Bases!TrySpawn(p) \/ Bases!Spawn(p) \/ Bases!HandOver(p) \/ Bases!Die(p) \/ Bases!Leave(p)
    BY <2>1, <1>1 DEF PeopleOK, Bases!TrySpawn, Bases!Spawn, Bases!HandOver, Bases!Die, Bases!Leave,
                     Bases!match
  <2>2. ASSUME NEW t \in Flags!Teams, Bases!Enter(p, t) \/ Bases!SwitchTeam(p, t) \/ Bases!MoveBot(p, t)
        PROVE PeopleOK'
    BY <2>2 DEF PeopleOK, Bases!Enter, Bases!SwitchTeam, Bases!MoveBot, Bases!match
  <2>3. ASSUME NEW n, NEW c, Bases!Move(p, n, c) PROVE PeopleOK'
    BY <2>3 DEF PeopleOK, Bases!Move, Bases!match
  <2> QED BY <1>1, <1>2, <2>1, <2>2, <2>3 DEF Bases!PlayerStep
<1>3. CASE Bases!ParseBases
  BY <1>3 DEF PeopleOK, Bases!ParseBases, Bases!people
<1>4. CASE Bases!NewMap \/ Bases!TimeUp
  BY <1>4 DEF PeopleOK, Bases!NewMap, Bases!TimeUp, Bases!people
<1>5. CASE Bases!Update
  BY <1>5 DEF PeopleOK, Bases!Update, Bases!Won, Bases!people
<1>6. CASE Bases!ChangeMap
  BY <1>6, <1>1 DEF PeopleOK, Bases!ChangeMap, Flags!Teams
<1> QED BY <1>2, <1>3, <1>4, <1>5, <1>6 DEF Bases!Next

\* Every step preserves the invariant.
LEMMA NextFInv == FInv /\ [Next]_vars => FInv'
<1> SUFFICES ASSUME FInv, [Next]_vars PROVE FInv'
  OBVIOUS
<1>1. CASE PlayFlags
  BY <1>1, FlagsNext DEF PlayFlags
<1>2. CASE PlayBases
  <2>1. PeopleOK'
    BY <1>2, BasesPeople DEF PlayBases, FInv
  <2> QED BY <1>2, <2>1, EmptyFlags DEF PlayBases, flagVars, FInv, FlagsOK
<1>3. CASE ToBases
  <2>1. PeopleOK'
    BY <1>3 DEF ToBases, Bases!ChangeMap, FInv, PeopleOK, Bases!Teams, Flags!Teams, Bases!NoTeam
  <2> QED BY <1>3, <2>1, NoScore, EmptyFlags DEF ToBases, Modes
<1>4. CASE ToFlags
  <2>1. PeopleOK' /\ gamemode' \in Modes
    BY <1>4, ChangeMapPeople DEF ToFlags, Flags!ChangeMap, FInv, Modes
  <2> QED BY <1>4, <2>1, NoScore, EmptyFlags DEF ToFlags, Flags!ChangeMap
<1>5. CASE UNCHANGED vars
  BY <1>5 DEF vars, flagVars, FInv, PeopleOK, FlagsOK, Held, Suits, OneEach, BarredStillLives,
              Flags!BarredStillLives, m_capture
<1> QED BY <1>1, <1>2, <1>3, <1>4, <1>5 DEF Next

LEMMA FInvHolds == Spec => []FInv
BY FlagsInit, NextFInv, PTL DEF Spec

-----------------------------------------------------------------------------
(* The theorems about flags.                                               *)

\* Whoever carries a flag is alive and on the side that may carry it.
THEOREM CarrierAlwaysFits == Spec => []CarrierFits
<1>1. FInv => CarrierFits
  BY SuitsIs DEF FInv, Held, CarrierFits, Flags!CarrierFits
<1> QED BY <1>1, FInvHolds, PTL

\* Whoever is barred from a flag has lived on since he dropped it.
THEOREM BarEndsWithLife == Spec => []BarredStillLives
<1>1. FInv => BarredStillLives
  BY DEF FInv
<1> QED BY <1>1, FInvHolds, PTL

\* No player ever has two flags.
THEOREM OneFlagEach == Spec => []OneEach
<1>1. FInv => OneEach
  BY DEF FInv
<1> QED BY <1>1, FInvHolds, PTL

-----------------------------------------------------------------------------
(* GameModes implements Custody.                                           *)

At == [i \in Flags!FlagIds |-> IF i \in DOMAIN flags THEN Flags!Place(flags[i]) ELSE "absent"]
Number == [i \in Flags!FlagIds |-> IF i \in DOMAIN flags THEN flags[i].version ELSE 0]

LEMMA IdsAre == FlagsOK => DOMAIN flags \subseteq Flags!FlagIds
BY DEF FlagsOK, Flags!FlagIds

\* No flags: Clear, from wherever they were.
LEMMA ClearMaps ==
  ASSUME flags' = <<>>
  PROVE  Flags!Abs!Clear
BY NoFlags DEF Flags!Abs!Clear, Flags!Abs!Absent

\* No flag goes to another place or gets a number.
LEMMA AllStay ==
  ASSUME DOMAIN flags' = DOMAIN flags,
         \A i \in DOMAIN flags : /\ Flags!Place(flags'[i]) = Flags!Place(flags[i])
                                 /\ flags'[i].version = flags[i].version
  PROVE  UNCHANGED Flags!Abs!vars
<1>1. At' = At /\ Number' = Number
  BY DEF At, Number
<1> QED BY <1>1 DEF At, Number, Flags!Abs!vars

\* One flag moves and gets its next number; others may get theirs.
LEMMA OneMoves ==
  ASSUME FlagsOK, DOMAIN flags' = DOMAIN flags, NEW i \in DOMAIN flags,
         flags'[i].version = After(flags[i].version),
         \A j \in DOMAIN flags \ {i} :
           /\ Flags!Place(flags'[j]) = Flags!Place(flags[j])
           /\ flags'[j].version \in {flags[j].version, After(flags[j].version)}
  PROVE  /\ At' = [At EXCEPT ![i] = Flags!Place(flags'[i])]
         /\ Flags!Abs!Touch(i)
<1>0. i \in Flags!FlagIds
  BY IdsAre
<1>1. At' = [At EXCEPT ![i] = Flags!Place(flags'[i])]
  BY <1>0 DEF At
<1>2. /\ Number'[i] = After(Number[i])
      /\ \A j \in Flags!FlagIds : Number'[j] \in {Number[j], After(Number[j])}
  BY <1>0 DEF Number
<1>3. Flags!Abs!Touch(i)
  BY <1>2 DEF Flags!Abs!Touch, Flags!Abs!After, After, Number
<1> QED BY <1>1, <1>3

\* Where a flag is
LEMMA PlaceIs ==
  ASSUME FlagsOK, NEW i \in DOMAIN flags
  PROVE  /\ i \in Flags!FlagIds /\ At[i] = Flags!Place(flags[i])
         /\ flags[i].owner \in Players => At[i] = flags[i].owner
         /\ flags[i].owner = None => At[i] = IF flags[i].dropped THEN "ground" ELSE "base"
         /\ flags[i].owner \in Players \cup {None}
BY IdsAre, PlayersAssumption DEF At, Flags!Place, FlagsOK, Flags!FlagStates

\* What p had lies on the ground or is at home; the rest stays where it is.
Released(f, g, p) ==
  /\ f.owner = p => g.owner = None /\ g.version = After(f.version)
  /\ f.owner # p => g.owner = f.owner /\ g.dropped = f.dropped /\ g.version = f.version

LEMMA ReleaseMaps ==
  ASSUME FInv, NEW p \in Players, DOMAIN flags' = DOMAIN flags,
         \A i \in DOMAIN flags : Released(flags[i], flags'[i], p)
  PROVE  [Flags!Abs!Next]_Flags!Abs!vars
<1>0. FlagsOK /\ OneEach
  BY DEF FInv
<1>1. CASE \A i \in DOMAIN flags : flags[i].owner # p
  BY <1>1, AllStay DEF Released, Flags!Place
<1>2. ASSUME NEW i \in DOMAIN flags, flags[i].owner = p PROVE Flags!Abs!LetGo(i)
  <2>1. \A j \in DOMAIN flags \ {i} : flags[j].owner # p
    BY <1>0, <1>2, PlayersAssumption DEF OneEach
  <2>2. At' = [At EXCEPT ![i] = Flags!Place(flags'[i])] /\ Flags!Abs!Touch(i)
    BY <1>0, <1>2, <2>1, OneMoves DEF Released, Flags!Place
  <2>3. Flags!Place(flags'[i]) \in {"ground", "base"}
    BY <1>2 DEF Released, Flags!Place
  <2>4. At[i] \in Players
    BY <1>0, <1>2, PlaceIs
  <2>5. \/ At' = [At EXCEPT ![i] = "ground"] /\ Flags!Abs!Touch(i)
        \/ At' = [At EXCEPT ![i] = "base"] /\ Flags!Abs!Touch(i)
    BY <2>2, <2>3
  <2> QED BY <2>4, <2>5 DEF Flags!Abs!LetGo, Flags!Abs!Move, Flags!Abs!Ground, Flags!Abs!Base, At
<1> QED BY <1>0, <1>1, <1>2, PlaceIs DEF Flags!Abs!Next

LEMMA LetGoMaps ==
  ASSUME FInv, NEW p \in Players, \E b \in Flags!InBase : flags' = Flags!LetGo(p, b)
  PROVE  [Flags!Abs!Next]_Flags!Abs!vars
<1>1. PICK b \in BOOLEAN : flags' = Flags!LetGo(p, b)
  BY DEF Flags!InBase
<1>2. /\ DOMAIN flags' = DOMAIN flags
      /\ \A i \in DOMAIN flags : Forgotten(flags[i], flags'[i], p)
  BY <1>1, LetGoIs DEF FInv
<1>3. \A i \in DOMAIN flags : Released(flags[i], flags'[i], p)
  BY <1>2 DEF Forgotten, Released
<1> QED BY <1>2, <1>3, ReleaseMaps

LEMMA DropMaps ==
  ASSUME FInv, NEW p \in Players, \E b \in Flags!InBase : flags' = Flags!DropCarried(p, b)
  PROVE  [Flags!Abs!Next]_Flags!Abs!vars
<1>1. PICK b \in BOOLEAN : flags' = Flags!DropCarried(p, b)
  BY DEF Flags!InBase
<1>2. /\ DOMAIN flags' = DOMAIN flags
      /\ \A i \in DOMAIN flags : Dropped(flags[i], flags'[i], p)
  BY <1>1, DropCarriedIs DEF FInv
<1>3. \A i \in DOMAIN flags : Released(flags[i], flags'[i], p)
  BY <1>2 DEF Dropped, Released
<1> QED BY <1>2, <1>3, ReleaseMaps

\* A flag comes home: from a hand, from the ground, or it was there.
LEMMA HomeMaps ==
  ASSUME FInv, NEW i \in DOMAIN flags, NEW hide \in BOOLEAN,
         flags' = [flags EXCEPT ![i] = Flags!Bump(Flags!Home(@, hide))]
  PROVE  Flags!Abs!Next
<1> DEFINE g == Flags!Bump(Flags!Home(flags[i], hide))
<1>0. FlagsOK /\ flags \in [DOMAIN flags -> Flags!FlagStates] /\ flags[i] \in Flags!FlagStates
  BY DEF FInv, FlagsOK
<1>1. g.owner = None /\ g.dropped = FALSE /\ g.version = After(flags[i].version)
  BY <1>0, BumpHomeIs
<1>2. flags' = [flags EXCEPT ![i] = g]
  OBVIOUS
<1> HIDE DEF g
<1>3. /\ DOMAIN flags' = DOMAIN flags /\ flags'[i] = g
      /\ \A j \in DOMAIN flags \ {i} : flags'[j] = flags[j]
  BY <1>0, <1>2
<1>4. Flags!Place(flags'[i]) = "base"
  BY <1>1, <1>3 DEF Flags!Place
<1>5. Flags!Abs!Move(i, "base") /\ Flags!Abs!Touch(i)
  <2>1. At' = [At EXCEPT ![i] = "base"] /\ Flags!Abs!Touch(i)
    BY <1>0, <1>1, <1>3, <1>4, OneMoves
  <2> QED BY <2>1 DEF Flags!Abs!Move, At
<1>6. CASE flags[i].owner \in Players
  <2>1. At[i] \in Players
    BY <1>0, <1>6, PlaceIs
  <2>2. Flags!Abs!LetGo(i)
    BY <1>5, <2>1 DEF Flags!Abs!LetGo, Flags!Abs!Base, At
  <2> QED BY <1>0, <2>2, PlaceIs DEF Flags!Abs!Next
<1>7. CASE flags[i].owner = None /\ flags[i].dropped
  <2>1. At[i] = "ground"
    BY <1>0, <1>7, PlaceIs
  <2>2. Flags!Abs!Return(i)
    BY <1>5, <2>1 DEF Flags!Abs!Return, Flags!Abs!Base, Flags!Abs!Ground, At
  <2> QED BY <1>0, <2>2, PlaceIs DEF Flags!Abs!Next
<1>8. CASE flags[i].owner = None /\ ~flags[i].dropped
  <2>1. At[i] = "base"
    BY <1>0, <1>8, PlaceIs
  <2>2. At' = At
    BY <1>0, <1>3, <1>4, <2>1, PlaceIs DEF At
  <2>3. Flags!Abs!Stay(i)
    BY <1>5, <2>1, <2>2 DEF Flags!Abs!Stay, Flags!Abs!Absent, At
  <2> QED BY <1>0, <2>3, PlaceIs DEF Flags!Abs!Next
<1> QED BY <1>0, <1>6, <1>7, <1>8, PlaceIs

\* A flag is picked up at home or from the ground.
LEMMA PickUpMaps ==
  ASSUME FInv, NEW p \in Players, NEW i \in DOMAIN flags, flags[i].owner = None,
         Flags!PickUp(p, i)
  PROVE  Flags!Abs!Next
<1> DEFINE h == Flags!Own(flags[i], p)
           g == Flags!Bump(h)
<1>0. FlagsOK /\ flags \in [DOMAIN flags -> Flags!FlagStates] /\ flags[i] \in Flags!FlagStates
  BY DEF FInv, FlagsOK
<1>1. h \in Flags!FlagStates /\ h.owner = p /\ h.version = flags[i].version
  BY <1>0, OwnIs
<1>2. flags' = [flags EXCEPT ![i] = g]
  BY DEF Flags!PickUp
<1> HIDE DEF h
<1>3. g.owner = p /\ g.version = After(flags[i].version)
  BY <1>1, BumpIs
<1> HIDE DEF g
<1>4. /\ DOMAIN flags' = DOMAIN flags /\ flags'[i] = g
      /\ \A j \in DOMAIN flags \ {i} : flags'[j] = flags[j]
  BY <1>0, <1>2
<1>5. Flags!Place(flags'[i]) = p
  BY <1>3, <1>4, PlayersAssumption DEF Flags!Place
<1>6. Flags!Abs!Move(i, p)
  <2>1. At' = [At EXCEPT ![i] = p] /\ Flags!Abs!Touch(i)
    BY <1>0, <1>3, <1>4, <1>5, OneMoves
  <2> QED BY <2>1 DEF Flags!Abs!Move, At
<1>7. At[i] \in {"base", "ground"}
  BY <1>0, PlaceIs
<1>8. \A j \in Flags!FlagIds : At[j] # p
  <2>1. \A j \in DOMAIN flags : flags[j].owner # p
    BY DEF Flags!PickUp, Flags!Carried
  <2> QED BY <2>1, PlaceAssumption DEF At, Flags!Place
<1>9. Flags!Abs!Take(i, p)
  BY <1>6, <1>7, <1>8 DEF Flags!Abs!Take, Flags!Abs!Base, Flags!Abs!Ground, At
<1> QED BY <1>0, <1>9, PlaceIs DEF Flags!Abs!Next

\* Scoring: the flag in hand goes home, and one's own gets its next number.
LEMMA CaptureMaps ==
  ASSUME FInv, NEW p \in Players, NEW i \in DOMAIN flags, flags[i].owner = None,
         Flags!Capture(p, i)
  PROVE  Flags!Abs!Next
<1>1. PICK j \in Flags!Carried(p) :
        flags' = [flags EXCEPT ![i] = Flags!Bump(@), ![j] = Flags!Bump(Flags!Home(@, FALSE))]
  BY DEF Flags!Capture
<1> DEFINE g == Flags!Bump(flags[i])
           h == Flags!Bump(Flags!Home(flags[j], FALSE))
<1>2. /\ FlagsOK /\ flags \in [DOMAIN flags -> Flags!FlagStates]
      /\ j \in DOMAIN flags /\ i # j /\ flags[j].owner = p
      /\ flags[i] \in Flags!FlagStates /\ flags[j] \in Flags!FlagStates
  BY <1>1, PlayersAssumption DEF FInv, FlagsOK, Flags!Carried
<1>3. flags' = [flags EXCEPT ![i] = g, ![j] = h]
  BY <1>1, <1>2
<1>4. g.owner = flags[i].owner /\ g.dropped = flags[i].dropped /\ g.version = After(flags[i].version)
  BY <1>2, BumpIs
<1>5. h.owner = None /\ h.dropped = FALSE /\ h.version = After(flags[j].version)
  <2>1. \A hide \in BOOLEAN : \A k : k = Flags!Bump(Flags!Home(flags[j], hide)) =>
           k.owner = None /\ k.dropped = FALSE /\ k.version = After(flags[j].version)
    BY <1>2, BumpHomeIs
  <2> QED BY <2>1
<1> HIDE DEF g, h
<1>6. /\ DOMAIN flags' = DOMAIN flags /\ flags'[i] = g /\ flags'[j] = h
      /\ \A k \in DOMAIN flags \ {i, j} : flags'[k] = flags[k]
  BY <1>2, <1>3
<1>7. \A k \in DOMAIN flags \ {j} :
        /\ Flags!Place(flags'[k]) = Flags!Place(flags[k])
        /\ flags'[k].version \in {flags[k].version, After(flags[k].version)}
  BY <1>4, <1>6 DEF Flags!Place
<1>8. Flags!Place(flags'[j]) = "base"
  BY <1>5, <1>6 DEF Flags!Place
<1>9. Flags!Abs!Move(j, "base")
  <2>1. flags'[j].version = After(flags[j].version)
    BY <1>5, <1>6
  <2>2. At' = [At EXCEPT ![j] = Flags!Place(flags'[j])] /\ Flags!Abs!Touch(j)
    BY <1>2, <1>6, <1>7, <2>1, OneMoves
  <2>3. At' = [At EXCEPT ![j] = "base"] /\ Flags!Abs!Touch(j)
    BY <1>8, <2>2
  <2> QED BY <2>3 DEF Flags!Abs!Move, At
<1>10. At[j] \in Players
  BY <1>2, PlaceIs
<1>11. Flags!Abs!LetGo(j)
  BY <1>9, <1>10 DEF Flags!Abs!LetGo, Flags!Abs!Base, At
<1> QED BY <1>2, <1>11, PlaceIs DEF Flags!Abs!Next

\* The flags of a map are laid out.
LEMMA InitFlagsMaps ==
  ASSUME FInv, Flags!InitFlags
  PROVE  Flags!Abs!Next
<1>1. PICK L :
        flags' = [i \in DOMAIN L |->
          [team |-> L[i], owner |-> None, dropper |-> None, dropped |-> FALSE,
           invis |-> Flags!m_protect, version |-> IF Flags!m_hold THEN 1 ELSE 0]]
  BY DEF Flags!InitFlags
<1>2. \A i \in DOMAIN flags' : Flags!Place(flags'[i]) = "base" /\ flags'[i].version \in 0 .. Versions - 1
  BY <1>1, FlagAssumption DEF Flags!Place
<1>3. At' \in [Flags!FlagIds -> {"absent", "base"}] /\ Number' \in [Flags!FlagIds -> 0 .. Versions - 1]
  BY <1>2, FlagAssumption DEF At, Number
<1>4. \A i \in Flags!FlagIds : At[i] = "absent"
  BY NoFlags DEF Flags!InitFlags, FInv, FlagsOK, At
<1> QED BY <1>3, <1>4 DEF Flags!Abs!Next, Flags!Abs!Lay, Flags!Abs!Absent, Flags!Abs!Base, At, Number

LEMMA TakeFlagMaps ==
  ASSUME FInv, NEW p \in Players, NEW i \in DOMAIN flags, NEW v, Flags!TakeFlag(p, i, v)
  PROVE  Flags!Abs!Next
<1>0. flags[i].owner = None
  BY DEF Flags!TakeFlag, Flags!MayTake
<1>1. CASE Flags!ProtectScore(p, i) \/ Flags!ReturnOwn(p, i)
  <2>1. \E hide \in BOOLEAN : flags' = [flags EXCEPT ![i] = Flags!Bump(Flags!Home(@, hide))]
    BY <1>1 DEF Flags!ProtectScore, Flags!ReturnOwn
  <2> QED BY <2>1, HomeMaps
<1> QED BY <1>0, <1>1, PickUpMaps, CaptureMaps DEF Flags!TakeFlag

\* Every step in a mode with flags
LEMMA FlagsNextMaps == FInv /\ Flags!Next => [Flags!Abs!Next]_Flags!Abs!vars
<1> DEFINE Goal == [Flags!Abs!Next]_Flags!Abs!vars
<1> SUFFICES ASSUME FInv, Flags!Next PROVE Goal
  OBVIOUS
<1>1. ASSUME flags' = flags PROVE Goal
  BY <1>1, AllStay
<1>2. ASSUME NEW p \in Players, Flags!PlayerStep(p) PROVE Goal
  <2>1. CASE Flags!Spawn(p)
    BY <1>1, <2>1 DEF Flags!Spawn
  <2>2. CASE Flags!Die(p) \/ Flags!Leave(p)
    BY <2>2, LetGoMaps DEF Flags!Die, Flags!Leave
  <2>3. CASE Flags!TryDrop(p)
    BY <2>3, DropMaps DEF Flags!TryDrop
  <2>4. ASSUME NEW t \in Flags!Teams, Flags!Enter(p, t) PROVE Goal
    BY <1>1, <2>4 DEF Flags!Enter
  <2>5. ASSUME NEW t \in Flags!Teams, Flags!SwitchTeam(p, t) PROVE Goal
    BY <1>1, <2>5, LetGoMaps DEF Flags!SwitchTeam
  <2>6. ASSUME NEW t \in Flags!Teams, Flags!MoveBot(p, t) PROVE Goal
    BY <1>1, <2>6, DropMaps DEF Flags!MoveBot
  <2>7. ASSUME NEW i \in DOMAIN flags, NEW v \in 0 .. Versions - 1, Flags!TakeFlag(p, i, v) PROVE Goal
    BY <2>7, TakeFlagMaps
  <2> HIDE DEF Goal
  <2> QED BY <1>2, <2>1, <2>2, <2>3, <2>4, <2>5, <2>6, <2>7 DEF Flags!PlayerStep
<1>3. ASSUME NEW i \in DOMAIN flags, Flags!ResetFlag(i) \/ Flags!HoldScore(i) PROVE Goal
  <2>1. \E hide \in BOOLEAN : flags' = [flags EXCEPT ![i] = Flags!Bump(Flags!Home(@, hide))]
    BY <1>3 DEF Flags!ResetFlag, Flags!HoldScore, Flags!m_protect
  <2> QED BY <2>1, HomeMaps
<1>4. ASSUME NEW i \in DOMAIN flags, Flags!ShowFlag(i) PROVE Goal
  <2> DEFINE g == [flags[i] EXCEPT !.invis = FALSE]
  <2>0. flags \in [DOMAIN flags -> Flags!FlagStates] /\ flags[i] \in Flags!FlagStates
    BY DEF FInv, FlagsOK
  <2>1. flags' = [flags EXCEPT ![i] = g]
    BY <1>4 DEF Flags!ShowFlag
  <2>2. /\ g.owner = flags[i].owner /\ g.dropped = flags[i].dropped
        /\ g.version = flags[i].version
    BY <2>0 DEF Flags!FlagStates
  <2> HIDE DEF g
  <2>3. DOMAIN flags' = DOMAIN flags /\ \A j \in DOMAIN flags : flags'[j] = IF j = i THEN g ELSE flags[j]
    BY <2>0, <2>1
  <2> QED BY <2>2, <2>3, AllStay DEF Flags!Place
<1>5. CASE Flags!InitFlags
  BY <1>5, InitFlagsMaps
<1>6. CASE Flags!NewMap \/ Flags!ChangeMap
  BY <1>6, ClearMaps DEF Flags!NewMap, Flags!ChangeMap, Flags!Abs!Next
<1>7. CASE Flags!TimeUp \/ Flags!Pause
  BY <1>1, <1>7 DEF Flags!TimeUp, Flags!Pause
<1> HIDE DEF Goal
<1> QED BY <1>2, <1>3, <1>4, <1>5, <1>6, <1>7 DEF Flags!Next

\* The flags are always in custody: on their base, on the ground or in one
\* hand, and what moves is numbered.
THEOREM FlagsInCustody == Spec => ImplementsCustody
<1>1. Init => Flags!Abs!Init
  BY NoFlags DEF Init, Flags!Init, Flags!Abs!Init, Flags!Abs!Absent
<1>2. FInv /\ [Next]_vars => [Flags!Abs!Next]_Flags!Abs!vars
  <2> SUFFICES ASSUME FInv, [Next]_vars PROVE [Flags!Abs!Next]_Flags!Abs!vars
    OBVIOUS
  <2>1. CASE PlayFlags
    BY <2>1, FlagsNextMaps DEF PlayFlags
  <2>2. CASE PlayBases \/ UNCHANGED vars
    BY <2>2, AllStay DEF PlayBases, vars, flagVars
  <2>3. CASE ToBases \/ ToFlags
    BY <2>3, ClearMaps DEF ToBases, ToFlags, Flags!ChangeMap, Flags!Abs!Next
  <2> QED BY <2>1, <2>2, <2>3 DEF Next
<1> QED BY <1>1, <1>2, FInvHolds, PTL DEF Spec, ImplementsCustody, Flags!ImplementsCustody, Flags!Abs!Spec

-----------------------------------------------------------------------------
(* The bases count who stands at them.                                     *)

Count(n, t) == Cardinality(Bases!Standing(n, t))

\* A bot that is awaited has been handed over since it last spawned.
HandedOK ==
  /\ awaited \subseteq {p \in Bots : life[p] = "alive"}
  /\ handovers \in 0 .. MaxHandOvers
  /\ Cardinality(awaited) <= handovers

\* Who plays has a team; the bases are those of a map, and a mode without
\* bases has none; nobody reports clip material.
BasesOK ==
  /\ \A p \in Players : life[p] = "out" <=> team[p] = 0
  /\ at \in [Players -> {0} \cup Bases!MapBases]
  /\ gameclip = [p \in Players |-> FALSE]
  /\ DOMAIN bases \in BaseLayouts \cup {{}}
  /\ bases \in [DOMAIN bases -> Bases!BaseStates]
  /\ notgotbases \in BOOLEAN
  /\ notgotbases => bases = <<>>
  /\ ~m_capture => NoBases
  /\ HandedOK

\* What a base may count: c are the players there, of every team.
Fits(b, c) ==
  /\ b.owners <= c[b.owner] /\ b.enemies <= c[b.enemy]
  /\ b.enemy # 0 => b.enemy # b.owner
  /\ b.enemy = 0 => b.converted = 0

\* Each bot handed over has left one behind where it stood, and brings one
\* more with its N_SPAWN.
Slack == 2 * handovers - Cardinality(awaited)

Crowds == [0 .. 2 -> Nat]
Crowd(n) == [t \in 0 .. 2 |-> Count(n, t) + Slack]

Counted == ~over => \A n \in DOMAIN bases : Fits(bases[n], Crowd(n))

\* The inductive invariant.
BInv == FInv /\ BasesOK /\ Counted

\* The number of elements is the same in both modules.
LEMMA SameCount == \A S : Bases!Cardinality(S) = Cardinality(S)
BY DEF Bases!Cardinality, Cardinality

LEMMA PlayersCount == Cardinality(Players) \in Nat
BY FS_CardinalityType, PlayersAssumption


\* A base, and what is asked of it to fit, by its fields
Base(o, e, owners, enemies, converted) ==
  [owner |-> o, enemy |-> e, owners |-> owners, enemies |-> enemies, converted |-> converted]

LEMMA BaseIs ==
  ASSUME NEW b \in Bases!BaseStates
  PROVE  /\ b = Base(b.owner, b.enemy, b.owners, b.enemies, b.converted)
         /\ b.owner \in 0 .. 2 /\ b.enemy \in 0 .. 2
         /\ b.owners \in Nat /\ b.enemies \in Nat
         /\ b.converted \in 0 .. EnemyLimit
BY DEF Bases!BaseStates, Bases!Teams, Bases!NoTeam, Base

\* Changes of several fields
WithEnemy(b, e, m, v) == [b EXCEPT !.enemy = e, !.enemies = m, !.converted = v]
WithOwner(b, o, v) == [b EXCEPT !.owner = o, !.converted = v]
WithOwners(b, o, n) == [b EXCEPT !.owner = o, !.owners = n]

LEMMA FieldsAre ==
  ASSUME NEW o, NEW e, NEW n, NEW m, NEW v, NEW x, NEW y, NEW z, NEW b, b = Base(o, e, n, m, v)
  PROVE  /\ WithEnemy(b, x, y, z) = Base(o, x, n, y, z)
         /\ WithOwner(b, x, z) = Base(x, e, n, m, z)
         /\ WithOwners(b, x, y) = Base(x, e, y, m, v)
<1> DEFINE b1 == [b EXCEPT !.enemy = x]
           b2 == [b1 EXCEPT !.enemies = y]
           b3 == [b2 EXCEPT !.converted = z]
           c1 == [b EXCEPT !.owner = x]
           c2 == [c1 EXCEPT !.converted = z]
           d2 == [c1 EXCEPT !.owners = y]
<1>1. b1 = Base(o, x, n, m, v) /\ c1 = Base(x, e, n, m, v)
  BY DEF Base
<1> HIDE DEF b1, c1
<1>2. b2 = Base(o, x, n, y, v) /\ c2 = Base(x, e, n, m, z) /\ d2 = Base(x, e, y, m, v)
  BY <1>1 DEF Base
<1> HIDE DEF b2, c2, d2
<1>3. b3 = Base(o, x, n, y, z)
  BY <1>2 DEF Base
<1> QED BY <1>2, <1>3 DEF b1, b2, b3, c1, c2, d2, WithEnemy, WithOwner, WithOwners

LEMMA NoEnemyIs ==
  ASSUME NEW o, NEW e, NEW n, NEW m, NEW v, NEW b, b = Base(o, e, n, m, v)
  PROVE  Bases!NoEnemy(b) = Base(o, 0, n, 0, 0)
<1>1. WithEnemy(b, 0, 0, 0) = Base(o, 0, n, 0, 0)
  BY FieldsAre
<1> QED BY <1>1 DEF WithEnemy, Bases!NoEnemy, Bases!NoTeam

LEMMA FirstEnemyIs ==
  ASSUME NEW b \in Bases!BaseStates, NEW t, b.owner # t, b.enemies = 0
  PROVE  Bases!EnterBase(b, t) =
           Base(b.owner, t, b.owners, 1, IF b.enemy = t THEN b.converted ELSE 0)
<1> DEFINE v == IF b.enemy = t THEN b.converted ELSE 0
<1>1. Bases!EnterBase(b, t) = WithEnemy(b, t, 1, v)
  BY DEF Bases!EnterBase, WithEnemy
<1>2. b = Base(b.owner, b.enemy, b.owners, b.enemies, b.converted)
  BY BaseIs
<1> HIDE DEF v
<1>3. WithEnemy(b, t, 1, v) = Base(b.owner, t, b.owners, 1, v)
  BY <1>2, FieldsAre
<1> QED BY <1>1, <1>3 DEF v

LEMMA BaseFits ==
  ASSUME NEW c \in Crowds, NEW o \in 0 .. 2, NEW e \in 0 .. 2,
         NEW owners \in 0 .. c[o], NEW enemies \in 0 .. c[e], NEW converted \in 0 .. EnemyLimit,
         e # 0 => e # o, e = 0 => converted = 0
  PROVE  /\ Base(o, e, owners, enemies, converted) \in Bases!BaseStates
         /\ Fits(Base(o, e, owners, enemies, converted), c)
<1>1. owners \in Nat /\ enemies \in Nat
  BY DEF Crowds
<1> QED BY <1>1 DEF Bases!BaseStates, Bases!Teams, Bases!NoTeam, Base, Fits

LEMMA MoreFits ==
  ASSUME NEW b \in Bases!BaseStates, NEW c \in Crowds, NEW d \in Crowds,
         Fits(b, c), \A u \in 0 .. 2 : d[u] >= c[u]
  PROVE  Fits(b, d)
<1>1. /\ d[b.owner] >= c[b.owner] /\ d[b.enemy] >= c[b.enemy]
      /\ {d[b.owner], c[b.owner], d[b.enemy], c[b.enemy], b.owners, b.enemies} \subseteq Nat
  BY BaseIs DEF Crowds
<1>2. b.owners <= c[b.owner] /\ b.enemies <= c[b.enemy]
  BY DEF Fits
<1>3. b.owners <= d[b.owner] /\ b.enemies <= d[b.enemy]
  BY <1>1, <1>2
<1> QED BY <1>3 DEF Fits

\* One of team t comes.
LEMMA EnterFits ==
  ASSUME NEW b \in Bases!BaseStates, NEW t \in {1, 2}, NEW c \in Crowds, NEW d \in Crowds,
         Fits(b, c), d[t] >= c[t] + 1, \A u \in (0 .. 2) \ {t} : d[u] >= c[u]
  PROVE  Bases!EnterBase(b, t) \in Bases!BaseStates /\ Fits(Bases!EnterBase(b, t), d)
<1>0. /\ b.owner \in 0 .. 2 /\ b.enemy \in 0 .. 2 /\ b.owners \in Nat /\ b.enemies \in Nat
      /\ b.converted \in 0 .. EnemyLimit /\ EnemyLimit \in Nat
  BY BaseIs, PlayersCount, BaseAssumption
<1>1. /\ b.owners <= d[b.owner] /\ b.enemies <= d[b.enemy] /\ d[t] >= c[t] + 1
      /\ \A u \in 0 .. 2 : d[u] \in Nat /\ c[u] \in Nat
      /\ b.owner = t => b.owners + 1 <= d[t]
      /\ b.enemy = t => b.enemies + 1 <= d[t]
      /\ (b.enemy # 0 => b.enemy # b.owner) /\ (b.enemy = 0 => b.converted = 0)
  BY BaseIs, PlayersCount DEF Fits, Crowds
<1>2. CASE b.owner = t
  <2>1. Bases!EnterBase(b, t) = Base(b.owner, b.enemy, b.owners + 1, b.enemies, b.converted)
    BY <1>2, BaseIs DEF Bases!EnterBase, Base
  <2>2. b.owners + 1 \in 0 .. d[b.owner] /\ b.enemies \in 0 .. d[b.enemy]
    BY <1>1, <1>2, BaseIs, PlayersCount
  <2> QED BY <1>1, <2>1, <2>2, <1>0, BaseFits
<1>3. CASE b.owner # t /\ b.enemies = 0
  <2> DEFINE v == IF b.enemy = t THEN b.converted ELSE 0
  <2>1. Bases!EnterBase(b, t) = Base(b.owner, t, b.owners, 1, v)
    BY <1>3, FirstEnemyIs
  <2>2. b.owners \in 0 .. d[b.owner] /\ 1 \in 0 .. d[t] /\ v \in 0 .. EnemyLimit
    BY <1>1, BaseIs, PlayersCount, BaseAssumption
  <2> HIDE DEF v
  <2> QED BY <1>3, <2>1, <2>2, <1>0, BaseFits
<1>4. CASE b.owner # t /\ b.enemies # 0 /\ b.enemy = t
  <2>1. Bases!EnterBase(b, t) = Base(b.owner, b.enemy, b.owners, b.enemies + 1, b.converted)
    BY <1>4, BaseIs DEF Bases!EnterBase, Base
  <2>2. b.owners \in 0 .. d[b.owner] /\ b.enemies + 1 \in 0 .. d[b.enemy]
    BY <1>1, <1>4, BaseIs, PlayersCount
  <2> QED BY <1>1, <1>4, <2>1, <2>2, <1>0, BaseFits
<1>5. CASE b.owner # t /\ b.enemies # 0 /\ b.enemy # t
  BY <1>1, <1>5 DEF Bases!EnterBase, Fits
<1> QED BY <1>2, <1>3, <1>4, <1>5

\* One of team t goes.
LEMMA LeaveFits ==
  ASSUME NEW b \in Bases!BaseStates, NEW t \in {1, 2}, NEW c \in Crowds, NEW d \in Crowds,
         Fits(b, c), d[t] >= c[t] - 1, \A u \in (0 .. 2) \ {t} : d[u] >= c[u]
  PROVE  Bases!LeaveBase(b, t) \in Bases!BaseStates /\ Fits(Bases!LeaveBase(b, t), d)
<1>0. /\ b.owner \in 0 .. 2 /\ b.enemy \in 0 .. 2 /\ b.owners \in Nat /\ b.enemies \in Nat
      /\ b.converted \in 0 .. EnemyLimit
  BY BaseIs, PlayersCount, BaseAssumption
<1>1. /\ \A u \in 0 .. 2 : d[u] \in Nat /\ c[u] \in Nat /\ (u # t => d[u] >= c[u])
      /\ b.owner = t => b.owners - 1 <= d[t]
      /\ b.enemy = t => b.enemies - 1 <= d[t]
      /\ (b.enemy # 0 => b.enemy # b.owner) /\ (b.enemy = 0 => b.converted = 0)
  BY BaseIs, PlayersCount DEF Fits, Crowds
<1>2. CASE b.owner = t /\ b.owners > 0
  <2>1. Bases!LeaveBase(b, t) = Base(b.owner, b.enemy, b.owners - 1, b.enemies, b.converted)
    BY <1>2, BaseIs DEF Bases!LeaveBase, Base
  <2>2. b.owners - 1 \in 0 .. d[b.owner] /\ b.enemies \in 0 .. d[b.enemy]
    BY <1>1, <1>2, BaseIs, PlayersCount DEF Fits
  <2> QED BY <1>1, <2>1, <2>2, <1>0, BaseFits
<1>3. CASE b.owner # t /\ b.enemy = t /\ b.enemies > 0
  <2>1. Bases!LeaveBase(b, t) = Base(b.owner, b.enemy, b.owners, b.enemies - 1, b.converted)
    BY <1>3, BaseIs DEF Bases!LeaveBase, Base
  <2>2. b.owners \in 0 .. d[b.owner] /\ b.enemies - 1 \in 0 .. d[b.enemy]
    BY <1>1, <1>3, BaseIs, PlayersCount DEF Fits
  <2> QED BY <1>1, <2>1, <2>2, <1>0, BaseFits
<1>4. CASE ~(b.owner = t /\ b.owners > 0) /\ ~(b.enemy = t /\ b.enemies > 0)
  <2>1. b.owners <= d[b.owner] /\ b.enemies <= d[b.enemy]
    BY <1>1, <1>4, BaseIs, PlayersCount DEF Fits
  <2> QED BY <1>4, <2>1 DEF Bases!LeaveBase, Fits
<1> QED BY <1>2, <1>3, <1>4 DEF Fits

\* A base without enemies is found stolen.
LEMMA StealFits ==
  ASSUME NEW b \in Bases!BaseStates, NEW t \in {1, 2}, NEW c \in Crowds, Fits(b, c),
         Bases!Steal(b, t), NEW m \in 0 .. c[t],
         NEW g, g = [Bases!EnterBase(b, t) EXCEPT !.enemies = m]
  PROVE  g \in Bases!BaseStates /\ Fits(g, c)
<1> DEFINE v == IF b.enemy = t THEN b.converted ELSE 0
<1>0. /\ b.owner \in 0 .. 2 /\ b.enemy \in 0 .. 2 /\ b.owners \in Nat /\ b.enemies \in Nat
      /\ b.converted \in 0 .. EnemyLimit
  BY BaseIs, PlayersCount, BaseAssumption
<1>1. b.owner # t /\ b.enemies = 0
  BY DEF Bases!Steal
<1>2. Bases!EnterBase(b, t) = Base(b.owner, t, b.owners, 1, v)
  BY <1>1, FirstEnemyIs
<1>3. g = Base(b.owner, t, b.owners, m, v)
  BY <1>2 DEF Base
<1>4. b.owners \in 0 .. c[b.owner] /\ v \in 0 .. EnemyLimit
  BY BaseIs, PlayersCount, BaseAssumption DEF Fits, Crowds
<1> HIDE DEF v
<1> QED BY <1>1, <1>3, <1>4, <1>0, BaseFits

\* A second goes by: the enemy loses ground, gains some, drives the owner, who
\* is not there, out or has the base.
LEMMA SecondFits ==
  ASSUME NEW b \in Bases!BaseStates, NEW c \in Crowds, Fits(b, c)
  PROVE  Bases!Second(b) \in Bases!BaseStates /\ Fits(Bases!Second(b), c)
<1> DEFINE units == IF b.enemies > 0 THEN 1 + b.enemies ELSE -1 - (1 + b.owners)
           v == b.converted + units
           Goal(g) == g \in Bases!BaseStates /\ Fits(g, c)
<1>0. /\ b.owner \in 0 .. 2 /\ b.enemy \in 0 .. 2
      /\ b.owners \in 0 .. c[b.owner] /\ b.enemies \in 0 .. c[b.enemy]
      /\ \A u \in 0 .. 2 : c[u] \in Nat
      /\ b.converted \in 0 .. EnemyLimit
      /\ (b.enemy # 0 => b.enemy # b.owner) /\ (b.enemy = 0 => b.converted = 0)
  BY BaseIs, PlayersCount DEF Fits, Crowds
<1>1. units \in Int /\ v \in Int /\ (units < 0 => v < b.converted /\ b.enemies = 0)
      /\ (units >= 0 => b.enemies > 0)
  BY BaseIs, PlayersCount
<1>2. CASE b.enemy = 0 \/ Bases!Contested(b)
  BY <1>2 DEF Bases!Second, Bases!NoTeam
<1>3. CASE b.enemy # 0 /\ ~Bases!Contested(b)
  <2>1. Bases!Second(b) = Bases!Occupy(b, units)
    BY <1>3 DEF Bases!Second, Bases!NoTeam
  <2> HIDE DEF units
  <2>2. CASE units < 0 /\ v <= 0
    <3>1. Bases!Second(b) = Base(b.owner, 0, b.owners, 0, 0)
      BY <2>1, <2>2, BaseIs, NoEnemyIs DEF Bases!Occupy
    <3>2. 0 \in 0 .. c[0] /\ 0 \in 0 .. 2 /\ 0 \in 0 .. EnemyLimit
      BY <1>0, BaseAssumption
    <3> QED BY <1>0, <3>1, <3>2, BaseFits
  <2>3. CASE (units < 0 /\ v > 0) \/
             (units >= 0 /\ v < (IF b.owner # 0 THEN EnemyLimit ELSE NeutralLimit))
    <3>1. Bases!Second(b) = Base(b.owner, b.enemy, b.owners, b.enemies, v)
      BY <1>1, <2>1, <2>3, BaseIs DEF Bases!Occupy, Bases!NoTeam, Base
    <3>2. v \in 0 .. EnemyLimit
      BY <1>0, <1>1, <2>3, BaseAssumption
    <3> HIDE DEF v
    <3> QED BY <1>0, <1>3, <3>1, <3>2, BaseFits
  <2>4. CASE units >= 0 /\ b.owner # 0 /\ ~(v < EnemyLimit)
    <3>1. Bases!Second(b) = Base(0, b.enemy, b.owners, b.enemies, 0)
      <4>1. Bases!Second(b) = WithOwner(b, 0, 0)
        BY <1>1, <2>1, <2>4 DEF Bases!Occupy, Bases!NoTeam, WithOwner
      <4>2. b = Base(b.owner, b.enemy, b.owners, b.enemies, b.converted)
        BY BaseIs
      <4>3. WithOwner(b, 0, 0) = Base(0, b.enemy, b.owners, b.enemies, 0)
        BY <4>2, FieldsAre
      <4> QED BY <4>1, <4>3
    <3>2. b.owners = 0
      BY <1>1, <1>3, <2>4, <1>0, BaseIs DEF Bases!Contested
    <3>3. b.owners \in 0 .. c[0] /\ 0 \in 0 .. 2 /\ 0 \in 0 .. EnemyLimit
      BY <1>0, <3>2, BaseAssumption
    <3> QED BY <1>0, <1>3, <3>1, <3>3, BaseFits
  <2>5. CASE units >= 0 /\ b.owner = 0 /\ ~(v < NeutralLimit)
    <3> DEFINE g == WithOwners(b, b.enemy, b.enemies)
    <3>0. Bases!Second(b) = Bases!NoEnemy(g)
      BY <1>1, <2>1, <2>5 DEF Bases!Occupy, Bases!NoTeam, WithOwners
    <3>1. Bases!Second(b) = Base(b.enemy, 0, b.enemies, 0, 0)
      <4>1. g = Base(b.enemy, b.enemy, b.enemies, b.enemies, b.converted)
        <5>1. b = Base(b.owner, b.enemy, b.owners, b.enemies, b.converted)
          BY BaseIs
        <5> QED BY <5>1, FieldsAre
      <4> HIDE DEF g
      <4> QED BY <3>0, <4>1, NoEnemyIs
    <3>2. 0 \in 0 .. c[0] /\ 0 \in 0 .. 2 /\ 0 \in 0 .. EnemyLimit
      BY <1>0, BaseAssumption
    <3> QED BY <1>0, <3>1, <3>2, BaseFits
  <2> QED BY <1>1, <2>2, <2>3, <2>4, <2>5, BaseAssumption
<1> QED BY <1>2, <1>3

\* How many stand somewhere, before and after a step that concerns p only
LEMMA Cardinalities ==
  ASSUME NEW S \in SUBSET Players
  PROVE  IsFiniteSet(S) /\ Cardinality(S) \in 0 .. Cardinality(Players)
BY FS_Subset, FS_CardinalityType, PlayersAssumption

LEMMA OneMore ==
  ASSUME NEW S \in SUBSET Players, NEW T \in SUBSET Players, NEW p, S \ {p} = T \ {p}
  PROVE  Cardinality(T) = Cardinality(S)
           + (IF p \in S THEN IF p \in T THEN 0 ELSE -1 ELSE IF p \in T THEN 1 ELSE 0)
<1>1. CASE p \in S <=> p \in T
  <2>1. S = T
    BY <1>1
  <2> QED BY <1>1, <2>1, Cardinalities
<1>2. CASE p \in S /\ p \notin T
  <2>1. T = S \ {p}
    BY <1>2
  <2> QED BY <1>2, <2>1, Cardinalities, FS_RemoveElement
<1>3. CASE p \notin S /\ p \in T
  <2>1. T = S \cup {p}
    BY <1>3
  <2> QED BY <1>3, <2>1, Cardinalities, FS_AddElement
<1> QED BY <1>1, <1>2, <1>3

LEMMA StandingIs ==
  ASSUME NEW n, NEW t, gameclip = [p \in Players |-> FALSE]
  PROVE  Bases!Standing(n, t) = {p \in Players : life[p] = "alive" /\ team[p] = t /\ at[p] = n}
BY DEF Bases!Standing, Bases!Here, Bases!Spot

LEMMA StandingNext ==
  ASSUME NEW n, NEW t, gameclip' = [p \in Players |-> FALSE]
  PROVE  Bases!Standing(n, t)' = {p \in Players : life'[p] = "alive" /\ team'[p] = t /\ at'[p] = n}
BY DEF Bases!Standing, Bases!Here, Bases!Spot

\* The crowd at a base n when p comes from one place and goes to another.
Moves(p, from, to) ==
  /\ \A q \in Players \ {p} : life'[q] = life[q] /\ team'[q] = team[q] /\ at'[q] = at[q]
  /\ gameclip' = gameclip
  /\ Slack' \in Nat /\ Slack' >= Slack
  /\ from = IF life[p] = "alive" THEN at[p] ELSE 0
  /\ to = IF life'[p] = "alive" THEN at'[p] ELSE 0

LEMMA SlackIs ==
  ASSUME HandedOK
  PROVE  Slack \in Nat /\ Cardinality(awaited) \in Nat /\ IsFiniteSet(awaited)
<1>1. awaited \in SUBSET Players
  BY PlayersAssumption DEF HandedOK
<1>2. Cardinality(awaited) \in Nat /\ IsFiniteSet(awaited)
  BY <1>1, FS_Subset, FS_CardinalityType, PlayersAssumption
<1> QED BY <1>2, BaseAssumption DEF HandedOK, Slack

\* Nothing happens to those who are awaited;
LEMMA HandedStays ==
  ASSUME HandedOK, UNCHANGED <<awaited, handovers>>,
         \A q \in awaited : life[q] = "alive" => life'[q] = "alive"
  PROVE  HandedOK' /\ Slack' = Slack /\ Slack' \in Nat /\ Slack' >= Slack
<1>1. Slack' = Slack
  BY DEF Slack
<1>2. Slack \in Nat
  BY SlackIs
<1> QED BY <1>1, <1>2 DEF HandedOK

\* one of them spawns, dies or leaves;
LEMMA HandedLess ==
  ASSUME HandedOK, NEW p, awaited' = awaited \ {p}, handovers' = handovers,
         \A q \in Players \ {p} : life'[q] = life[q]
  PROVE  /\ HandedOK' /\ Slack' \in Nat /\ Slack' >= Slack
         /\ p \in awaited => Slack' = Slack + 1
<1>1. /\ Cardinality(awaited) \in Nat /\ IsFiniteSet(awaited) /\ Slack \in Nat
      /\ handovers \in Nat /\ Cardinality(awaited) <= handovers
  BY SlackIs, BaseAssumption DEF HandedOK
<1>2. Cardinality(awaited') = IF p \in awaited THEN Cardinality(awaited) - 1
                                              ELSE Cardinality(awaited)
  BY <1>1, FS_RemoveElement
<1>3. /\ Slack = 2 * handovers - Cardinality(awaited)
      /\ Slack' = 2 * handovers - Cardinality(awaited')
  BY DEF Slack
<1>4. awaited' \subseteq {q \in Bots : life'[q] = "alive"}
  BY PlayersAssumption DEF HandedOK
<1>5. Cardinality(awaited') <= handovers
  BY <1>1, <1>2
<1>6. Slack' \in Nat /\ Slack' >= Slack /\ (p \in awaited => Slack' = Slack + 1)
  BY <1>1, <1>2, <1>3
<1> QED BY <1>4, <1>5, <1>6 DEF HandedOK

\* one more is handed over.
LEMMA HandedMore ==
  ASSUME HandedOK, NEW p \in Bots, life[p] = "alive", life' = life,
         awaited' = awaited \cup {p}, handovers' = handovers + 1, handovers < MaxHandOvers
  PROVE  HandedOK' /\ Slack' \in Nat /\ Slack' >= Slack + 1
<1>1. /\ Cardinality(awaited) \in Nat /\ IsFiniteSet(awaited) /\ Slack \in Nat
      /\ handovers \in Nat /\ MaxHandOvers \in Nat /\ Cardinality(awaited) <= handovers
  BY SlackIs, BaseAssumption DEF HandedOK
<1>2. Cardinality(awaited') = IF p \in awaited THEN Cardinality(awaited)
                                              ELSE Cardinality(awaited) + 1
  BY <1>1, FS_AddElement
<1>3. /\ Slack = 2 * handovers - Cardinality(awaited)
      /\ Slack' = 2 * (handovers + 1) - Cardinality(awaited')
  BY DEF Slack
<1>4. awaited' \subseteq {q \in Bots : life'[q] = "alive"}
  BY DEF HandedOK
<1>5. Cardinality(awaited') <= handovers + 1 /\ handovers + 1 \in 0 .. MaxHandOvers
  BY <1>1, <1>2
<1>6. Slack' \in Nat /\ Slack' >= Slack + 1
  BY <1>1, <1>2, <1>3
<1> QED BY <1>4, <1>5, <1>6 DEF HandedOK

LEMMA NoneHanded ==
  ASSUME awaited' = {}, handovers' = 0
  PROVE  HandedOK'
BY FS_EmptySet, BaseAssumption DEF HandedOK

LEMMA CrowdMoves ==
  ASSUME BasesOK, NEW p \in Players, NEW from, NEW to, Moves(p, from, to),
         NEW n, n # 0, NEW u \in 0 .. 2
  PROVE  /\ Crowd(n) \in Crowds /\ Crowd(n)' \in Crowds
         /\ Crowd(n)'[u] >= Crowd(n)[u] + (Slack' - Slack)
              + (IF n = from /\ team[p] = u THEN IF n = to /\ team'[p] = u THEN 0 ELSE -1
                 ELSE IF n = to /\ team'[p] = u THEN 1 ELSE 0)
<1> DEFINE S(t) == Bases!Standing(n, t)
           T(t) == Bases!Standing(n, t)'
<1>1. \A t : S(t) = {q \in Players : life[q] = "alive" /\ team[q] = t /\ at[q] = n}
  BY StandingIs DEF BasesOK
<1>2. \A t : T(t) = {q \in Players : life'[q] = "alive" /\ team'[q] = t /\ at'[q] = n}
  BY StandingNext DEF BasesOK, Moves
<1>3. /\ Crowd(n) = [t \in 0 .. 2 |-> Cardinality(S(t)) + Slack]
      /\ Crowd(n)' = [t \in 0 .. 2 |-> Cardinality(T(t)) + Slack']
      /\ Slack \in Nat /\ Slack' \in Nat
  BY SlackIs DEF Crowd, Count, Moves, BasesOK
<1> HIDE DEF S, T
<1>4. \A t : Cardinality(S(t)) \in Nat /\ Cardinality(T(t)) \in Nat
  BY <1>1, <1>2, Cardinalities
<1>5. /\ S(u) \in SUBSET Players /\ T(u) \in SUBSET Players /\ S(u) \ {p} = T(u) \ {p}
      /\ p \in S(u) <=> n = from /\ team[p] = u
      /\ p \in T(u) <=> n = to /\ team'[p] = u
  BY <1>1, <1>2 DEF Moves
<1>6. Cardinality(T(u)) = Cardinality(S(u))
        + (IF p \in S(u) THEN IF p \in T(u) THEN 0 ELSE -1 ELSE IF p \in T(u) THEN 1 ELSE 0)
  BY <1>5, OneMore
<1>7. Crowd(n) \in Crowds /\ Crowd(n)' \in Crowds
  BY <1>3, <1>4 DEF Crowds
<1>8. Crowd(n)[u] = Cardinality(S(u)) + Slack /\ Crowd(n)'[u] = Cardinality(T(u)) + Slack'
  BY <1>3
<1> QED BY <1>3, <1>4, <1>5, <1>6, <1>7, <1>8

\* How the crowd at n grows by those of team t when one of them comes, or goes
Comes(t, from, to, n, u) ==
  IF u # t \/ from = to THEN 0 ELSE IF n = from THEN -1 ELSE IF n = to THEN 1 ELSE 0

\* movebases() keeps the counts of a base.
LEMMA BaseMoves ==
  ASSUME BInv, NEW t \in {1, 2}, NEW from, NEW to, ~over, NEW n \in DOMAIN bases,
         NEW d \in Crowds, \A u \in 0 .. 2 : d[u] >= Crowd(n)[u] + Comes(t, from, to, n, u),
         NEW g, g = Bases!MoveBases(t, from, to)[n]
  PROVE  g \in Bases!BaseStates /\ Fits(g, d)
<1> DEFINE b == bases[n]
           c == Crowd(n)
           m == Count(n, t)
<1>1. b \in Bases!BaseStates /\ Fits(b, c)
  BY DEF BInv, BasesOK, Counted
<1>2. c \in Crowds /\ m \in 0 .. c[t]
  <2>1. \A u \in 0 .. 2 : Bases!Standing(n, u) \in SUBSET Players
    BY DEF Bases!Standing
  <2>2. \A u \in 0 .. 2 : Count(n, u) \in Nat
    BY <2>1, Cardinalities DEF Count
  <2>3. Slack \in Nat
    BY SlackIs DEF BInv, BasesOK
  <2> QED BY <2>2, <2>3 DEF Crowd, Crowds
<1>3. g = IF n \notin {from, to} THEN b
          ELSE IF from # to THEN IF n = from THEN Bases!LeaveBase(b, t) ELSE Bases!EnterBase(b, t)
          ELSE IF Bases!Steal(b, t) THEN Bases!StealBase(b, n, t)
          ELSE b
  BY DEF Bases!MoveBases
<1>4. Bases!StealBase(b, n, t) = [Bases!EnterBase(b, t) EXCEPT !.enemies = m]
  <2>1. Bases!Standing(n, t) = {q \in Players : life[q] = "alive" /\ team[q] = t /\ at[q] = n}
    BY StandingIs DEF BInv, BasesOK
  <2> QED BY <2>1, SameCount DEF Bases!StealBase, Count
<1> HIDE DEF b, c, m
<1>0. \A u \in 0 .. 2 : d[u] >= c[u] + Comes(t, from, to, n, u) /\ d[u] \in Nat /\ c[u] \in Nat
  BY <1>2 DEF Crowds, c
<1>5. CASE n \notin {from, to} \/ (n = from /\ n = to)
  <2>1. \A u \in 0 .. 2 : d[u] >= c[u]
    BY <1>0, <1>5 DEF Comes
  <2>2. g = b \/ (Bases!Steal(b, t) /\ g = Bases!StealBase(b, n, t))
    BY <1>3, <1>5
  <2>3. g \in Bases!BaseStates /\ Fits(g, c)
    BY <1>1, <1>2, <1>4, <2>2, StealFits
  <2> QED BY <1>2, <2>1, <2>3, MoreFits
<1>6. CASE n = from /\ n # to
  <2>1. d[t] >= c[t] - 1 /\ \A u \in (0 .. 2) \ {t} : d[u] >= c[u]
    BY <1>0, <1>6 DEF Comes
  <2>2. g = Bases!LeaveBase(b, t)
    BY <1>3, <1>6
  <2> QED BY <1>1, <1>2, <2>1, <2>2, LeaveFits
<1>7. CASE n = to /\ n # from
  <2>1. d[t] >= c[t] + 1 /\ \A u \in (0 .. 2) \ {t} : d[u] >= c[u]
    BY <1>0, <1>7 DEF Comes
  <2>2. g = Bases!EnterBase(b, t)
    BY <1>3, <1>7
  <2> QED BY <1>1, <1>2, <2>1, <2>2, EnterFits
<1> QED BY <1>5, <1>6, <1>7

\* ... and of all of them,
LEMMA AllMove ==
  ASSUME BInv, NEW t \in {1, 2}, NEW from, NEW to,
         \A n \in DOMAIN bases :
           /\ Crowd(n)' \in Crowds
           /\ \A u \in 0 .. 2 : Crowd(n)'[u] >= Crowd(n)[u] + Comes(t, from, to, n, u),
         over' = over, bases' = Bases!MoveBases(t, from, to)
  PROVE  /\ DOMAIN bases' = DOMAIN bases
         /\ bases' \in [DOMAIN bases' -> Bases!BaseStates]
         /\ Counted'
<1>1. /\ DOMAIN bases' = DOMAIN bases
      /\ bases' = [n \in DOMAIN bases |-> Bases!MoveBases(t, from, to)[n]]
  BY DEF Bases!MoveBases
<1>2. CASE over
  <2>1. bases' = bases
    BY <1>2 DEF Bases!MoveBases, BInv, BasesOK
  <2> QED BY <1>2, <2>1 DEF Counted, BInv, BasesOK
<1>3. CASE ~over
  <2>1. ASSUME NEW n \in DOMAIN bases
        PROVE  bases'[n] \in Bases!BaseStates /\ Fits(bases'[n], Crowd(n)')
    BY <1>1, <1>3, BaseMoves
  <2>2. bases' \in [DOMAIN bases' -> Bases!BaseStates]
    BY <1>1, <2>1
  <2>3. Counted'
    BY <1>1, <2>1 DEF Counted
  <2> QED BY <1>1, <2>2, <2>3
<1> QED BY <1>2, <1>3 DEF BInv, FInv, PeopleOK

\* when one of team t is the one who moves.
LEMMA MoveKeeps ==
  ASSUME BInv, NEW p \in Players, NEW t \in {1, 2}, NEW from, NEW to, Moves(p, from, to),
         from # 0 => team[p] = t, to # 0 => team'[p] = t,
         over' = over, bases' = Bases!MoveBases(t, from, to)
  PROVE  /\ DOMAIN bases' = DOMAIN bases
         /\ bases' \in [DOMAIN bases' -> Bases!BaseStates]
         /\ Counted'
<1>1. ASSUME NEW n \in DOMAIN bases, NEW u \in 0 .. 2
      PROVE  Crowd(n)' \in Crowds /\ Crowd(n)'[u] >= Crowd(n)[u] + Comes(t, from, to, n, u)
  <2> DEFINE e == IF n = from /\ team[p] = u THEN IF n = to /\ team'[p] = u THEN 0 ELSE -1
                  ELSE IF n = to /\ team'[p] = u THEN 1 ELSE 0
             f == Comes(t, from, to, n, u)
  <2>1. n # 0
    BY BaseAssumption DEF BInv, BasesOK
  <2>2. /\ Crowd(n) \in Crowds /\ Crowd(n)' \in Crowds
        /\ Crowd(n)'[u] >= Crowd(n)[u] + (Slack' - Slack) + e
    BY <2>1, CrowdMoves DEF BInv
  <2>3. e = f
    BY <2>1 DEF Comes
  <2>4. Slack \in Nat /\ Slack' \in Nat /\ Slack' >= Slack /\ f \in Int
    BY SlackIs DEF BInv, BasesOK, Moves, Comes
  <2>5. Crowd(n)[u] \in Nat /\ Crowd(n)'[u] \in Nat
    BY <2>2 DEF Crowds
  <2> HIDE DEF e, f
  <2>6. Crowd(n)'[u] >= Crowd(n)[u] + f
    BY <2>2, <2>3, <2>4, <2>5
  <2> QED BY <2>2, <2>6 DEF f
<1>2. \A n \in DOMAIN bases :
        /\ Crowd(n)' \in Crowds
        /\ \A u \in 0 .. 2 : Crowd(n)'[u] >= Crowd(n)[u] + Comes(t, from, to, n, u)
  BY <1>1
<1> QED BY <1>2, AllMove

\* The bases stay as they are and nowhere the crowd gets less; the match may end.
LEMMA MoreKeeps ==
  ASSUME BInv, bases' = bases, over' = over \/ over',
         \A n \in DOMAIN bases : Crowd(n) \in Crowds /\ Crowd(n)' \in Crowds
                                 /\ \A u \in 0 .. 2 : Crowd(n)'[u] >= Crowd(n)[u]
  PROVE  Counted'
<1>1. CASE over'
  BY <1>1 DEF Counted
<1>2. CASE ~over'
  <2>1. ASSUME NEW n \in DOMAIN bases PROVE Fits(bases'[n], Crowd(n)')
    <3>1. bases[n] \in Bases!BaseStates /\ Fits(bases[n], Crowd(n))
      BY <1>2 DEF BInv, BasesOK, Counted
    <3> QED BY <3>1, MoreFits
  <2> QED BY <2>1 DEF Counted
<1> QED BY <1>1, <1>2

\* Who stands where, and the bases, stay as they are; the match may end.
LEMMA StillKeeps ==
  ASSUME BInv, bases' = bases, gameclip' = gameclip, over' = over \/ over',
         \A q \in Players : /\ life'[q] = "alive" <=> life[q] = "alive"
                            /\ life[q] = "alive" => team'[q] = team[q] /\ at'[q] = at[q],
         Slack' \in Nat, Slack' >= Slack
  PROVE  Counted'
<1>0. gameclip = [q \in Players |-> FALSE] /\ gameclip' = [q \in Players |-> FALSE]
  BY DEF BInv, BasesOK
<1>1. ASSUME NEW n, NEW u PROVE Count(n, u)' = Count(n, u) /\ Count(n, u) \in Nat
  <2>1. /\ Bases!Standing(n, u) = {q \in Players : life[q] = "alive" /\ team[q] = u /\ at[q] = n}
        /\ Bases!Standing(n, u)' = {q \in Players : life'[q] = "alive" /\ team'[q] = u /\ at'[q] = n}
    BY <1>0, StandingIs, StandingNext
  <2>2. Bases!Standing(n, u)' = Bases!Standing(n, u) /\ Bases!Standing(n, u) \in SUBSET Players
    BY <2>1
  <2> QED BY <2>2, Cardinalities DEF Count
<1>2. Slack \in Nat
  BY SlackIs DEF BInv, BasesOK
<1>3. ASSUME NEW n \in DOMAIN bases
      PROVE  Crowd(n) \in Crowds /\ Crowd(n)' \in Crowds
             /\ \A u \in 0 .. 2 : Crowd(n)'[u] >= Crowd(n)[u]
  <2>1. /\ Crowd(n) = [u \in 0 .. 2 |-> Count(n, u) + Slack]
        /\ Crowd(n)' = [u \in 0 .. 2 |-> Count(n, u)' + Slack']
    BY DEF Crowd
  <2> QED BY <1>1, <1>2, <2>1 DEF Crowds
<1> QED BY <1>3, MoreKeeps

\* What a step leaves behind for BasesOK.
LEMMA BasesStay ==
  ASSUME BInv, m_capture', at' \in [Players -> {0} \cup Bases!MapBases],
         gameclip' = gameclip, \A q \in Players : life'[q] = "out" <=> team'[q] = 0,
         UNCHANGED notgotbases, HandedOK', DOMAIN bases' = DOMAIN bases,
         bases' \in [DOMAIN bases' -> Bases!BaseStates]
  PROVE  BasesOK'
<1>1. notgotbases' => bases' = <<>>
  <2>1. notgotbases' => DOMAIN bases' = {} /\ bases = <<>>
    BY NoFlags DEF BInv, BasesOK
  <2>2. ASSUME notgotbases' PROVE bases' = bases
    BY <2>1, <2>2 DEF BInv, BasesOK
  <2> QED BY <2>1, <2>2
<1> QED BY <1>1 DEF BInv, BasesOK

LEMMA NoBasesOK ==
  ASSUME NEW b, b = <<>>
  PROVE  DOMAIN b = {} /\ b \in [{} -> Bases!BaseStates]
BY NoFlags

\* A bot changes sides where it stands: it leaves and enters again.
LEMMA BotKeeps ==
  ASSUME BInv, NEW p \in Players, NEW t \in {1, 2}, Bases!MoveBot(p, t)
  PROVE  /\ DOMAIN bases' = DOMAIN bases
         /\ bases' \in [DOMAIN bases' -> Bases!BaseStates]
         /\ Counted'
<1> DEFINE x == IF life[p] = "alive" THEN at[p] ELSE 0
           u == team[p]
<1>0. /\ team \in [Players -> 0 .. 2] /\ gameclip = [q \in Players |-> FALSE]
      /\ bases \in [DOMAIN bases -> Bases!BaseStates] /\ 0 \notin DOMAIN bases
      /\ \A q \in Players : life[q] = "out" <=> team[q] = 0
      /\ Counted /\ BasesOK /\ HandedOK /\ ~over /\ life[p] # "out" /\ u # t
  BY BaseAssumption DEF BInv, FInv, PeopleOK, BasesOK, Flags!Teams, Bases!MoveBot
<1>01. Slack' = Slack /\ Slack' \in Nat /\ Slack \in Nat /\ Slack' >= Slack
  BY <1>0, HandedStays DEF Bases!MoveBot, Bases!handed
<1>1. Moves(p, x, x) /\ over' = over /\ team'[p] = t /\ u \in {1, 2}
  BY <1>0, <1>01 DEF Bases!MoveBot, Bases!match, Moves
<1>2. \A n \in DOMAIN bases :
        /\ Crowd(n) \in Crowds /\ Crowd(n)' \in Crowds
        /\ \A v \in 0 .. 2 : Crowd(n)'[v] >= Crowd(n)[v]
             + (IF n = x /\ u = v THEN IF n = x /\ t = v THEN 0 ELSE -1
                ELSE IF n = x /\ t = v THEN 1 ELSE 0)
  <2> SUFFICES ASSUME NEW n \in DOMAIN bases, NEW v \in 0 .. 2
               PROVE  /\ Crowd(n) \in Crowds /\ Crowd(n)' \in Crowds
                      /\ Crowd(n)'[v] >= Crowd(n)[v]
                           + (IF n = x /\ u = v THEN IF n = x /\ t = v THEN 0 ELSE -1
                              ELSE IF n = x /\ t = v THEN 1 ELSE 0)
    OBVIOUS
  <2> HIDE DEF x
  <2>1. /\ Crowd(n) \in Crowds /\ Crowd(n)' \in Crowds
        /\ Crowd(n)'[v] >= Crowd(n)[v] + (Slack' - Slack)
             + (IF n = x /\ team[p] = v THEN IF n = x /\ team'[p] = v THEN 0 ELSE -1
                ELSE IF n = x /\ team'[p] = v THEN 1 ELSE 0)
    BY <1>0, <1>1, CrowdMoves
  <2>2. Crowd(n)[v] \in Nat /\ Crowd(n)'[v] \in Nat
    BY <2>1 DEF Crowds
  <2> QED BY <1>01, <1>1, <2>1, <2>2
<1>3. \A n \in DOMAIN bases :
        bases'[n] = IF n = x THEN Bases!EnterBase(Bases!LeaveBase(bases[n], u), t) ELSE bases[n]
  <2>1. Bases!Here(p) = at[p]
    BY <1>0 DEF Bases!Here, Bases!Spot
  <2> QED BY <1>0, <2>1 DEF Bases!MoveBot
<1>4. DOMAIN bases' = DOMAIN bases /\ bases' = [n \in DOMAIN bases |-> bases'[n]]
  BY <1>0 DEF Bases!MoveBot
<1> HIDE DEF x, u
<1>5. ASSUME NEW n \in DOMAIN bases PROVE bases'[n] \in Bases!BaseStates /\ Fits(bases'[n], Crowd(n)')
  <2> DEFINE b == bases[n]
             c == Crowd(n)
             d == Crowd(n)'
             e == [c EXCEPT ![u] = IF @ = 0 THEN 0 ELSE @ - 1]
  <2>1. b \in Bases!BaseStates /\ Fits(b, c) /\ c \in Crowds /\ d \in Crowds
    BY <1>0, <1>2 DEF Counted
  <2>2. \A v \in 0 .. 2 : d[v] >= c[v]
             + (IF n = x /\ u = v THEN IF n = x /\ t = v THEN 0 ELSE -1
                ELSE IF n = x /\ t = v THEN 1 ELSE 0)
    BY <1>2
  <2>3. bases'[n] = IF n = x THEN Bases!EnterBase(Bases!LeaveBase(b, u), t) ELSE b
    BY <1>3
  <2> HIDE DEF b, c, d
  <2>4. CASE n # x
    <3>1. \A v \in 0 .. 2 : d[v] >= c[v]
      BY <2>1, <2>2, <2>4 DEF Crowds
    <3>2. Fits(b, d)
      BY <2>1, <3>1, MoreFits
    <3> QED BY <2>1, <2>3, <2>4, <3>2 DEF d
  <2>5. CASE n = x
    <3>0. /\ u \in 0 .. 2 /\ t \in 0 .. 2 /\ u # t /\ u \in {1, 2}
          /\ \A v \in 0 .. 2 : c[v] \in Nat /\ d[v] \in Nat
      BY <1>0, <1>1, <2>1 DEF Crowds
    <3>1. /\ e \in Crowds /\ e[u] >= c[u] - 1 /\ \A v \in (0 .. 2) \ {u} : e[v] >= c[v]
          /\ d[t] >= e[t] + 1 /\ \A v \in (0 .. 2) \ {t} : d[v] >= e[v]
      <4>1. /\ d[t] >= c[t] + 1 /\ d[u] >= c[u] - 1
            /\ \A v \in (0 .. 2) \ {t, u} : d[v] >= c[v]
        BY <2>2, <2>5, <3>0
      <4>2. /\ e \in Crowds
            /\ e[u] = IF c[u] = 0 THEN 0 ELSE c[u] - 1
            /\ \A v \in (0 .. 2) \ {u} : e[v] = c[v]
        BY <2>1, <3>0 DEF Crowds
      <4> HIDE DEF e
      <4> QED BY <3>0, <4>1, <4>2
    <3> HIDE DEF e
    <3> DEFINE g == Bases!LeaveBase(b, u)
    <3>2. g \in Bases!BaseStates /\ Fits(g, e)
      BY <1>1, <2>1, <3>1, LeaveFits
    <3> HIDE DEF g
    <3>3. Bases!EnterBase(g, t) \in Bases!BaseStates /\ Fits(Bases!EnterBase(g, t), d)
      BY <2>1, <3>1, <3>2, EnterFits
    <3> QED BY <2>3, <2>5, <3>3 DEF g, d
  <2> QED BY <2>4, <2>5
<1> QED BY <1>4, <1>5 DEF Counted

\* A step of one player
LEMMA BasesPlayer ==
  ASSUME Clips = {FALSE}, BInv, m_capture, m_capture', NEW p \in Players, Bases!PlayerStep(p)
  PROVE  BasesOK' /\ Counted'
<1>0. /\ life \in [Players -> {"alive", "dead", "out"}] /\ team \in [Players -> 0 .. 2]
      /\ at \in [Players -> {0} \cup Bases!MapBases]
      /\ gameclip = [q \in Players |-> FALSE]
      /\ \A q \in Players : life[q] = "out" <=> team[q] = 0
      /\ bases \in [DOMAIN bases -> Bases!BaseStates] /\ HandedOK /\ BasesOK
  BY DEF BInv, FInv, PeopleOK, BasesOK, Flags!Teams
<1>01. ASSUME UNCHANGED Bases!handed, \A q \in Players : life[q] = "alive" => life'[q] = "alive"
       PROVE  HandedOK' /\ Slack' = Slack /\ Slack' \in Nat /\ Slack' >= Slack
  <2>1. UNCHANGED <<awaited, handovers>> /\ \A q \in awaited : life[q] = "alive" => life'[q] = "alive"
    BY <1>0, <1>01, PlayersAssumption DEF Bases!handed, HandedOK
  <2> QED BY <1>0, <2>1, HandedStays
<1>00. Bases!Here(p) = at[p] /\ \A n : Bases!Spot(n, FALSE) = n
  BY <1>0 DEF Bases!Here, Bases!Spot
<1>1. CASE Bases!TrySpawn(p)
  <2>0. HandedOK' /\ Slack' \in Nat /\ Slack' >= Slack
    BY <1>01, <1>1 DEF Bases!TrySpawn
  <2>1. Counted'
    BY <1>0, <1>1, <2>0, StillKeeps DEF Bases!TrySpawn, Bases!match
  <2> QED BY <1>0, <1>1, <2>0, <2>1, BasesStay DEF Bases!TrySpawn, Bases!match, Bases!Nowhere
<1>2. CASE Bases!Spawn(p)
  <2>0. /\ awaited' = awaited \ {p} /\ handovers' = handovers
        /\ UNCHANGED <<team, at, gameclip, over, notgotbases>>
        /\ life'[p] = "alive" /\ \A q \in Players \ {p} : life'[q] = life[q]
        /\ bases' = Bases!MoveBases(team[p], 0, at[p])
        /\ life[p] = "dead" \/ p \in awaited
    BY <1>0, <1>00, <1>2 DEF Bases!Spawn, Bases!match, Bases!EnterBases, Bases!Nowhere
  <2>1. /\ HandedOK' /\ Slack' \in Nat /\ Slack' >= Slack
        /\ p \in awaited => Slack' = Slack + 1
    BY <1>0, <2>0, HandedLess
  <2>2. team[p] \in {1, 2} /\ (p \in awaited => life[p] = "alive")
        /\ \A q \in Players : life'[q] = "out" <=> team'[q] = 0
    BY <1>0, <2>0 DEF HandedOK
  <2>3. /\ DOMAIN bases' = DOMAIN bases /\ bases' \in [DOMAIN bases' -> Bases!BaseStates]
        /\ Counted'
    <3>1. CASE life[p] = "dead"
      <4>1. Moves(p, 0, at[p])
        BY <2>0, <2>1, <3>1 DEF Moves
      <4> QED BY <2>0, <2>2, <4>1, MoveKeeps
    <3>2. CASE p \in awaited
      <4>0. Slack' = Slack + 1 /\ Slack \in Nat /\ life[p] = "alive"
        BY <1>0, <2>1, <2>2, <3>2, SlackIs
      <4>1. Moves(p, at[p], at[p])
        BY <2>0, <2>1, <4>0 DEF Moves
      <4>2. ASSUME NEW n \in DOMAIN bases, NEW u \in 0 .. 2
            PROVE  /\ Crowd(n)' \in Crowds
                   /\ Crowd(n)'[u] >= Crowd(n)[u] + Comes(team[p], 0, at[p], n, u)
        <5>1. n # 0
          BY BaseAssumption DEF BInv, BasesOK
        <5>2. /\ Crowd(n) \in Crowds /\ Crowd(n)' \in Crowds
              /\ Crowd(n)'[u] >= Crowd(n)[u] + (Slack' - Slack)
                  + (IF n = at[p] /\ team[p] = u THEN IF n = at[p] /\ team'[p] = u THEN 0 ELSE -1
                     ELSE IF n = at[p] /\ team'[p] = u THEN 1 ELSE 0)
          BY <1>0, <4>1, <5>1, CrowdMoves
        <5>3. Crowd(n)[u] \in Nat /\ Crowd(n)'[u] \in Nat
          BY <5>2 DEF Crowds
        <5>4. Crowd(n)'[u] >= Crowd(n)[u] + 1
          BY <2>0, <4>0, <5>2, <5>3
        <5>5. Comes(team[p], 0, at[p], n, u) \in {0, 1}
          BY <5>1 DEF Comes
        <5> QED BY <5>2, <5>3, <5>4, <5>5
      <4> QED BY <2>0, <2>2, <4>2, AllMove
    <3> QED BY <2>0, <3>1, <3>2
  <2> QED BY <1>0, <2>0, <2>1, <2>2, <2>3, BasesStay
<1>10. CASE Bases!HandOver(p)
  <2>0. /\ awaited' = awaited \cup {p} /\ handovers' = handovers + 1 /\ handovers < MaxHandOvers
        /\ UNCHANGED <<life, team, gameclip, bases, over, notgotbases>> /\ p \in Bots
        /\ life[p] = "alive" /\ at' = [at EXCEPT ![p] = 0]
    BY <1>10 DEF Bases!HandOver, Bases!match, Bases!Nowhere
  <2>1. HandedOK' /\ Slack' \in Nat /\ Slack' >= Slack + 1 /\ Slack \in Nat
    BY <1>0, <2>0, HandedMore, SlackIs
  <2>2. /\ at' \in [Players -> {0} \cup Bases!MapBases] /\ at'[p] = 0
        /\ \A q \in Players \ {p} : at'[q] = at[q]
    BY <1>0, <2>0
  <2>3. Moves(p, at[p], 0)
    <3>1. Slack' >= Slack
      BY <2>1
    <3> QED BY <2>0, <2>1, <2>2, <3>1 DEF Moves
  <2>4. ASSUME NEW n \in DOMAIN bases, NEW u \in 0 .. 2
        PROVE  Crowd(n) \in Crowds /\ Crowd(n)' \in Crowds /\ Crowd(n)'[u] >= Crowd(n)[u]
    <3>1. n # 0
      BY BaseAssumption DEF BInv, BasesOK
    <3>2. /\ Crowd(n) \in Crowds /\ Crowd(n)' \in Crowds
          /\ Crowd(n)'[u] >= Crowd(n)[u] + (Slack' - Slack)
              + (IF n = at[p] /\ team[p] = u THEN IF n = 0 /\ team'[p] = u THEN 0 ELSE -1
                 ELSE IF n = 0 /\ team'[p] = u THEN 1 ELSE 0)
      BY <1>0, <2>3, <3>1, CrowdMoves
    <3>3. Crowd(n)[u] \in Nat /\ Crowd(n)'[u] \in Nat
      BY <3>2 DEF Crowds
    <3> QED BY <2>1, <3>1, <3>2, <3>3
  <2>5. Counted'
    BY <2>0, <2>4, MoreKeeps
  <2> QED BY <1>0, <2>0, <2>1, <2>2, <2>5, BasesStay
<1>3. ASSUME NEW n \in {0} \cup Visited, NEW c \in Clips, Bases!Move(p, n, c)
      PROVE  BasesOK' /\ Counted'
  <2>1. n \in {0} \cup Bases!MapBases
    BY BaseAssumption DEF Bases!MapBases
  <2>2. /\ at' \in [Players -> {0} \cup Bases!MapBases] /\ gameclip' = gameclip
        /\ UNCHANGED <<life, team, over, notgotbases>>
    BY <1>0, <1>3, <2>1 DEF Bases!Move, Bases!match
  <2>5. HandedOK' /\ Slack' \in Nat /\ Slack' >= Slack
    BY <1>01, <1>3, <2>2 DEF Bases!Move
  <2>3. CASE life[p] = "alive"
    <3>0. bases' = Bases!MoveBases(team[p], at[p], n)
      <4>1. bases' = Bases!MoveBases(team[p], Bases!Here(p), Bases!Spot(n, c))
        BY <1>3, <2>3 DEF Bases!Move
      <4>2. Bases!Spot(n, c) = n
        BY DEF Bases!Spot
      <4> QED BY <1>00, <4>1, <4>2
    <3>1. Moves(p, at[p], n) /\ team[p] \in {1, 2}
      <4>1. at'[p] = n /\ \A q \in Players \ {p} : at'[q] = at[q]
        BY <1>0, <1>3 DEF Bases!Move
      <4> QED BY <1>0, <2>2, <2>3, <2>5, <4>1 DEF Moves
    <3>2. /\ DOMAIN bases' = DOMAIN bases /\ bases' \in [DOMAIN bases' -> Bases!BaseStates]
          /\ Counted'
      BY <2>2, <3>0, <3>1, MoveKeeps
    <3> QED BY <1>0, <2>2, <2>5, <3>2, BasesStay
  <2>4. CASE life[p] # "alive"
    <3>1. bases' = bases /\ at' = [at EXCEPT ![p] = n]
      BY <1>3, <2>4 DEF Bases!Move
    <3>2. Counted'
      BY <1>0, <2>2, <2>4, <2>5, <3>1, StillKeeps
    <3> QED BY <1>0, <2>2, <2>5, <3>1, <3>2, BasesStay
  <2> QED BY <2>3, <2>4
<1>4. ASSUME Bases!LetGo(p), life'[p] # "alive",
             \A q \in Players \ {p} : life'[q] = life[q] /\ team'[q] = team[q] /\ at'[q] = at[q],
             gameclip' = gameclip, over' = over, handovers' = handovers
      PROVE  /\ DOMAIN bases' = DOMAIN bases /\ bases' \in [DOMAIN bases' -> Bases!BaseStates]
             /\ Counted' /\ HandedOK'
  <2>0. HandedOK' /\ Slack' \in Nat /\ Slack' >= Slack
    <3>1. awaited' = awaited \ {p}
      BY <1>4 DEF Bases!LetGo
    <3> QED BY <1>0, <1>4, <3>1, HandedLess
  <2>1. CASE life[p] = "alive"
    <3>1. Moves(p, at[p], 0) /\ team[p] \in {1, 2} /\ bases' = Bases!MoveBases(team[p], at[p], 0)
      BY <1>0, <1>00, <1>4, <2>0, <2>1 DEF Bases!LetGo, Bases!LeaveBases, Moves, Bases!Nowhere
    <3> QED BY <1>4, <2>0, <3>1, MoveKeeps
  <2>2. CASE life[p] # "alive"
    <3>1. bases' = bases
      BY <1>4, <2>2 DEF Bases!LetGo
    <3>2. Counted'
      BY <1>0, <1>4, <2>0, <2>2, <3>1, StillKeeps
    <3> QED BY <1>0, <2>0, <3>1, <3>2
  <2> QED BY <2>1, <2>2
<1>5. CASE Bases!Die(p)
  <2>1. /\ Bases!LetGo(p) /\ UNCHANGED <<gameclip, over, notgotbases, handovers>> /\ life'[p] = "dead"
        /\ \A q \in Players \ {p} : life'[q] = life[q] /\ team'[q] = team[q] /\ at'[q] = at[q]
        /\ at' \in [Players -> {0} \cup Bases!MapBases]
        /\ \A q \in Players : life'[q] = "out" <=> team'[q] = 0
    BY <1>0, <1>5 DEF Bases!Die, Bases!match, Bases!Nowhere
  <2> QED BY <1>4, <2>1, BasesStay
<1>6. CASE Bases!Leave(p)
  <2>1. /\ Bases!LetGo(p) /\ UNCHANGED <<gameclip, over, notgotbases, handovers>> /\ life'[p] = "out"
        /\ \A q \in Players \ {p} : life'[q] = life[q] /\ team'[q] = team[q] /\ at'[q] = at[q]
        /\ at' \in [Players -> {0} \cup Bases!MapBases]
        /\ \A q \in Players : life'[q] = "out" <=> team'[q] = 0
    BY <1>0, <1>6 DEF Bases!Leave, Bases!match, Bases!Nowhere, Bases!NoTeam
  <2> QED BY <1>4, <2>1, BasesStay
<1>7. ASSUME NEW t \in {1, 2}, Bases!SwitchTeam(p, t) PROVE BasesOK' /\ Counted'
  <2>1. /\ Bases!LetGo(p) /\ UNCHANGED <<gameclip, over, notgotbases, handovers>> /\ life'[p] = "dead"
        /\ \A q \in Players \ {p} : life'[q] = life[q] /\ team'[q] = team[q] /\ at'[q] = at[q]
        /\ at' \in [Players -> {0} \cup Bases!MapBases]
        /\ \A q \in Players : life'[q] = "out" <=> team'[q] = 0
    BY <1>0, <1>7 DEF Bases!SwitchTeam, Bases!match, Bases!Nowhere
  <2> QED BY <1>4, <2>1, BasesStay
<1>8. ASSUME NEW t \in {1, 2}, Bases!Enter(p, t) PROVE BasesOK' /\ Counted'
  <2>0. PICK c \in Clips : gameclip' = [gameclip EXCEPT ![p] = c]
    BY <1>8 DEF Bases!Enter
  <2>1. /\ bases' = bases /\ UNCHANGED <<at, over, notgotbases>>
        /\ \A q \in Players : life'[q] = "out" <=> team'[q] = 0
        /\ \A q \in Players : /\ life'[q] = "alive" <=> life[q] = "alive"
                              /\ life[q] = "alive" => team'[q] = team[q]
    BY <1>0, <1>8 DEF Bases!Enter, Bases!match
  <2>2. gameclip' = gameclip
    BY <1>0, <2>0
  <2>4. HandedOK' /\ Slack' \in Nat /\ Slack' >= Slack
    BY <1>01, <1>8, <2>1 DEF Bases!Enter
  <2>3. Counted'
    BY <2>1, <2>2, <2>4, StillKeeps
  <2> QED BY <1>0, <2>1, <2>2, <2>3, <2>4, BasesStay
<1>9. ASSUME NEW t \in {1, 2}, Bases!MoveBot(p, t) PROVE BasesOK' /\ Counted'
  <2>1. /\ DOMAIN bases' = DOMAIN bases /\ bases' \in [DOMAIN bases' -> Bases!BaseStates]
        /\ Counted'
    BY <1>9, BotKeeps
  <2>2. /\ UNCHANGED <<at, gameclip, notgotbases>>
        /\ \A q \in Players : life'[q] = "out" <=> team'[q] = 0
    BY <1>0, <1>9 DEF Bases!MoveBot, Bases!match
  <2>3. HandedOK'
    BY <1>01, <1>9 DEF Bases!MoveBot
  <2> QED BY <1>0, <2>1, <2>2, <2>3, BasesStay
<1> QED BY <1>1, <1>2, <1>3, <1>5, <1>6, <1>7, <1>8, <1>9, <1>10
        DEF Bases!PlayerStep, Bases!Teams, Bases!Nowhere

\* The bases of the map become known: the first who is near one of another team
\* makes it his team's enemy, and counts.
LEMMA ParseKeeps ==
  ASSUME BInv, m_capture, m_capture', Bases!ParseBases
  PROVE  BasesOK' /\ Counted'
<1> DEFINE Near(n, t) ==
      {p \in Players : life[p] = "alive" /\ Bases!Here(p) = n /\ team[p] = t /\ ~over}
<1>0. gameclip = [q \in Players |-> FALSE] /\ \A q \in Players : life[q] = "out" <=> team[q] = 0
  BY DEF BInv, BasesOK
<1>1. PICK L \in BaseLayouts : \E first \in [L -> {0} \cup {1, 2}] :
        bases' = [n \in L |-> [Bases!Neutral EXCEPT !.enemy = first[n],
                                                    !.enemies = Bases!Cardinality(Near(n, first[n]))]]
  BY DEF Bases!ParseBases, Bases!NoTeam, Bases!Teams
<1>2. PICK first \in [L -> {0} \cup {1, 2}] :
        bases' = [n \in L |-> [Bases!Neutral EXCEPT !.enemy = first[n],
                                                    !.enemies = Bases!Cardinality(Near(n, first[n]))]]
  BY <1>1
<1>3. UNCHANGED <<life, team, at, gameclip, over>> /\ notgotbases' = FALSE
      /\ UNCHANGED <<awaited, handovers>>
  BY DEF Bases!ParseBases, Bases!people, Bases!handed
<1>30. HandedOK' /\ Slack' \in Nat
  BY <1>3, HandedStays DEF BInv, BasesOK
<1>4. ASSUME NEW n \in L
      PROVE  /\ bases'[n] \in Bases!BaseStates
             /\ ~over => Fits(bases'[n], Crowd(n)')
  <2> DEFINE e == first[n]
             m == Bases!Cardinality(Near(n, e))
             d == Crowd(n)'
             h == [Bases!Neutral EXCEPT !.enemy = e]
             g == [h EXCEPT !.enemies = m]
  <2>1. bases'[n] = g
    BY <1>2
  <2>2. g = Base(0, e, 0, m, 0)
    <3> HIDE DEF m, e
    <3>1. h = Base(0, e, 0, 0, 0)
      BY DEF Bases!Neutral, Bases!NoTeam, Base
    <3> HIDE DEF h
    <3> QED BY <3>1 DEF Base
  <2>3. Near(n, e) \in SUBSET Players
    OBVIOUS
  <2>4. m \in 0 .. Cardinality(Players)
    BY <2>3, Cardinalities, SameCount
  <2>5. e \in 0 .. 2 /\ e \in {0, 1, 2}
    <3>1. first \in [L -> {0} \cup {1, 2}]
      BY <1>2
    <3> QED BY <3>1
  <2>6. g \in Bases!BaseStates
    <3> HIDE DEF m, e, g
    <3> QED BY <2>2, <2>4, <2>5, PlayersCount, BaseAssumption, SameCount
            DEF Bases!BaseStates, Bases!Teams, Bases!NoTeam, Base
  <2>7. ASSUME ~over PROVE Fits(g, d)
    <3>1. Near(n, e) = {p \in Players : life'[p] = "alive" /\ team'[p] = e /\ at'[p] = n}
      BY <1>0, <1>3, <2>7 DEF Bases!Here, Bases!Spot
    <3>2. Near(n, e) = Bases!Standing(n, e)'
      BY <1>0, <1>3, <3>1, StandingNext
    <3>3. d[e] = m + Slack'
      BY <2>5, <3>2, SameCount DEF Crowd, Count
    <3>4. \A u \in 0 .. 2 : Bases!Standing(n, u)' \in SUBSET Players
      BY DEF Bases!Standing
    <3>5. d \in Crowds
      <4>1. \A u \in 0 .. 2 : Count(n, u)' \in Nat
        BY <3>4, Cardinalities DEF Count
      <4> QED BY <1>30, <4>1 DEF Crowd, Crowds
    <3>6. e = 0 => m = 0
      <4>1. e = 0 => Near(n, e) = {}
        BY <1>0
      <4> QED BY <4>1, FS_EmptySet, SameCount
    <3> HIDE DEF d, m, e, g
    <3>7. 0 \in 0 .. d[0] /\ m \in 0 .. d[e] /\ 0 \in 0 .. 2 /\ 0 \in 0 .. EnemyLimit
      <4>1. m \in Nat /\ Slack' \in Nat /\ d[0] \in Nat /\ d[e] = m + Slack'
        BY <1>30, <2>4, <3>3, <3>5, PlayersCount DEF Crowds
      <4>2. \A i, j, k \in Nat : i \in 0 .. i + j /\ 0 \in 0 .. k
        OBVIOUS
      <4> QED BY <4>1, <4>2, BaseAssumption
    <3> QED BY <2>2, <2>5, <3>5, <3>6, <3>7, BaseFits
  <2> QED BY <1>3, <2>1, <2>6, <2>7
<1>5. DOMAIN bases' = L /\ bases' \in [DOMAIN bases' -> Bases!BaseStates]
  <2>1. DOMAIN bases' = L /\ bases' = [n \in L |-> bases'[n]]
    BY <1>2
  <2> QED BY <1>4, <2>1
<1>6. Counted'
  BY <1>3, <1>4, <1>5 DEF Counted
<1> HIDE DEF Near
<1> QED BY <1>3, <1>30, <1>5, <1>6 DEF BInv, BasesOK

\* A second, or none, and the end of the match
LEMMA UpdateBases ==
  ASSUME BInv, m_capture, m_capture', Bases!Update
  PROVE  BasesOK' /\ Counted'
<1>1. /\ UNCHANGED <<life, team, at, gameclip, notgotbases, awaited, handovers>> /\ ~over
      /\ bases' \in {bases, [n \in DOMAIN bases |-> Bases!Second(bases[n])]}
  BY DEF Bases!Update, Bases!people, Bases!handed
<1>10. HandedOK' /\ Slack \in Nat
  BY <1>1, HandedStays, SlackIs DEF BInv, BasesOK
<1>2. \A n : Crowd(n)' = Crowd(n)
  BY <1>1 DEF Crowd, Count, Slack, Bases!Standing, Bases!Here
<1>3. ASSUME NEW n \in DOMAIN bases
      PROVE  bases'[n] \in Bases!BaseStates /\ Fits(bases'[n], Crowd(n))
  <2>1. bases[n] \in Bases!BaseStates /\ Fits(bases[n], Crowd(n))
    BY <1>1 DEF BInv, BasesOK, Counted
  <2>2. Crowd(n) \in Crowds
    <3>1. \A u \in 0 .. 2 : Bases!Standing(n, u) \in SUBSET Players
      BY DEF Bases!Standing
    <3>2. \A u \in 0 .. 2 : Count(n, u) \in Nat
      BY <3>1, Cardinalities DEF Count
    <3> QED BY <1>10, <3>2 DEF Crowd, Crowds
  <2>3. bases'[n] = bases[n] \/ bases'[n] = Bases!Second(bases[n])
    BY <1>1
  <2> QED BY <2>1, <2>2, <2>3, SecondFits
<1>4. DOMAIN bases' = DOMAIN bases /\ bases' = [n \in DOMAIN bases |-> bases'[n]]
  BY <1>1 DEF BInv, BasesOK
<1>5. bases' \in [DOMAIN bases' -> Bases!BaseStates] /\ Counted'
  BY <1>2, <1>3, <1>4 DEF Counted
<1> QED BY <1>1, <1>10, <1>4, <1>5, BasesStay DEF BInv, BasesOK

\* Without bases nothing else has to be shown.
LEMMA EmptyBases ==
  ASSUME bases' = <<>>, notgotbases' \in BOOLEAN, gameclip' = [p \in Players |-> FALSE],
         at' \in [Players -> {0} \cup Bases!MapBases],
         \A q \in Players : life'[q] = "out" <=> team'[q] = 0, ~m_capture' => NoBases',
         HandedOK'
  PROVE  BasesOK' /\ Counted'
BY NoBasesOK DEF BasesOK, Counted

LEMMA BasesNext ==
  ASSUME Clips = {FALSE}, BInv, m_capture, m_capture', Bases!Next
  PROVE  BasesOK' /\ Counted'
<1>1. ASSUME NEW p \in Players, Bases!PlayerStep(p) PROVE BasesOK' /\ Counted'
  BY <1>1, BasesPlayer
<1>2. CASE Bases!ParseBases
  BY <1>2, ParseKeeps
<1>3. CASE Bases!NewMap
  <2>1. UNCHANGED <<awaited, handovers, life>>
    BY <1>3 DEF Bases!NewMap, Bases!people, Bases!handed
  <2>2. HandedOK'
    BY <2>1, HandedStays DEF BInv, BasesOK
  <2> QED BY <1>3, <2>2, EmptyBases DEF Bases!NewMap, Bases!people, BInv, BasesOK
<1>4. CASE Bases!Update
  BY <1>4, UpdateBases
<1>5. CASE Bases!TimeUp
  <2>1. Counted'
    BY <1>5 DEF Bases!TimeUp, Counted
  <2>2. HandedOK'
    BY <1>5, HandedStays DEF Bases!TimeUp, Bases!people, Bases!handed, BInv, BasesOK
  <2> QED BY <1>5, <2>1, <2>2 DEF Bases!TimeUp, Bases!people, BInv, BasesOK
<1>6. CASE Bases!ChangeMap
  <2>1. /\ bases' = <<>> /\ notgotbases' = TRUE /\ gameclip' = [p \in Players |-> FALSE]
        /\ at' = [p \in Players |-> 0] /\ awaited' = {} /\ handovers' = 0
    BY <1>6 DEF Bases!ChangeMap, Bases!Nowhere
  <2>2. \A q \in Players : life'[q] = "out" <=> team'[q] = 0
    BY <1>6 DEF Bases!ChangeMap, Bases!Teams, Bases!NoTeam
  <2>3. at' \in [Players -> {0} \cup Bases!MapBases]
    BY <2>1
  <2>4. HandedOK'
    BY <2>1, NoneHanded
  <2> QED BY <2>1, <2>2, <2>3, <2>4, EmptyBases
<1> QED BY <1>1, <1>2, <1>3, <1>4, <1>5, <1>6 DEF Bases!Next

\* In the modes with flags, too, who plays has a team.
LEMMA FlagsTeams ==
  ASSUME PeopleOK, \A q \in Players : life[q] = "out" <=> team[q] = 0, Flags!Next
  PROVE  \A q \in Players : life'[q] = "out" <=> team'[q] = 0
<1>1. ASSUME NEW p \in Players, Flags!PlayerStep(p)
      PROVE  \A q \in Players : life'[q] = "out" <=> team'[q] = 0
  <2>1. CASE Flags!Spawn(p) \/ Flags!Die(p) \/ Flags!Leave(p) \/ Flags!TryDrop(p)
    BY <2>1 DEF PeopleOK, Flags!Spawn, Flags!Die, Flags!Leave, Flags!TryDrop, Flags!people, Flags!match
  <2>2. ASSUME NEW t \in Flags!Teams,
               Flags!Enter(p, t) \/ Flags!SwitchTeam(p, t) \/ Flags!MoveBot(p, t)
        PROVE  \A q \in Players : life'[q] = "out" <=> team'[q] = 0
    BY <2>2 DEF PeopleOK, Flags!Enter, Flags!SwitchTeam, Flags!MoveBot, Flags!match, Flags!Teams
  <2>3. ASSUME NEW i, NEW v, Flags!TakeFlag(p, i, v)
        PROVE  \A q \in Players : life'[q] = "out" <=> team'[q] = 0
    BY <2>3 DEF Flags!TakeFlag, Flags!ProtectScore, Flags!ReturnOwn, Flags!PickUp, Flags!Capture,
                Flags!AddPoint, Flags!people, Flags!match
  <2> QED BY <1>1, <2>1, <2>2, <2>3 DEF Flags!PlayerStep
<1>2. CASE Flags!ChangeMap
  BY <1>2 DEF Flags!ChangeMap, Flags!Teams
<1>3. CASE Flags!InitFlags \/ Flags!NewMap \/ Flags!TimeUp \/ Flags!Pause
  BY <1>3 DEF Flags!InitFlags, Flags!NewMap, Flags!TimeUp, Flags!Pause, Flags!people
<1>4. ASSUME NEW i, Flags!ResetFlag(i) \/ Flags!ShowFlag(i) \/ Flags!HoldScore(i)
      PROVE  \A q \in Players : life'[q] = "out" <=> team'[q] = 0
  BY <1>4 DEF Flags!ResetFlag, Flags!ShowFlag, Flags!HoldScore, Flags!AddPoint, Flags!people
<1> QED BY <1>1, <1>2, <1>3, <1>4 DEF Flags!Next

\* Every step preserves the invariant.
LEMMA NextBInv ==
  ASSUME Clips = {FALSE}, BInv, [Next]_vars
  PROVE  BInv'
<1>0. FInv' /\ FInv /\ PeopleOK /\ BasesOK /\ Counted
  BY NextFInv DEF BInv, FInv
<1>1. CASE PlayFlags
  <2>1. \A q \in Players : life'[q] = "out" <=> team'[q] = 0
    BY <1>0, <1>1, FlagsTeams DEF PlayFlags, BasesOK
  <2>2. UNCHANGED <<at, gameclip, bases, notgotbases>> /\ NoBases /\ NoBases'
        /\ awaited' = {} /\ handovers' = 0
    BY <1>0, <1>1 DEF PlayFlags, baseVars, BasesOK, NoBases
  <2>3. BasesOK' /\ Counted'
    BY <1>0, <2>1, <2>2, EmptyBases, NoneHanded DEF BasesOK, NoBases
  <2> QED BY <1>0, <2>3 DEF BInv
<1>2. CASE PlayBases
  <2>1. m_capture /\ m_capture' /\ Bases!Next
    BY <1>2 DEF PlayBases, m_capture
  <2>2. BasesOK' /\ Counted'
    BY <2>1, BasesNext
  <2> QED BY <1>0, <2>2 DEF BInv
<1>3. CASE ToBases
  <2>1. /\ bases' = <<>> /\ notgotbases' = TRUE /\ gameclip' = [p \in Players |-> FALSE]
        /\ at' = [p \in Players |-> 0] /\ m_capture' /\ awaited' = {} /\ handovers' = 0
    BY <1>3 DEF ToBases, Bases!ChangeMap, Bases!Nowhere, m_capture
  <2>2. \A q \in Players : life'[q] = "out" <=> team'[q] = 0
    BY <1>3 DEF ToBases, Bases!ChangeMap, Bases!Teams, Bases!NoTeam
  <2>3. at' \in [Players -> {0} \cup Bases!MapBases]
    BY <2>1
  <2>4. BasesOK' /\ Counted'
    BY <2>1, <2>2, <2>3, EmptyBases, NoneHanded
  <2> QED BY <1>0, <2>4 DEF BInv
<1>4. CASE ToFlags
  <2>1. /\ bases' = <<>> /\ notgotbases' = TRUE /\ gameclip' = [p \in Players |-> FALSE]
        /\ at' = [p \in Players |-> 0] /\ NoBases' /\ awaited' = {} /\ handovers' = 0
    BY <1>4 DEF ToFlags, NoBases, Bases!Nowhere
  <2>2. \A q \in Players : life'[q] = "out" <=> team'[q] = 0
    BY <1>4 DEF ToFlags, Flags!ChangeMap, Flags!Teams
  <2>3. at' \in [Players -> {0} \cup Bases!MapBases]
    BY <2>1
  <2>4. BasesOK' /\ Counted'
    BY <2>1, <2>2, <2>3, EmptyBases, NoneHanded
  <2> QED BY <1>0, <2>4 DEF BInv
<1>5. CASE UNCHANGED vars
  BY <1>0, <1>5 DEF vars, baseVars, flagVars, BInv, BasesOK, Counted, m_capture, NoBases,
                    Crowd, Count, Slack, HandedOK, Bases!Standing, Bases!Here
<1> QED BY <1>1, <1>2, <1>3, <1>4, <1>5 DEF Next

\* A base counts nobody who is not there, but for two for each time that a
\* living bot was handed over, counts for teams it knows only and its enemy is
\* not its owner; and everything has its type.  (On maps without game-clip
\* material, where nobody reports any.)
THEOREM BasesCountWhoStands ==
  ASSUME Clips = {FALSE}
  PROVE  Spec => []CountsFit
<1>1. Init => BInv
  <2> SUFFICES ASSUME Init PROVE BInv
    OBVIOUS
  <2>1. FInv
    BY FlagsInit
  <2>2. /\ bases = <<>> /\ notgotbases = TRUE /\ gameclip = [p \in Players |-> FALSE]
        /\ at = [p \in Players |-> 0] /\ NoBases
        /\ \A q \in Players : life[q] = "out" /\ team[q] = 0
        /\ awaited = {} /\ handovers = 0
    BY DEF Init, Flags!Init, NoBases, Bases!Nowhere
  <2>3. HandedOK
    BY <2>2, FS_EmptySet, BaseAssumption DEF HandedOK
  <2> QED BY <2>1, <2>2, <2>3, NoBasesOK DEF BInv, BasesOK, Counted
<1>2. BInv /\ [Next]_vars => BInv'
  BY NextBInv
<1>3. BInv => CountsFit
  <2> SUFFICES ASSUME BInv PROVE CountsFit
    OBVIOUS
  <2>0. handovers = 0 => awaited = {}
    BY SlackIs, FS_EmptySet DEF BInv, BasesOK, HandedOK
  <2>1. Bases!TypeOK
    BY <2>0 DEF BInv, FInv, HandedOK, PeopleOK, BasesOK, Flags!Teams, Bases!TypeOK, Bases!Teams, Bases!NoTeam,
           Bases!Nowhere
  <2>2. m_capture => flags = <<>> /\ notgotflags
    BY DEF BInv, FInv, FlagsOK
  <2>3. ~m_capture => Flags!TypeOK /\ NoBases
    BY DEF BInv, FInv, PeopleOK, FlagsOK, BasesOK, Flags!TypeOK, m_capture, Modes
  <2>4. Bases!CountsFit
    <3> SUFFICES ASSUME ~over, NEW n \in DOMAIN bases
                 PROVE  LET b == bases[n] IN
                        /\ b.owners <= Bases!Cardinality(Bases!Standing(n, b.owner)) + 2 * handovers
                        /\ b.enemies <= Bases!Cardinality(Bases!Standing(n, b.enemy)) + 2 * handovers
                        /\ b.enemy # 0 => b.enemy # b.owner
                        /\ b.enemy = 0 => b.converted = 0
      BY DEF Bases!CountsFit, Bases!NoTeam
    <3>1. Fits(bases[n], Crowd(n)) /\ bases[n] \in Bases!BaseStates
      BY DEF BInv, Counted, BasesOK
    <3>2. /\ bases[n].owner \in 0 .. 2 /\ bases[n].enemy \in 0 .. 2
          /\ bases[n].owners \in Nat /\ bases[n].enemies \in Nat
      BY <3>1, BaseIs
    <3>3. ASSUME NEW u \in 0 .. 2
          PROVE  /\ Count(n, u) \in Nat
                 /\ Crowd(n)[u] \in Nat /\ Crowd(n)[u] <= Count(n, u) + 2 * handovers
      <4>1. Bases!Standing(n, u) \in SUBSET Players
        BY DEF Bases!Standing
      <4>2. /\ Cardinality(awaited) \in Nat /\ Slack \in Nat /\ handovers \in Nat
            /\ Slack = 2 * handovers - Cardinality(awaited)
        BY SlackIs, BaseAssumption DEF BInv, BasesOK, HandedOK, Slack
      <4>3. Crowd(n)[u] = Count(n, u) + Slack /\ Count(n, u) \in Nat
        BY <4>1, Cardinalities DEF Crowd, Count
      <4> QED BY <4>2, <4>3
    <3>4. handovers \in Nat
      BY BaseAssumption DEF BInv, BasesOK, HandedOK
    <3>5. /\ bases[n].owners <= Count(n, bases[n].owner) + 2 * handovers
          /\ bases[n].enemies <= Count(n, bases[n].enemy) + 2 * handovers
      BY <3>1, <3>2, <3>3, <3>4 DEF Fits
    <3> QED BY <3>1, <3>5, SameCount DEF Fits, Count
  <2> QED BY <2>1, <2>2, <2>3, <2>4 DEF CountsFit, TypeOK
<1> QED BY <1>1, <1>2, <1>3, PTL DEF Spec
=============================================================================
