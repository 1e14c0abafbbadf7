----------------------------- MODULE RoomProofs -----------------------------
(***************************************************************************)
(* Proofs about MCRoom: whose authentication an answer of the master       *)
(* server is, for every number of players, names and requests, and what    *)
(* the clients hear of each other, for every number of clients and bots.   *)
(***************************************************************************)
EXTENDS MCRoom, SequenceTheorems, FiniteSetTheorems, WellFoundedInduction, TLAPS

-----------------------------------------------------------------------------
(* Requests to the master server.                                          *)

\* The requests of those who are here
PlayersOK ==
  players \in [Players -> Master!Player \cup {Master!Absent}]

\* The request id is the one of p that `asked` remembers.
Asked(p, id) ==
  /\ id \in Master!Ids /\ id < nextauthreq
  /\ asked[id].player = {p}

\* name is what was given with the request id, or a new map has erased it.
Named(name, id) == name = asked[id].name \/ asked[id].changed

\* Every request that waits for its answer was made by the one who waits.
RequestsOK ==
  \A p \in Players :
    players[p] # Master!Absent /\ players[p].authreq # 0 =>
      /\ Asked(p, players[p].authreq)
      /\ Named(players[p].authname, players[p].authreq)

ClaimOK ==
  claim # Master!NoClaim =>
    /\ Asked(claim.player, claim.id)
    /\ Named(claim.name, claim.id)

\* No line is cut: what the other end has begun is the line that is being sent.
StreamOK ==
  /\ sock \in BOOLEAN
  /\ out \in Seq(Master!Lines)
  /\ pos \in Nat /\ (IF out = <<>> THEN pos = 0 ELSE pos < 2 * Len(out))
  /\ master.begun = IF pos % 2 = 1 THEN out[pos \div 2 + 1] ELSE <<>>
  /\ ~sock => out = <<>>

EndOK ==
  /\ master = [begun |-> master.begun, heard |-> master.heard, said |-> master.said]
  /\ master.heard \subseteq Master!Lines
  /\ master.said \in Seq(Master!Answers)

Questions == [player: SUBSET Players, name: Names \cup {""}, changed: BOOLEAN]

AskedOK ==
  /\ nextauthreq \in 0 .. MaxIds + 1
  /\ asked \in [Master!Ids -> Questions]

\* The inductive invariant
AInv == PlayersOK /\ RequestsOK /\ ClaimOK /\ StreamOK /\ EndOK /\ AskedOK

-----------------------------------------------------------------------------
(* Records and numbers.                                                    *)

LEMMA NumbersAre ==
  ASSUME AskedOK
  PROVE  /\ MaxIds \in Nat /\ Master!Ids = 1 .. MaxIds
         /\ nextauthreq \in Nat /\ nextauthreq <= MaxIds + 1
<1>1. MaxIds \in Nat /\ nextauthreq \in 0 .. MaxIds + 1
  BY RequestAssumption DEF AskedOK
<1>2. nextauthreq \in Nat /\ nextauthreq <= MaxIds + 1
  BY <1>1
<1>3. Master!Ids = 1 .. MaxIds
  BY DEF Master!Ids
<1> QED BY <1>1, <1>2, <1>3

LEMMA Absence ==
  \A r \in Master!Player : r # Master!Absent
<1> SUFFICES ASSUME NEW r \in Master!Player, r = Master!Absent PROVE FALSE
  OBVIOUS
<1>1. DOMAIN r = {"authreq", "authname"}
  BY DEF Master!Player
<1>2. DOMAIN Master!Absent = {"authreq", "authname", "absent"}
  BY DEF Master!Absent
<1> QED BY <1>1, <1>2

LEMMA PlayerIs ==
  ASSUME NEW id \in 0 .. MaxIds, NEW name \in Names \cup {""}
  PROVE  /\ [authreq |-> id, authname |-> name] \in Master!Player
         /\ [authreq |-> id, authname |-> name].authreq = id
         /\ [authreq |-> id, authname |-> name].authname = name
BY DEF Master!Player

LEMMA LineIs ==
  \A line \in Master!Lines : line[1] # "regserv" => line[2] \in Master!Ids
<1> SUFFICES ASSUME NEW line \in Master!Lines, line[1] # "regserv"
             PROVE  line[2] \in Master!Ids
  OBVIOUS
<1>1. ASSUME NEW A, NEW B, NEW C, NEW t \in A \X B \X C PROVE t[2] \in B
  OBVIOUS
<1>2. line # <<"regserv", 0, "">>
  <2>1. \A a, b, c : <<a, b, c>>[1] = a
    OBVIOUS
  <2>2. <<"regserv", 0, "">>[1] = "regserv"
    BY <2>1, Zenon
  <2> QED BY <2>2, Zenon
<1>3. \/ line \in {"reqauth"} \X Master!Ids \X Names
      \/ line \in {"confauth"} \X Master!Ids \X {""}
  BY <1>2, ZenonT(30) DEF Master!Lines
<1> QED BY <1>1, <1>3, ZenonT(30)

LEMMA HalfLines ==
  ASSUME NEW p \in Nat
  PROVE  /\ p % 2 = 0 => (p + 1) % 2 = 1 /\ (p + 1) \div 2 = p \div 2
         /\ p % 2 = 1 => (p + 1) % 2 = 0
         /\ p % 2 \in {0, 1}
         /\ \A n \in Nat : p < 2 * n => p \div 2 + 1 \in 1 .. n
         /\ \A n \in Nat : p + 1 = 2 * n => p % 2 = 1
<1>1. p % 2 = 0 => (p + 1) % 2 = 1 /\ (p + 1) \div 2 = p \div 2
  OBVIOUS
<1>2. p % 2 = 1 => (p + 1) % 2 = 0
  OBVIOUS
<1>3. p % 2 \in {0, 1}
  OBVIOUS
<1>4. \A n \in Nat : p < 2 * n => p \div 2 + 1 \in 1 .. n
  OBVIOUS
<1>5. \A n \in Nat : p + 1 = 2 * n => p % 2 = 1
  OBVIOUS
<1> QED BY <1>1, <1>2, <1>3, <1>4, <1>5

-----------------------------------------------------------------------------
(* The connection.                                                         *)

Connection == StreamOK /\ EndOK

\* requestmaster()
LEMMA RequestKeeps ==
  ASSUME Connection, NEW line \in Master!Lines, Master!Request(line) \/ Master!NoRequestMade
  PROVE  Connection'
<1>1. CASE Master!Request(line)
  <2>1. sock' = TRUE /\ out' = Append(out, line) /\ UNCHANGED <<pos, master>>
    BY <1>1 DEF Master!Request
  <2>2. /\ out' \in Seq(Master!Lines) /\ Len(out') = Len(out) + 1 /\ out' # <<>>
        /\ \A i \in 1 .. Len(out) : out'[i] = out[i]
        /\ Len(out) \in Nat
    BY <2>1, AppendProperties, LenProperties DEF Connection, StreamOK
  <2>3. pos' \in Nat /\ pos' < 2 * Len(out')
    <3>1. pos <= 2 * Len(out)
      BY <2>2, EmptySeq DEF Connection, StreamOK
    <3> QED BY <2>1, <2>2, <3>1 DEF Connection, StreamOK
  <2>4. pos % 2 = 1 => out'[pos \div 2 + 1] = out[pos \div 2 + 1]
    <3>1. pos % 2 = 1 => pos < 2 * Len(out)
      BY DEF Connection, StreamOK
    <3> QED BY <2>2, <3>1, HalfLines DEF Connection, StreamOK
  <2>5. StreamOK'
    BY <2>1, <2>2, <2>3, <2>4 DEF Connection, StreamOK
  <2> QED BY <2>1, <2>5 DEF Connection, EndOK
<1>2. CASE Master!NoRequestMade
  BY <1>2 DEF Master!NoRequestMade, Connection, StreamOK, EndOK
<1> QED BY <1>1, <1>2

LEMMA DisconnectKeeps == Master!DisconnectMaster => Connection'
<1> SUFFICES ASSUME Master!DisconnectMaster PROVE Connection'
  OBVIOUS
<1>1. <<>> \in Seq(Master!Lines) /\ <<>> \in Seq(Master!Answers)
  OBVIOUS
<1>2. 0 \in Nat /\ 0 % 2 # 1
  OBVIOUS
<1>3. sock' = FALSE /\ out' = <<>> /\ pos' = 0
      /\ master' = [begun |-> <<>>, heard |-> {}, said |-> <<>>]
  BY DEF Master!DisconnectMaster, Master!Deaf
<1>4. StreamOK'
  BY <1>1, <1>2, <1>3 DEF StreamOK
<1>5. EndOK'
  BY <1>1, <1>3 DEF EndOK
<1> QED BY <1>4, <1>5 DEF Connection

\* flushmasteroutput(): the halves of a line arrive one after the other.
LEMMA FlushKeeps == ASSUME Connection, Master!FlushMasterOutput PROVE Connection'
<1> DEFINE line == out[pos \div 2 + 1]
<1>1. /\ out # <<>> /\ master' = Master!Heard(master, pos) /\ sock' = sock /\ sock
      /\ IF pos + 1 = 2 * Len(out) THEN out' = <<>> /\ pos' = 0
         ELSE pos' = pos + 1 /\ out' = out
  BY DEF Master!FlushMasterOutput, Connection, StreamOK
<1>2. /\ Len(out) \in Nat /\ pos \in Nat /\ pos < 2 * Len(out) /\ out \in Seq(Master!Lines)
      /\ sock \in BOOLEAN
  BY <1>1, LenProperties DEF Connection, StreamOK
<1>3. line \in Master!Lines
  BY <1>2, HalfLines, ElementOfSeq
<1>4. <<>> \in Seq(Master!Lines) /\ 0 \in Nat /\ 0 % 2 # 1
  OBVIOUS
<1>5. CASE pos % 2 = 0
  <2>1. master' = [master EXCEPT !.begun = line]
    BY <1>1, <1>5 DEF Master!Heard
  <2>2. /\ master'.begun = line /\ master'.heard = master.heard /\ master'.said = master.said
        /\ master' = [begun |-> line, heard |-> master.heard, said |-> master.said]
    BY <2>1 DEF Connection, EndOK
  <2>3. pos + 1 # 2 * Len(out)
    <3>1. pos \in Nat /\ Len(out) \in Nat
      BY <1>2
    <3> QED BY SMTT(30), <1>5, <3>1, HalfLines
  <2>4. out' = out /\ pos' = pos + 1 /\ pos' \in Nat /\ pos' < 2 * Len(out)
    BY <1>1, <1>2, <2>3
  <2>5. pos' % 2 = 1 /\ pos' \div 2 = pos \div 2
    BY <1>2, <1>5, <2>4, HalfLines
  <2>6. StreamOK'
    BY <1>1, <1>2, <2>2, <2>4, <2>5 DEF StreamOK
  <2>7. EndOK'
    BY <2>2 DEF Connection, EndOK
  <2> QED BY <2>6, <2>7 DEF Connection
<1>6. CASE pos % 2 = 1
  <2>1. master.begun = line
    BY <1>6 DEF Connection, StreamOK
  <2>2. master' = [master EXCEPT !.begun = <<>>, !.heard = master.heard \cup {line}]
    BY <1>1, <1>6, <2>1 DEF Master!Heard
  <2> HIDE DEF line
  <2>3. /\ master'.begun = <<>> /\ master'.heard = master.heard \cup {line}
        /\ master'.said = master.said
        /\ master' = [begun |-> <<>>, heard |-> master.heard \cup {line}, said |-> master.said]
    BY <2>2 DEF Connection, EndOK
  <2>4. EndOK'
    BY <1>3, <2>3 DEF Connection, EndOK
  <2>5. CASE pos + 1 = 2 * Len(out)
    BY <1>1, <1>2, <1>4, <2>3, <2>4, <2>5 DEF Connection, StreamOK
  <2>6. CASE pos + 1 # 2 * Len(out)
    <3>1. out' = out /\ pos' = pos + 1 /\ pos' \in Nat /\ pos' < 2 * Len(out)
      BY <1>1, <1>2, <2>6
    <3>2. pos' % 2 = 0
      BY <1>2, <1>6, <3>1, HalfLines
    <3>3. StreamOK'
      BY <1>1, <1>2, <2>3, <3>1, <3>2 DEF StreamOK
    <3> QED BY <2>4, <3>3 DEF Connection
  <2> QED BY <2>5, <2>6
<1> QED BY <1>2, <1>5, <1>6, HalfLines

\* The master server answers with the number it was asked about.
LEMMA AnswersKeep == ASSUME Connection, Master!MasterAnswers PROVE Connection'
<1>1. PICK line \in master.heard, ok \in BOOLEAN :
        LET rest == [master EXCEPT !.heard = @ \ {line}] IN
        master' = IF line[1] = "regserv" THEN rest
                  ELSE [rest EXCEPT !.said = Append(@,
                         <<IF ~ok THEN "failauth" ELSE IF line[1] = "reqauth" THEN "chalauth"
                           ELSE "succauth", line[2]>>)]
  BY DEF Master!MasterAnswers
<1> DEFINE word == IF ~ok THEN "failauth" ELSE IF line[1] = "reqauth" THEN "chalauth"
                   ELSE "succauth"
           answer == <<word, line[2]>>
           left == master.heard \ {line}
           more == Append(master.said, answer)
<1>2. /\ master = [begun |-> master.begun, heard |-> master.heard, said |-> master.said]
      /\ master.heard \subseteq Master!Lines /\ master.said \in Seq(Master!Answers)
  BY DEF Connection, EndOK
<1>3. UNCHANGED <<sock, out, pos>>
  BY DEF Master!MasterAnswers
<1>4. master' = [begun |-> master.begun, heard |-> left,
                 said |-> IF line[1] = "regserv" THEN master.said ELSE more]
  <2>1. CASE line[1] = "regserv"
    BY <1>1, <1>2, <2>1
  <2>2. CASE line[1] # "regserv"
    <3>1. master' = [[master EXCEPT !.heard = left] EXCEPT !.said = more]
      BY <1>1, <1>2, <2>2
    <3> HIDE DEF left, more
    <3> QED BY <1>2, <2>2, <3>1
  <2> QED BY <2>1, <2>2
<1>5. line[1] # "regserv" => answer \in Master!Answers
  <2>1. word \in {"failauth", "succauth", "chalauth"}
    OBVIOUS
  <2>2. line \in Master!Lines
    BY <1>2
  <2>3. line[1] # "regserv" => line[2] \in Master!Ids
    BY <2>2, LineIs
  <2> QED BY <2>1, <2>3 DEF Master!Answers
<1> HIDE DEF answer
<1>6. line[1] # "regserv" => more \in Seq(Master!Answers)
  BY <1>2, <1>5, AppendProperties
<1> HIDE DEF left, more
<1>7. /\ master'.begun = master.begun /\ master'.heard = left
      /\ master'.said = IF line[1] = "regserv" THEN master.said ELSE more
  BY <1>4
<1>8. StreamOK'
  BY <1>3, <1>7 DEF Connection, StreamOK
<1>9. EndOK'
  <2>1. master' = [begun |-> master'.begun, heard |-> master'.heard, said |-> master'.said]
    BY <1>4, <1>7
  <2>2. master'.heard \subseteq Master!Lines
    BY <1>2, <1>7 DEF left
  <2>3. master'.said \in Seq(Master!Answers)
    BY <1>2, <1>6, <1>7
  <2> QED BY <2>1, <2>2, <2>3 DEF EndOK
<1> QED BY <1>8, <1>9 DEF Connection

-----------------------------------------------------------------------------
(* Who has asked.                                                          *)

Requests == PlayersOK /\ RequestsOK /\ ClaimOK /\ AskedOK

LEMMA NobodyAsks ==
  ASSUME Requests, UNCHANGED <<players, nextauthreq, asked, claim>>
  PROVE  Requests'
<1>1. PlayersOK' /\ AskedOK'
  BY DEF Requests, PlayersOK, AskedOK
<1>2. RequestsOK' /\ ClaimOK'
  BY DEF Requests, RequestsOK, ClaimOK, Asked, Named
<1> QED BY <1>1, <1>2 DEF Requests

\* A player may forget a request, and no other changes.
LEMMA ForgetKeeps ==
  ASSUME Requests, PlayersOK', UNCHANGED <<nextauthreq, asked>>, ClaimOK',
         \A p \in Players :
           \/ players'[p] = players[p]
           \/ players'[p] = Master!Absent
           \/ players'[p].authreq = 0
  PROVE  Requests'
<1>1. AskedOK'
  BY DEF Requests, AskedOK
<1>2. RequestsOK'
  BY DEF Requests, RequestsOK, Asked, Named
<1> QED BY <1>1, <1>2 DEF Requests

LEMMA ConnectKeeps ==
  ASSUME Requests, NEW p \in Players, Master!Connect(p)
  PROVE  Requests'
<1>1. players' = [players EXCEPT ![p] = Master!Fresh] /\ UNCHANGED <<nextauthreq, asked, claim>>
  BY DEF Master!Connect
<1>2. Master!Fresh \in Master!Player /\ Master!Fresh.authreq = 0
  <2>1. 0 \in 0 .. MaxIds
    BY RequestAssumption
  <2> QED BY <2>1 DEF Master!Fresh, Master!Player
<1>3. PlayersOK'
  BY <1>1, <1>2 DEF Requests, PlayersOK
<1>4. ClaimOK'
  BY <1>1 DEF Requests, ClaimOK, Asked, Named
<1>5. \A q \in Players : players'[q] = players[q] \/ players'[q].authreq = 0
  BY <1>1, <1>2 DEF Requests, PlayersOK
<1> QED BY <1>1, <1>3, <1>4, <1>5, ForgetKeeps

\* Requests of the one who leaves are nobody's from now on.
LEMMA LeaveKeeps ==
  ASSUME Requests, NEW p \in Players, Master!Leave(p)
  PROVE  Requests'
<1>1. /\ players' = [players EXCEPT ![p] = Master!Absent]
      /\ asked' = [id \in Master!Ids |-> IF asked[id].player = {p} THEN Master!NoRequest
                                         ELSE asked[id]]
      /\ claim' = IF claim # Master!NoClaim /\ claim.player = p THEN Master!NoClaim ELSE claim
      /\ nextauthreq' = nextauthreq
  BY DEF Master!Leave
<1>2. PlayersOK'
  BY <1>1 DEF Requests, PlayersOK
<1>3. AskedOK'
  <2>1. Master!NoRequest \in Questions
    BY DEF Master!NoRequest, Questions
  <2> QED BY <1>1, <2>1 DEF Requests, AskedOK
<1>4. ASSUME NEW q, q # p, NEW id, Asked(q, id) PROVE asked'[id] = asked[id] /\ Asked(q, id)'
  <2>1. asked[id].player # {p}
    BY <1>4 DEF Asked
  <2> QED BY <1>1, <1>4, <2>1 DEF Asked
<1>5. RequestsOK'
  <2> SUFFICES ASSUME NEW q \in Players, players'[q] # Master!Absent, players'[q].authreq # 0
               PROVE  (Asked(q, players[q].authreq) /\ Named(players[q].authname, players[q].authreq))'
    BY DEF RequestsOK
  <2>1. q # p /\ players'[q] = players[q]
    BY <1>1 DEF Requests, PlayersOK
  <2>2. Asked(q, players[q].authreq) /\ Named(players[q].authname, players[q].authreq)
    BY <2>1 DEF Requests, RequestsOK
  <2>3. PICK id : id = players[q].authreq
    OBVIOUS
  <2>4. asked'[id] = asked[id] /\ Asked(q, id)'
    BY <1>4, <2>1, <2>2, <2>3
  <2> QED BY <2>1, <2>2, <2>3, <2>4 DEF Named, Asked
<1>6. ClaimOK'
  <2> SUFFICES ASSUME claim' # Master!NoClaim
               PROVE  (Asked(claim.player, claim.id) /\ Named(claim.name, claim.id))'
    BY DEF ClaimOK
  <2>1. claim' = claim /\ claim.player # p /\ claim # Master!NoClaim
    BY <1>1
  <2>2. Asked(claim.player, claim.id) /\ Named(claim.name, claim.id)
    BY <2>1 DEF Requests, ClaimOK
  <2> QED BY <1>4, <2>1, <2>2 DEF Named, Asked
<1> QED BY <1>2, <1>3, <1>5, <1>6 DEF Requests

\* A new map erases names and not requests.
LEMMA NewMapKeeps == ASSUME Requests, Master!MapChange PROVE Requests'
<1>1. /\ players' = [p \in Players |-> IF players[p] # Master!Absent
                                       THEN [players[p] EXCEPT !.authname = ""]
                                       ELSE Master!Absent]
      /\ asked' = [id \in Master!Ids |-> IF asked[id] = Master!NoRequest THEN Master!NoRequest
                                         ELSE [asked[id] EXCEPT !.changed = TRUE]]
      /\ claim' = claim /\ nextauthreq' = nextauthreq
  BY DEF Master!MapChange, Master!Here
<1>2. ASSUME NEW p \in Players, players[p] # Master!Absent
      PROVE  /\ players'[p] \in Master!Player
             /\ players'[p].authreq = players[p].authreq
  <2>1. players[p] \in Master!Player
    BY <1>2 DEF Requests, PlayersOK
  <2>2. players'[p] = [players[p] EXCEPT !.authname = ""]
    BY <1>1, <1>2
  <2> QED BY <2>1, <2>2 DEF Master!Player
<1>3. PlayersOK'
  <2>1. \A p \in Players : players'[p] \in Master!Player \cup {Master!Absent}
    BY <1>1, <1>2
  <2> QED BY <1>1, <2>1 DEF PlayersOK
<1>4. ASSUME NEW id \in Master!Ids
      PROVE  /\ asked'[id] \in Questions
             /\ asked'[id].player = asked[id].player
             /\ asked[id] # Master!NoRequest => asked'[id].changed
  <2>1. asked[id] \in Questions
    BY DEF Requests, AskedOK
  <2>2. CASE asked[id] = Master!NoRequest
    BY <1>1, <2>1, <2>2
  <2>3. CASE asked[id] # Master!NoRequest
    <3>1. asked'[id] = [asked[id] EXCEPT !.changed = TRUE]
      BY <1>1, <2>3
    <3> QED BY <2>1, <3>1 DEF Questions
  <2> QED BY <2>2, <2>3
<1>5. AskedOK'
  BY <1>1, <1>4 DEF Requests, AskedOK
<1>6. ASSUME NEW p, NEW id, Asked(p, id) PROVE Asked(p, id)' /\ asked'[id].changed
  <2>1. asked[id] # Master!NoRequest
    <3>1. Master!NoRequest.player = {} /\ asked[id].player = {p}
      BY <1>6 DEF Asked, Master!NoRequest
    <3> QED BY <3>1
  <2> QED BY <1>1, <1>4, <1>6, <2>1 DEF Asked
<1>7. RequestsOK'
  <2> SUFFICES ASSUME NEW q \in Players, players'[q] # Master!Absent, players'[q].authreq # 0
               PROVE  (Asked(q, players[q].authreq) /\ Named(players[q].authname, players[q].authreq))'
    BY DEF RequestsOK
  <2>1. players[q] # Master!Absent
    BY <1>1
  <2>2. players'[q].authreq = players[q].authreq
    BY <1>2, <2>1
  <2>3. Asked(q, players[q].authreq)
    BY <2>1, <2>2 DEF Requests, RequestsOK
  <2> QED BY <1>6, <2>2, <2>3 DEF Named, Asked
<1>8. ClaimOK'
  BY <1>1, <1>6 DEF Requests, ClaimOK, Asked, Named
<1> QED BY <1>3, <1>5, <1>7, <1>8 DEF Requests

LEMMA LinesAre ==
  /\ <<"regserv", 0, "">> \in Master!Lines
  /\ \A id \in Master!Ids :
       /\ <<"confauth", id, "">> \in Master!Lines
       /\ \A name \in Names : <<"reqauth", id, name>> \in Master!Lines
<1>1. ASSUME NEW A, NEW B, NEW C, NEW a \in A, NEW b \in B, NEW c \in C
      PROVE  <<a, b, c>> \in A \X B \X C
  OBVIOUS
<1>2. "reqauth" \in {"reqauth"} /\ "confauth" \in {"confauth"} /\ "" \in {""}
  OBVIOUS
<1>3. \A id \in Master!Ids :
        /\ <<"confauth", id, "">> \in {"confauth"} \X Master!Ids \X {""}
        /\ \A name \in Names : <<"reqauth", id, name>> \in {"reqauth"} \X Master!Ids \X Names
  BY <1>1, <1>2, ZenonT(30)
<1> QED BY <1>3, ZenonT(30) DEF Master!Lines

\* A request of p under a new number does not touch the requests of others.
LEMMA NewRequestKeeps ==
  ASSUME Requests, NEW p \in Players, NEW name \in Names, NEW id \in Master!Ids,
         id = Master!NextAuthReq(nextauthreq), nextauthreq' = id + 1, claim' = claim,
         players' = [players EXCEPT ![p] = [authreq |-> id, authname |-> name]],
         asked' = [asked EXCEPT ![id] = [player |-> {p}, name |-> name, changed |-> FALSE]]
  PROVE  Requests'
<1> DEFINE mine == [authreq |-> id, authname |-> name]
           request == [player |-> {p}, name |-> name, changed |-> FALSE]
<1>1. /\ id \in Nat /\ id \in 1 .. MaxIds /\ id \in 0 .. MaxIds /\ nextauthreq \in Nat
      /\ nextauthreq' \in 0 .. MaxIds + 1
      /\ \A i \in Nat : i < nextauthreq => i # id /\ i < nextauthreq'
  <2>1. MaxIds \in Nat /\ Master!Ids = 1 .. MaxIds /\ nextauthreq \in Nat
    BY NumbersAre DEF Requests
  <2>2. id = IF nextauthreq = 0 THEN 1 ELSE nextauthreq
    BY DEF Master!NextAuthReq
  <2> QED BY <2>1, <2>2
<1>2. mine \in Master!Player /\ mine.authreq = id /\ mine.authname = name
  BY <1>1, PlayerIs
<1>3. /\ request \in Questions
      /\ request.player = {p} /\ request.name = name
  BY DEF Questions
<1>4. players' = [players EXCEPT ![p] = mine] /\ asked' = [asked EXCEPT ![id] = request]
  OBVIOUS
<1> HIDE DEF mine, request
<1>5. PlayersOK' /\ players'[p] = mine
  BY <1>2, <1>4 DEF Requests, PlayersOK
<1>6. AskedOK' /\ asked'[id] = request
  BY <1>1, <1>3, <1>4 DEF Requests, AskedOK
<1>7. ASSUME NEW q, NEW i, Asked(q, i) PROVE Asked(q, i)' /\ asked'[i] = asked[i]
  <2>1. i \in Nat /\ i # id /\ i < nextauthreq'
    BY <1>1, <1>7, NumbersAre DEF Asked, Requests
  <2> QED BY <1>4, <1>7, <2>1 DEF Asked, Requests, AskedOK
<1>8. Asked(p, id)' /\ Named(name, id)'
  <2>1. id < nextauthreq'
    BY <1>1
  <2>2. asked'[id].player = {p} /\ asked'[id].name = name
    BY <1>3, <1>6
  <2> QED BY <2>1, <2>2 DEF Asked, Named
<1>9. RequestsOK'
  <2> SUFFICES ASSUME NEW q \in Players, players'[q] # Master!Absent, players'[q].authreq # 0
               PROVE  (Asked(q, players[q].authreq) /\ Named(players[q].authname, players[q].authreq))'
    BY DEF RequestsOK
  <2>1. CASE q = p
    BY <1>2, <1>5, <1>8, <2>1 DEF Asked, Named
  <2>2. CASE q # p
    <3>1. players'[q] = players[q]
      BY <1>4, <2>2 DEF Requests, PlayersOK
    <3>2. Asked(q, players[q].authreq) /\ Named(players[q].authname, players[q].authreq)
      BY <3>1 DEF Requests, RequestsOK
    <3>3. PICK i : i = players[q].authreq
      OBVIOUS
    <3>4. asked'[i] = asked[i] /\ Asked(q, i)'
      BY <1>7, <3>2, <3>3
    <3> QED BY <3>1, <3>2, <3>3, <3>4 DEF Named, Asked
  <2> QED BY <2>1, <2>2
<1>10. ClaimOK'
  <2> SUFFICES ASSUME claim # Master!NoClaim
               PROVE  (Asked(claim.player, claim.id) /\ Named(claim.name, claim.id))'
    BY DEF ClaimOK
  <2>1. Asked(claim.player, claim.id) /\ Named(claim.name, claim.id)
    BY DEF Requests, ClaimOK
  <2>2. PICK q, i : q = claim.player /\ i = claim.id
    OBVIOUS
  <2>3. asked'[i] = asked[i] /\ Asked(q, i)'
    BY <1>7, <2>1, <2>2
  <2> QED BY <2>1, <2>2, <2>3 DEF Named, Asked
<1> QED BY <1>5, <1>6, <1>9, <1>10 DEF Requests

\* tryauth()
LEMMA TryAuthKeeps ==
  ASSUME AInv, NEW p \in Players, NEW name \in Names, Master!TryAuth(p, name)
  PROVE  AInv'
<1> DEFINE id == Master!NextAuthReq(nextauthreq)
<1>0. Requests /\ Connection
  BY DEF AInv, Requests, Connection
<1>1. id <= MaxIds /\ nextauthreq' = id + 1 /\ claim' = claim
  BY DEF Master!TryAuth
<1>2. MaxIds \in Nat /\ Master!Ids = 1 .. MaxIds /\ nextauthreq \in Nat
  BY <1>0, NumbersAre DEF Requests
<1>3. id = IF nextauthreq = 0 THEN 1 ELSE nextauthreq
  BY DEF Master!NextAuthReq
<1>4. id \in Master!Ids /\ nextauthreq < id + 1 /\ id + 1 \in 0 .. MaxIds + 1
  BY <1>1, <1>2, <1>3
<1>5. CASE /\ Master!Request(<<"reqauth", id, name>>)
           /\ players' = [players EXCEPT ![p] = [authreq |-> id, authname |-> name]]
           /\ asked' = [asked EXCEPT ![id] = [player |-> {p}, name |-> name, changed |-> FALSE]]
  <2>1. <<"reqauth", id, name>> \in Master!Lines
    BY <1>4, LinesAre
  <2>2. Connection'
    BY <1>0, <1>5, <2>1, RequestKeeps
  <2>3. PICK i : i = id
    OBVIOUS
  <2>4. Requests'
    <3> HIDE DEF id
    <3>1. i = Master!NextAuthReq(nextauthreq)
      BY <2>3 DEF id
    <3> QED BY <1>0, <1>1, <1>4, <1>5, <2>3, <3>1, NewRequestKeeps
  <2> QED BY <2>2, <2>4 DEF AInv, Requests, Connection
<1>6. CASE /\ Master!NoRequestMade
           /\ players' = [players EXCEPT ![p] = [authreq |-> 0, authname |-> name]]
           /\ UNCHANGED asked
  <2> DEFINE mine == [authreq |-> 0, authname |-> name]
  <2>1. Connection'
    <3>1. <<"regserv", 0, "">> \in Master!Lines
      BY LinesAre
    <3> QED BY <1>0, <1>6, <3>1, RequestKeeps
  <2>2. mine \in Master!Player /\ mine.authreq = 0
    <3>1. 0 \in 0 .. MaxIds
      BY <1>2
    <3>2. name \in Names \cup {""}
      OBVIOUS
    <3> QED BY <3>1, <3>2, PlayerIs
  <2> HIDE DEF mine, id
  <2>3. players' = [players EXCEPT ![p] = mine]
    BY <1>6 DEF mine
  <2>4. PlayersOK'
    BY <1>0, <2>2, <2>3 DEF Requests, PlayersOK
  <2>5. AskedOK'
    BY <1>0, <1>1, <1>4, <1>6 DEF Requests, AskedOK
  <2>6. \A q, i : Asked(q, i) => Asked(q, i)'
    BY <1>1, <1>2, <1>4, <1>6 DEF Asked
  <2>7. \A q \in Players : players'[q] = players[q] \/ players'[q].authreq = 0
    BY <1>0, <2>2, <2>3 DEF Requests, PlayersOK
  <2>8. RequestsOK' /\ ClaimOK'
    <3>1. RequestsOK
      BY <1>0 DEF Requests
    <3>2. ASSUME NEW q \in Players, players'[q] # Master!Absent, players'[q].authreq # 0
          PROVE  (Asked(q, players[q].authreq) /\ Named(players[q].authname, players[q].authreq))'
      <4>1. players'[q] = players[q]
        BY <2>7, <3>2
      <4> QED BY <1>6, <2>6, <3>1, <3>2, <4>1 DEF RequestsOK, Named
    <3>3. RequestsOK'
      BY <3>2 DEF RequestsOK
    <3>4. ClaimOK'
      BY <1>0, <1>1, <1>6, <2>6 DEF Requests, ClaimOK, Named
    <3> QED BY <3>3, <3>4
  <2> QED BY <2>1, <2>4, <2>5, <2>8 DEF AInv, Connection
<1> QED BY <1>5, <1>6 DEF Master!TryAuth

\* answerchallenge()
LEMMA AnswerChallengeKeeps ==
  ASSUME AInv, NEW p \in Players, NEW id \in Master!Ids, Master!AnswerChallenge(p, id)
  PROVE  AInv'
<1>0. Requests /\ Connection
  BY DEF AInv, Requests, Connection
<1>1. /\ players[p] # Master!Absent /\ UNCHANGED <<nextauthreq, asked, claim>>
      /\ \/ Master!Request(<<"confauth", id, "">>) /\ UNCHANGED players
         \/ Master!NoRequestMade /\ players' = [players EXCEPT ![p].authreq = 0]
  BY DEF Master!AnswerChallenge, Master!Here
<1>2. Connection'
  <2>1. <<"confauth", id, "">> \in Master!Lines
    BY LinesAre
  <2> QED BY <1>0, <1>1, <2>1, RequestKeeps
<1>3. Requests'
  <2>1. CASE players' = players
    BY <1>0, <1>1, <2>1, NobodyAsks
  <2>2. CASE players' = [players EXCEPT ![p].authreq = 0]
    <3>1. /\ players'[p] \in Master!Player /\ players'[p].authreq = 0
      <4>0. 0 \in 0 .. MaxIds
        BY RequestAssumption
      <4>1. players[p] \in Master!Player
        BY <1>0, <1>1 DEF Requests, PlayersOK
      <4>2. players'[p] = [players[p] EXCEPT !.authreq = 0]
        BY <1>0, <2>2 DEF Requests, PlayersOK
      <4> QED BY <4>0, <4>1, <4>2 DEF Master!Player
    <3>2. \A q \in Players : q # p => players'[q] = players[q]
      BY <1>0, <2>2 DEF Requests, PlayersOK
    <3>3. PlayersOK'
      <4>1. \A q \in Players : players'[q] \in Master!Player \cup {Master!Absent}
        BY <1>0, <3>1, <3>2 DEF Requests, PlayersOK
      <4>2. players' = [q \in Players |-> players'[q]]
        BY <1>0, <2>2 DEF Requests, PlayersOK
      <4> QED BY <4>1, <4>2 DEF PlayersOK
    <3>4. ClaimOK'
      BY <1>0, <1>1 DEF Requests, ClaimOK, Asked, Named
    <3> QED BY <1>0, <1>1, <3>1, <3>2, <3>3, <3>4, ForgetKeeps
  <2> QED BY <1>1, <2>1, <2>2
<1> QED BY <1>2, <1>3 DEF AInv, Requests, Connection

\* processmasterinput(): whoever the answer is for, it ends his request, and a
\* claim that succeeds is for him who made it.
LEMMA ProcessInputKeeps ==
  ASSUME AInv, Master!ProcessMasterInput
  PROVE  AInv'
<1> DEFINE answer == Head(master.said)
           found == IF answer[1] = "chalauth" THEN {} ELSE Master!FindAuth(answer[2])
           rest == Tail(master.said)
<1>0. Requests /\ Connection
  BY DEF AInv, Requests, Connection
<1>1. /\ master.said # <<>> /\ master' = [master EXCEPT !.said = rest]
      /\ players' = [p \in Players |-> IF p \in found THEN [players[p] EXCEPT !.authreq = 0]
                                       ELSE players[p]]
      /\ claim' = IF answer[1] = "failauth" \/ found = {} THEN claim
                  ELSE LET p == CHOOSE p \in found : TRUE IN
                       [id |-> answer[2], player |-> p, name |-> players[p].authname]
      /\ UNCHANGED <<nextauthreq, sock, out, pos, asked>>
  BY DEF Master!ProcessMasterInput
<1>2. /\ master = [begun |-> master.begun, heard |-> master.heard, said |-> master.said]
      /\ master.heard \subseteq Master!Lines /\ master.said \in Seq(Master!Answers)
  BY <1>0 DEF Connection, EndOK
<1>3. answer \in Master!Answers /\ rest \in Seq(Master!Answers)
  BY <1>1, <1>2, HeadTailProperties
<1>4. answer[2] \in Master!Ids
  <2>1. ASSUME NEW A, NEW B, NEW t \in A \X B PROVE t[2] \in B
    OBVIOUS
  <2> QED BY <1>3, <2>1, Zenon DEF Master!Answers
<1>5. Connection'
  <2> HIDE DEF rest
  <2>1. master' = [begun |-> master.begun, heard |-> master.heard, said |-> rest]
    BY <1>1, <1>2
  <2>2. master'.begun = master.begun /\ master'.heard = master.heard /\ master'.said = rest
    BY <2>1
  <2>3. EndOK'
    BY <1>2, <1>3, <2>1, <2>2 DEF EndOK
  <2>4. StreamOK'
    BY <1>0, <1>1, <2>2 DEF Connection, StreamOK
  <2> QED BY <2>3, <2>4 DEF Connection
<1>6. PICK id : id = answer[2]
  OBVIOUS
<1>7. \A p \in found : /\ p \in Players /\ players[p] # Master!Absent /\ players[p].authreq = id
                       /\ players[p] \in Master!Player
  BY <1>0, <1>6 DEF Master!FindAuth, Master!Here, Requests, PlayersOK
<1>8. id \in Master!Ids /\ id # 0
  BY <1>4, <1>6 DEF Master!Ids
<1> HIDE DEF found, answer
<1>9. \A p \in found : Asked(p, id) /\ Named(players[p].authname, id)
  BY <1>0, <1>7, <1>8 DEF Requests, RequestsOK
<1>10. ClaimOK'
  <2>1. CASE answer[1] = "failauth" \/ found = {}
    <3>1. claim' = claim
      BY <1>1, <2>1
    <3> QED BY <1>0, <1>1, <3>1 DEF Requests, ClaimOK, Asked, Named
  <2>2. CASE ~(answer[1] = "failauth" \/ found = {})
    <3> DEFINE p == CHOOSE p \in found : TRUE
    <3>1. p \in found
      BY <2>2
    <3>2. claim' = [id |-> answer[2], player |-> p, name |-> players[p].authname]
      BY <1>1, <2>2
    <3> HIDE DEF p
    <3>3. claim'.id = id /\ claim'.player = p /\ claim'.name = players[p].authname
      BY <1>6, <3>2
    <3>4. Asked(p, id) /\ Named(players[p].authname, id)
      BY <1>9, <3>1
    <3> QED BY <1>1, <3>3, <3>4 DEF ClaimOK, Asked, Named
  <2> QED BY <2>1, <2>2
<1>11. PlayersOK' /\ \A p \in Players : players'[p] = players[p] \/ players'[p].authreq = 0
  <2>0. 0 \in 0 .. MaxIds
    BY RequestAssumption
  <2>1. \A p \in found : /\ players'[p] \in Master!Player /\ players'[p].authreq = 0
    <3> SUFFICES ASSUME NEW p \in found
                 PROVE  players'[p] \in Master!Player /\ players'[p].authreq = 0
      OBVIOUS
    <3>1. players'[p] = [players[p] EXCEPT !.authreq = 0] /\ players[p] \in Master!Player
      BY <1>1, <1>7
    <3> QED BY <2>0, <3>1 DEF Master!Player
  <2>2. \A p \in Players : p \notin found => players'[p] = players[p]
    BY <1>1
  <2>3. players' = [p \in Players |-> players'[p]]
    BY <1>1
  <2>4. \A p \in Players : players'[p] \in Master!Player \cup {Master!Absent}
    BY <1>0, <2>1, <2>2 DEF Requests, PlayersOK
  <2> QED BY <2>1, <2>2, <2>3, <2>4 DEF PlayersOK
<1>12. Requests'
  BY <1>0, <1>1, <1>10, <1>11, ForgetKeeps
<1> QED BY <1>5, <1>12 DEF AInv, Requests, Connection

-----------------------------------------------------------------------------
(* The theorem.                                                            *)

LEMMA AInvInit == Master!Init => AInv
<1> SUFFICES ASSUME Master!Init PROVE AInv
  OBVIOUS
<1>1. <<>> \in Seq(Master!Lines) /\ <<>> \in Seq(Master!Answers)
  OBVIOUS
<1>2. 0 \in Nat /\ 0 % 2 # 1
  OBVIOUS
<1>3. 0 \in 0 .. MaxIds + 1
  BY RequestAssumption
<1>4. sock = FALSE /\ out = <<>> /\ pos = 0 /\ nextauthreq = 0
      /\ master = [begun |-> <<>>, heard |-> {}, said |-> <<>>]
      /\ players = [p \in Players |-> Master!Absent]
      /\ asked = [id \in Master!Ids |-> Master!NoRequest] /\ claim = Master!NoClaim
  BY DEF Master!Init, Master!Deaf
<1>5. StreamOK
  BY <1>1, <1>2, <1>4 DEF StreamOK
<1>6. EndOK
  BY <1>1, <1>4 DEF EndOK
<1>7. PlayersOK /\ RequestsOK /\ ClaimOK
  BY <1>4 DEF PlayersOK, RequestsOK, ClaimOK
<1>8. Master!NoRequest \in Questions
  BY DEF Master!NoRequest, Questions
<1>9. AskedOK
  BY <1>3, <1>4, <1>8 DEF AskedOK
<1> QED BY <1>5, <1>6, <1>7, <1>9 DEF AInv

LEMMA AInvNext == AInv /\ (Master!Next \/ UNCHANGED masterVars) => AInv'
<1> SUFFICES ASSUME AInv, Master!Next \/ UNCHANGED masterVars PROVE AInv'
  OBVIOUS
<1>0. Requests /\ Connection
  BY DEF AInv, Requests, Connection
<1>a. Requests' /\ Connection' => AInv'
  BY DEF AInv, Requests, Connection
<1>1. CASE Master!DisconnectMaster
  BY <1>a, <1>0, <1>1, DisconnectKeeps, NobodyAsks DEF Master!DisconnectMaster
<1>2. CASE Master!UpdateMaster
  <2>1. Connection'
    BY <1>a, <1>0, <1>2, LinesAre, RequestKeeps DEF Master!UpdateMaster
  <2> QED BY <1>a, <1>0, <1>2, <2>1, NobodyAsks DEF Master!UpdateMaster
<1>3. CASE Master!FlushMasterOutput
  BY <1>a, <1>0, <1>3, FlushKeeps, NobodyAsks DEF Master!FlushMasterOutput
<1>4. CASE Master!MasterAnswers
  BY <1>a, <1>0, <1>4, AnswersKeep, NobodyAsks DEF Master!MasterAnswers
<1>5. UNCHANGED <<sock, out, pos, master>> => Connection'
  BY <1>0 DEF Connection, StreamOK, EndOK
<1>6. ASSUME NEW p \in Players, Master!Connect(p) PROVE AInv'
  BY <1>a, <1>0, <1>5, <1>6, ConnectKeeps DEF Master!Connect
<1>7. ASSUME NEW p \in Players, Master!Leave(p) PROVE AInv'
  BY <1>a, <1>0, <1>5, <1>7, LeaveKeeps DEF Master!Leave
<1>8. CASE Master!MapChange
  BY <1>a, <1>0, <1>5, <1>8, NewMapKeeps DEF Master!MapChange
<1>9. ASSUME NEW p \in Players, NEW name \in Names, Master!TryAuth(p, name) PROVE AInv'
  BY <1>9, TryAuthKeeps
<1>10. ASSUME NEW p \in Players, NEW id \in Master!Ids, Master!AnswerChallenge(p, id)
       PROVE  AInv'
  BY <1>10, AnswerChallengeKeeps
<1>11. CASE Master!ProcessMasterInput
  BY <1>11, ProcessInputKeeps
<1>12. CASE UNCHANGED masterVars
  BY <1>a, <1>0, <1>5, <1>12, NobodyAsks DEF masterVars
<1> QED BY <1>1, <1>2, <1>3, <1>4, <1>6, <1>7, <1>8, <1>9, <1>10, <1>11, <1>12
        DEF Master!Next

LEMMA AInvFits == AInv => AuthFitsRequest
<1> SUFFICES ASSUME AInv PROVE Master!AuthFitsRequest
  BY DEF AuthFitsRequest
<1>1. Master!TypeOK
  <2>1. \A p \in Master!Here : players[p] \in Master!Player
    BY DEF AInv, PlayersOK, Master!Here
  <2>2. \A i \in DOMAIN out : out[i] \in Master!Lines
    BY LenProperties, ElementOfSeq DEF AInv, StreamOK
  <2>3. pos \in 0 .. 2 * Len(out)
    <3>1. Len(out) \in Nat /\ (out = <<>> => Len(out) = 0)
      BY LenProperties, EmptySeq DEF AInv, StreamOK
    <3> QED BY <3>1 DEF AInv, StreamOK
  <2>4. master.begun \in Master!Lines \cup {<<>>}
    <3>1. out = <<>> => pos = 0 /\ 0 % 2 # 1
      BY DEF AInv, StreamOK
    <3>2. Len(out) \in Nat
      BY LenProperties DEF AInv, StreamOK
    <3>3. pos % 2 = 1 => out[pos \div 2 + 1] \in Master!Lines
      <4> SUFFICES ASSUME pos % 2 = 1 PROVE out[pos \div 2 + 1] \in Master!Lines
        OBVIOUS
      <4>1. pos \in Nat /\ pos < 2 * Len(out) /\ out \in Seq(Master!Lines)
        BY <3>1 DEF AInv, StreamOK
      <4>2. pos \div 2 + 1 \in 1 .. Len(out)
        BY <3>2, <4>1, HalfLines
      <4> QED BY <4>1, <4>2, ElementOfSeq
    <3> QED BY <3>3 DEF AInv, StreamOK
  <2>5. \A i \in DOMAIN master.said : master.said[i] \in Master!Answers
    BY LenProperties, ElementOfSeq DEF AInv, EndOK
  <2>6. nextauthreq \in 0 .. MaxIds + 1 /\ sock \in BOOLEAN /\ master.heard \subseteq Master!Lines
    BY DEF AInv, AskedOK, StreamOK, EndOK
  <2> QED BY <2>1, <2>2, <2>3, <2>4, <2>5, <2>6 DEF Master!TypeOK
<1>2. claim # Master!NoClaim =>
        /\ asked[claim.id].player = {claim.player}
        /\ claim.name = asked[claim.id].name \/ asked[claim.id].changed
  BY DEF AInv, ClaimOK, Asked, Named
<1>3. sock => master.begun = IF pos % 2 = 1 THEN out[pos \div 2 + 1] ELSE <<>>
  BY DEF AInv, StreamOK
<1>4. ~sock => out = <<>>
  BY DEF AInv, StreamOK
<1> QED BY <1>1, <1>2, <1>3, <1>4 DEF Master!AuthFitsRequest

\* Whoever is let in by an answer of the master server is the one who asked,
\* under the name he gave, though client numbers pass from one to the next,
\* connections break and requests are superseded meanwhile.
THEOREM AuthIsOfRequest == RoomSpec => []AuthFitsRequest
<1>1. RoomInit => AInv
  BY AInvInit DEF RoomInit
<1>2. AInv /\ [RoomNext]_<<part, vars, worldVars, masterVars>> => AInv'
  <2> SUFFICES ASSUME AInv, [RoomNext]_<<part, vars, worldVars, masterVars>> PROVE AInv'
    OBVIOUS
  <2>1. Master!Next \/ UNCHANGED masterVars
    BY DEF RoomNext
  <2> QED BY <2>1, AInvNext
<1> QED BY <1>1, <1>2, AInvFits, PTL DEF RoomSpec

-----------------------------------------------------------------------------
(* World states: the loops of buildworldstate() as functions of how far     *)
(* they have come.                                                         *)

\* The last of some numbers, which a fold takes first
Top(s) == CHOOSE x \in s : \A y \in s : x >= y

\* g takes the bots of h one by one, the sets of their numbers for how far it is.
RoundsUp(acc, h, chan, g) ==
  g = [s \in SUBSET DOMAIN bots[h] |->
        IF s = {} THEN World!AddClientState(acc, h, chan)
        ELSE LET a == World!AddClientState(g[s \ {Top(s)}], bots[h][Top(s)], chan) IN
             [a EXCEPT !.part[h] = World!Joined(@, a.part[bots[h][Top(s)]])]]

LEMMA AddHumanIs ==
  ASSUME NEW acc, NEW h, NEW chan
  PROVE  World!AddHuman(acc, h, chan) = (CHOOSE g : RoundsUp(acc, h, chan, g))[DOMAIN bots[h]]
BY Zenon DEF World!AddHuman, World!FoldLeft, World!MapThenFoldSet, World!Max, RoundsUp, Top

\* g takes the clients one by one.
GathersUp(chan, g) ==
  g = [s \in SUBSET DOMAIN listeners |->
        IF s = {} THEN [buf |-> <<>>, part |-> [c \in World!Clients |-> World!NoPart]]
        ELSE World!AddHuman(g[s \ {Top(s)}], listeners[Top(s)], chan)]

LEMMA GatheredIs ==
  ASSUME NEW chan
  PROVE  World!Gathered(chan) = (CHOOSE g : GathersUp(chan, g))[DOMAIN listeners]
BY Zenon DEF World!Gathered, World!FoldLeft, World!MapThenFoldSet, World!Max, GathersUp, Top

LEMMA PendingIs ==
  World!Pending =
    (CHOOSE g : g = [s \in SUBSET World!Clients |->
       IF s = {} THEN 0
       ELSE g[s \ {CHOOSE x \in s : TRUE}] + said["positions"][CHOOSE x \in s : TRUE]
              + said["messages"][CHOOSE x \in s : TRUE]])[World!Clients]
BY Zenon DEF World!Pending, World!FoldSet, World!MapThenFoldSet

LEMMA LeastNatural ==
  ASSUME NEW T, T \subseteq Nat, T # {}
  PROVE  \E x \in T : \A y \in T : x <= y
<1> DEFINE R == OpToRel(<, Nat)
<1>1. IsWellFoundedOn(R, Nat)
  BY NatLessThanWellFounded
<1>2. \A x, y \in Nat : <<y, x>> \in R <=> y < x
  BY DEF OpToRel
<1> HIDE DEF R
<1>3. PICK x \in T : \A y \in T : ~ (<<y, x>> \in R)
  BY <1>1, WFMin
<1>4. \A y \in T : ~ (y < x)
  BY <1>2, <1>3
<1> QED BY <1>4

LEMMA InductiveSet ==
  ASSUME NEW T, 0 \in T, \A k \in Nat : k \in T => k + 1 \in T
  PROVE  Nat \subseteq T
<1> SUFFICES ASSUME Nat \ T # {} PROVE FALSE
  OBVIOUS
<1>1. PICK k \in Nat \ T : \A l \in Nat \ T : k <= l
  BY LeastNatural
<1>2. k - 1 \in Nat /\ (k - 1) + 1 = k
  BY <1>1
<1>3. k - 1 \in T
  BY <1>1, <1>2
<1> QED BY <1>2, <1>3

Parts == [off: Int, len: Int]
Accs == [buf: Seq(World!Clients), part: [World!Clients -> Parts]]

\* Every one of D is in buf as often as he has said something, nobody else is.
Counted(chan, buf, D) ==
  /\ buf \in Seq(World!Clients)
  /\ \A i \in 1 .. Len(buf) : buf[i] \in D
  /\ \A c \in D : World!Count(c, buf) = said[chan][c]

\* p is where those of S are in buf.
PartOf(buf, p, S) ==
  \/ p = World!NoPart /\ \A i \in 1 .. Len(buf) : buf[i] \notin S
  \/ /\ p \in [off: Nat, len: Nat \ {0}] /\ p.off + p.len <= Len(buf)
     /\ \A i \in 1 .. Len(buf) : buf[i] \in S <=> i \in p.off + 1 .. p.off + p.len

\* p is the end of buf.
AtEnd(buf, p) == p # World!NoPart => p.off + p.len = Len(buf)

\* new is old and k times c behind it.
Grown(old, new, c, k) ==
  /\ old \in Seq(World!Clients) /\ new \in Seq(World!Clients)
  /\ k \in Nat /\ Len(new) = Len(old) + k
  /\ \A i \in 1 .. Len(new) : new[i] = IF i <= Len(old) THEN old[i] ELSE c

NewPart(old, k) == IF k = 0 THEN World!NoPart ELSE [off |-> Len(old), len |-> k]

LEMMA CardinalityIs == ASSUME NEW S PROVE World!Cardinality(S) = Cardinality(S)
BY Zenon DEF World!Cardinality, Cardinality

LEMMA RepeatGrows ==
  ASSUME NEW old \in Seq(World!Clients), NEW c \in World!Clients, NEW k \in Nat
  PROVE  Grown(old, old \o [i \in 1 .. k |-> c], c, k)
<1> DEFINE r == [i \in 1 .. k |-> c]
<1>1. r \in Seq(World!Clients) /\ Len(r) = k /\ \A i \in 1 .. k : r[i] = c
  OBVIOUS
<1> HIDE DEF r
<1>2. PICK s : s = old \o r
  OBVIOUS
<1>3. s \in Seq(World!Clients) /\ Len(s) = Len(old) + k
      /\ \A i \in 1 .. Len(old) + k : s[i] = IF i <= Len(old) THEN old[i] ELSE r[i - Len(old)]
  BY <1>1, <1>2, ConcatProperties
<1>4. Len(old) \in Nat
  BY LenProperties
<1>5. ASSUME NEW i \in 1 .. Len(s), i > Len(old) PROVE s[i] = c
  <2>1. i - Len(old) \in 1 .. k
    BY <1>3, <1>4, <1>5
  <2> QED BY <1>1, <1>3, <1>5, <2>1
<1>6. Grown(old, s, c, k)
  BY <1>3, <1>4, <1>5 DEF Grown
<1> QED BY <1>2, <1>6 DEF r

LEMMA NothingGrows ==
  ASSUME NEW old \in Seq(World!Clients), NEW c
  PROVE  Grown(old, old, c, 0)
<1>1. Len(old) \in Nat
  BY LenProperties
<1> QED BY <1>1 DEF Grown

LEMMA CountsGrow ==
  ASSUME NEW chan, NEW old, NEW new, NEW D, NEW c, c \notin D,
         Counted(chan, old, D), Grown(old, new, c, said[chan][c])
  PROVE  Counted(chan, new, D \cup {c})
<1> DEFINE k == said[chan][c]
           m == Len(old)
<1>1. /\ new \in Seq(World!Clients) /\ k \in Nat /\ Len(new) = m + k /\ m \in Nat
      /\ old \in Seq(World!Clients)
      /\ \A i \in 1 .. Len(new) : new[i] = IF i <= m THEN old[i] ELSE c
  <2>1. old \in Seq(World!Clients)
    BY DEF Grown
  <2> QED BY <2>1, LenProperties DEF Grown
<1>2. /\ \A i \in 1 .. m : old[i] \in D
      /\ \A d \in D : World!Count(d, old) = said[chan][d]
  BY DEF Counted
<1>3. DOMAIN old = 1 .. m /\ DOMAIN new = 1 .. m + k
  BY <1>1, LenProperties
<1> HIDE DEF k, m
<1>4. \A i \in 1 .. Len(new) : new[i] \in D \cup {c}
  BY <1>1, <1>2
<1>5. ASSUME NEW d \in D PROVE World!Count(d, new) = said[chan][d]
  <2>1. {i \in DOMAIN new : new[i] = d} = {i \in DOMAIN old : old[i] = d}
    BY <1>1, <1>2, <1>3, <1>5
  <2> QED BY <1>2, <2>1 DEF World!Count
<1>6. World!Count(c, new) = k
  <2>1. {i \in DOMAIN new : new[i] = c} = m + 1 .. m + k
    BY <1>1, <1>2, <1>3
  <2>2. Cardinality(m + 1 .. m + k) = k
    <3>1. Cardinality(m + 1 .. m + k) = IF m + 1 > m + k THEN 0 ELSE m + k - (m + 1) + 1
      BY <1>1, FS_Interval
    <3> QED BY <1>1, <3>1
  <2> QED BY <2>1, <2>2, CardinalityIs DEF World!Count
<1> QED BY <1>1, <1>4, <1>5, <1>6 DEF Counted, k

LEMMA OthersStay ==
  ASSUME NEW old, NEW new, NEW c, NEW k, NEW p, NEW S, c \notin S,
         Grown(old, new, c, k), PartOf(old, p, S)
  PROVE  PartOf(new, p, S)
<1> DEFINE m == Len(old)
<1>1. /\ k \in Nat /\ Len(new) = m + k /\ m \in Nat
      /\ \A i \in 1 .. Len(new) : new[i] = IF i <= m THEN old[i] ELSE c
  <2>1. old \in Seq(World!Clients)
    BY DEF Grown
  <2> QED BY <2>1, LenProperties DEF Grown
<1> HIDE DEF m
<1>2. CASE p = World!NoPart /\ \A i \in 1 .. m : old[i] \notin S
  <2>1. \A i \in 1 .. Len(new) : new[i] \notin S
    BY <1>1, <1>2
  <2> QED BY <1>2, <2>1 DEF PartOf
<1>3. CASE /\ p \in [off: Nat, len: Nat \ {0}] /\ p.off + p.len <= m
           /\ \A i \in 1 .. m : old[i] \in S <=> i \in p.off + 1 .. p.off + p.len
  <2>1. p.off \in Nat /\ p.len \in Nat
    BY <1>3
  <2>2. \A i \in 1 .. Len(new) : new[i] \in S <=> i \in p.off + 1 .. p.off + p.len
    BY <1>1, <1>3, <2>1
  <2>3. p.off + p.len <= Len(new)
    BY <1>1, <1>3, <2>1
  <2> QED BY <1>3, <2>2, <2>3 DEF PartOf
<1> QED BY <1>2, <1>3 DEF PartOf, m

LEMMA PartsJoin ==
  ASSUME NEW old, NEW new, NEW c, NEW k, NEW p, NEW S,
         \A i \in 1 .. Len(old) : old[i] # c,
         Grown(old, new, c, k), PartOf(old, p, S), AtEnd(old, p)
  PROVE  LET q == World!Joined(p, NewPart(old, k)) IN
         PartOf(new, q, S \cup {c}) /\ AtEnd(new, q)
<1> DEFINE m == Len(old)
           r == NewPart(old, k)
           q == World!Joined(p, r)
<1>1. /\ k \in Nat /\ Len(new) = m + k /\ m \in Nat
      /\ \A i \in 1 .. Len(new) : new[i] = IF i <= m THEN old[i] ELSE c
  <2>1. old \in Seq(World!Clients)
    BY DEF Grown
  <2> QED BY <2>1, LenProperties DEF Grown
<1>2. \A i \in 1 .. m : old[i] # c
  OBVIOUS
<1>3. World!NoPart.off = -1
  BY DEF World!NoPart
<1> USE DEF m
<1>4. CASE k = 0
  <2>1. q = p
    BY <1>4 DEF NewPart, World!Joined
  <2>2. Len(new) = m /\ \A i \in 1 .. m : new[i] = old[i]
    BY <1>1, <1>4
  <2> HIDE DEF m, q
  <2>3. CASE p = World!NoPart /\ \A i \in 1 .. m : old[i] \notin S
    <3>1. \A i \in 1 .. Len(new) : new[i] \notin S \cup {c}
      BY <1>2, <2>2, <2>3
    <3> QED BY <2>1, <2>3, <3>1 DEF PartOf, AtEnd, q
  <2>4. CASE /\ p \in [off: Nat, len: Nat \ {0}] /\ p.off + p.len <= m
             /\ \A i \in 1 .. m : old[i] \in S <=> i \in p.off + 1 .. p.off + p.len
    <3>1. \A i \in 1 .. Len(new) : new[i] \in S \cup {c} <=> i \in p.off + 1 .. p.off + p.len
      BY <1>2, <2>2, <2>4
    <3>2. p.off + p.len <= Len(new)
      BY <2>2, <2>4
    <3>3. AtEnd(new, p)
      BY <2>2 DEF AtEnd, m
    <3>4. PartOf(new, p, S \cup {c})
      BY <2>4, <3>1, <3>2 DEF PartOf
    <3> QED BY <2>1, <3>3, <3>4 DEF q
  <2> QED BY <2>3, <2>4 DEF PartOf, m
<1>5. CASE k # 0
  <2>0. r = [off |-> m, len |-> k]
    BY <1>5 DEF NewPart
  <2>1. r # World!NoPart
    BY <1>1, <1>3, <2>0
  <2> HIDE DEF m, q, r
  <2>2. CASE p = World!NoPart /\ \A i \in 1 .. m : old[i] \notin S
    <3>1. q = [off |-> m, len |-> k]
      BY <2>0, <2>1, <2>2 DEF World!Joined, q
    <3>2. \A i \in 1 .. Len(new) : new[i] \in S \cup {c} <=> i \in m + 1 .. m + k
      BY <1>1, <1>2, <2>2
    <3>3. q \in [off: Nat, len: Nat \ {0}] /\ q.off = m /\ q.len = k
      BY <1>1, <1>5, <3>1
    <3>4. PartOf(new, q, S \cup {c})
      BY <1>1, <3>2, <3>3 DEF PartOf
    <3>5. AtEnd(new, q)
      BY <1>1, <3>3 DEF AtEnd
    <3> QED BY <3>4, <3>5 DEF q, r
  <2>3. CASE /\ p \in [off: Nat, len: Nat \ {0}] /\ p.off + p.len <= m
             /\ \A i \in 1 .. m : old[i] \in S <=> i \in p.off + 1 .. p.off + p.len
    <3>0. p.off \in Nat /\ p.len \in Nat \ {0}
      BY <2>3
    <3>1. p # World!NoPart
      BY <1>3, <3>0
    <3>2. q = [p EXCEPT !.len = @ + r.len]
      BY <2>1, <3>1 DEF World!Joined, q
    <3>3. q \in [off: Nat, len: Nat \ {0}] /\ q.off = p.off /\ q.len = p.len + k
      <4>1. r.len = k
        BY <2>0
      <4>2. q = [off |-> p.off, len |-> p.len + k]
        BY <2>3, <3>2, <4>1
      <4>3. p.len + k \in Nat \ {0}
        BY <1>1, <3>0
      <4> QED BY <3>0, <4>2, <4>3
    <3>4. p.off + p.len = m
      BY <3>1 DEF AtEnd, m
    <3>5. q.off + q.len = m + k
      BY SMTT(30), <1>1, <3>0, <3>3, <3>4
    <3>6. \A i \in 1 .. Len(new) : new[i] \in S \cup {c} <=> i \in p.off + 1 .. m + k
      BY <1>1, <1>2, <2>3, <3>0, <3>4
    <3>7. PartOf(new, q, S \cup {c})
      BY <1>1, <3>3, <3>5, <3>6 DEF PartOf
    <3>8. AtEnd(new, q)
      BY <1>1, <3>5 DEF AtEnd
    <3> QED BY <3>7, <3>8 DEF q, r
  <2> QED BY <2>2, <2>3 DEF PartOf, m
<1> QED BY <1>1, <1>4, <1>5

LEMMA TopIs ==
  ASSUME NEW n \in Nat, NEW s \in SUBSET (1 .. n), s # {}
  PROVE  Top(s) \in s /\ \A y \in s : Top(s) >= y
<1> DEFINE N == {k \in Nat : \A t \in SUBSET (1 .. k) : t # {} => \E x \in t : \A y \in t : x >= y}
<1>1. 0 \in N
  <2>1. 1 .. 0 = {}
    OBVIOUS
  <2> QED BY <2>1
<1>2. ASSUME NEW k \in Nat, k \in N PROVE k + 1 \in N
  <2> SUFFICES ASSUME NEW t \in SUBSET (1 .. k + 1), t # {}
               PROVE  \E x \in t : \A y \in t : x >= y
    OBVIOUS
  <2>1. CASE k + 1 \in t
    BY <2>1
  <2>2. CASE k + 1 \notin t
    <3>1. t \in SUBSET (1 .. k)
      BY <2>2
    <3> QED BY <1>2, <3>1
  <2> QED BY <2>1, <2>2
<1>3. n \in N
  <2> HIDE DEF N
  <2> QED BY <1>1, <1>2, InductiveSet
<1>4. \E x \in s : \A y \in s : x >= y
  BY <1>3
<1> QED BY <1>4 DEF Top

LEMMA TopLeaves ==
  ASSUME NEW n \in Nat
  PROVE  /\ \A s \in SUBSET (1 .. n) : /\ IsFiniteSet(s) /\ Cardinality(s) \in Nat
                                       /\ Cardinality(s) <= n /\ (Cardinality(s) = 0 <=> s = {})
         /\ \A s \in SUBSET (1 .. n) : s # {} =>
              /\ s \ {Top(s)} \in SUBSET (1 .. n)
              /\ Cardinality(s \ {Top(s)}) = Cardinality(s) - 1
<1>1. IsFiniteSet(1 .. n) /\ Cardinality(1 .. n) = n
  <2>1. Cardinality(1 .. n) = IF 1 > n THEN 0 ELSE n - 1 + 1
    BY FS_Interval
  <2> QED BY <2>1, FS_Interval
<1>2. \A s \in SUBSET (1 .. n) : IsFiniteSet(s) /\ Cardinality(s) \in Nat /\ Cardinality(s) <= n
                                 /\ (Cardinality(s) = 0 <=> s = {})
  <2> SUFFICES ASSUME NEW s \in SUBSET (1 .. n)
               PROVE  IsFiniteSet(s) /\ Cardinality(s) \in Nat /\ Cardinality(s) <= n
                      /\ (Cardinality(s) = 0 <=> s = {})
    OBVIOUS
  <2>1. IsFiniteSet(s) /\ Cardinality(s) <= n
    BY <1>1, FS_Subset
  <2>2. Cardinality(s) \in Nat /\ (Cardinality(s) = 0 <=> s = {})
    BY <2>1, FS_CardinalityType, FS_EmptySet
  <2> QED BY <2>1, <2>2
<1>3. ASSUME NEW s \in SUBSET (1 .. n), s # {}
      PROVE  /\ s \ {Top(s)} \in SUBSET (1 .. n)
             /\ Cardinality(s \ {Top(s)}) = Cardinality(s) - 1
  <2>1. Top(s) \in s
    BY <1>3, TopIs
  <2> QED BY <1>2, <2>1, FS_RemoveElement
<1> QED BY <1>2, <1>3

LEMMA TopOfPrefix ==
  ASSUME NEW n \in Nat
  PROVE  1 .. n + 1 # {} /\ Top(1 .. n + 1) = n + 1 /\ (1 .. n + 1) \ {n + 1} = 1 .. n
<1>1. n + 1 \in 1 .. n + 1 /\ (1 .. n + 1) \ {n + 1} = 1 .. n
  OBVIOUS
<1>2. PICK x : x = Top(1 .. n + 1)
  OBVIOUS
<1>3. x \in 1 .. n + 1 /\ x >= n + 1
  <2>1. n + 1 \in Nat /\ 1 .. n + 1 \in SUBSET (1 .. n + 1) /\ 1 .. n + 1 # {}
    BY <1>1
  <2>2. Top(1 .. n + 1) \in 1 .. n + 1 /\ \A y \in 1 .. n + 1 : Top(1 .. n + 1) >= y
    BY <2>1, TopIs
  <2> QED BY <1>1, <1>2, <2>2
<1> QED BY <1>1, <1>2, <1>3

-----------------------------------------------------------------------------
(* The loop over the bots                                                  *)

\* What is made of what is gathered before the nth bot
Step(acc, h, chan, n) ==
  LET a == World!AddClientState(acc, bots[h][n], chan) IN
  [a EXCEPT !.part[h] = World!Joined(@, a.part[bots[h][n]])]

RoundsUpTo(acc, h, chan, g, D) ==
  g = [s \in D |-> IF s = {} THEN World!AddClientState(acc, h, chan)
                   ELSE Step(g[s \ {Top(s)}], h, chan, Top(s))]

LEMMA RoundExists ==
  ASSUME NEW acc, NEW h, NEW chan, NEW n \in Nat, DOMAIN bots[h] = 1 .. n
  PROVE  \E g : RoundsUp(acc, h, chan, g)
<1> DEFINE Upto(m) == {s \in SUBSET (1 .. n) : Cardinality(s) <= m}
           T == {m \in Nat : \E g : RoundsUpTo(acc, h, chan, g, Upto(m))}
<1>1. /\ \A s \in SUBSET (1 .. n) : /\ Cardinality(s) \in Nat /\ Cardinality(s) <= n
                                    /\ (Cardinality(s) = 0 <=> s = {})
      /\ \A s \in SUBSET (1 .. n) : s # {} =>
           s \ {Top(s)} \in SUBSET (1 .. n) /\ Cardinality(s \ {Top(s)}) = Cardinality(s) - 1
  BY TopLeaves
<1>3. 0 \in T
  <2> DEFINE g == [s \in Upto(0) |-> World!AddClientState(acc, h, chan)]
  <2>1. \A s \in Upto(0) : s = {}
    BY <1>1
  <2> HIDE DEF Upto
  <2>2. g = [s \in Upto(0) |-> IF s = {} THEN World!AddClientState(acc, h, chan)
                               ELSE Step(g[s \ {Top(s)}], h, chan, Top(s))]
    BY <2>1
  <2> QED BY <2>2 DEF RoundsUpTo
<1>4. ASSUME NEW m \in Nat, m \in T PROVE m + 1 \in T
  <2>1. PICK g : RoundsUpTo(acc, h, chan, g, Upto(m))
    BY <1>4
  <2> DEFINE f == [s \in Upto(m + 1) |-> IF s = {} THEN World!AddClientState(acc, h, chan)
                                         ELSE Step(g[s \ {Top(s)}], h, chan, Top(s))]
  <2>2. ASSUME NEW s \in Upto(m + 1), s # {}
        PROVE  g[s \ {Top(s)}] = f[s \ {Top(s)}]
    <3> DEFINE r == s \ {Top(s)}
    <3>0. /\ s \in SUBSET (1 .. n) /\ Cardinality(s) \in Nat /\ Cardinality(s) <= m + 1
          /\ r \in SUBSET (1 .. n) /\ Cardinality(r) = Cardinality(s) - 1
      BY <1>1, <2>2
    <3>1. r \in Upto(m) /\ r \in Upto(m + 1)
      <4> HIDE DEF r
      <4> QED BY <3>0
    <3> HIDE DEF r, Upto
    <3>2. g[r] = IF r = {} THEN World!AddClientState(acc, h, chan)
                 ELSE Step(g[r \ {Top(r)}], h, chan, Top(r))
      BY <2>1, <3>1 DEF RoundsUpTo
    <3> QED BY <3>1, <3>2 DEF r
  <2>3. f = [s \in Upto(m + 1) |-> IF s = {} THEN World!AddClientState(acc, h, chan)
                                   ELSE Step(f[s \ {Top(s)}], h, chan, Top(s))]
    <3> HIDE DEF Upto
    <3> QED BY <2>2
  <2>4. RoundsUpTo(acc, h, chan, f, Upto(m + 1))
    <3> HIDE DEF f
    <3> QED BY <2>3 DEF RoundsUpTo
  <2> HIDE DEF f, Upto
  <2> QED BY <2>4
<1>5. n \in T
  <2> HIDE DEF T
  <2> QED BY <1>3, <1>4, InductiveSet
<1>6. Upto(n) = SUBSET (1 .. n)
  BY <1>1
<1>7. PICK g : RoundsUpTo(acc, h, chan, g, Upto(n))
  BY <1>5
<1> HIDE DEF Upto
<1>8. RoundsUpTo(acc, h, chan, g, SUBSET (1 .. n))
  BY <1>6, <1>7
<1> QED BY <1>8 DEF RoundsUp, RoundsUpTo, Step

LEMMA RoundUp ==
  ASSUME NEW acc, NEW h, NEW chan, NEW n \in Nat, DOMAIN bots[h] = 1 .. n
  PROVE  \E r : /\ r[0] = World!AddClientState(acc, h, chan)
                /\ \A j \in 0 .. n - 1 : r[j + 1] = Step(r[j], h, chan, j + 1)
                /\ r[n] = World!AddHuman(acc, h, chan)
<1> DEFINE g == CHOOSE f : RoundsUp(acc, h, chan, f)
           r == [j \in 0 .. n |-> g[1 .. j]]
<1>1. RoundsUp(acc, h, chan, g)
  BY RoundExists
<1>2. g[1 .. n] = World!AddHuman(acc, h, chan)
  BY AddHumanIs
<1> HIDE DEF g
<1>3. \A s \in SUBSET (1 .. n) :
        g[s] = IF s = {} THEN World!AddClientState(acc, h, chan)
               ELSE Step(g[s \ {Top(s)}], h, chan, Top(s))
  BY <1>1 DEF RoundsUp, Step
<1>e. 1 .. 0 = {} /\ 0 \in 0 .. n /\ {} \in SUBSET (1 .. n)
  OBVIOUS
<1>4. r[0] = World!AddClientState(acc, h, chan)
  BY <1>3, <1>e
<1>5. ASSUME NEW j \in 0 .. n - 1 PROVE r[j + 1] = Step(r[j], h, chan, j + 1)
  <2>1. 1 .. j + 1 \in SUBSET (1 .. n) /\ r[j + 1] = g[1 .. j + 1] /\ r[j] = g[1 .. j]
    OBVIOUS
  <2>2. 1 .. j + 1 # {} /\ Top(1 .. j + 1) = j + 1 /\ (1 .. j + 1) \ {j + 1} = 1 .. j
    <3>1. j \in Nat
      OBVIOUS
    <3> QED BY <3>1, TopOfPrefix
  <2> HIDE DEF r
  <2> QED BY <1>3, <2>1, <2>2
<1>6. r[n] = World!AddHuman(acc, h, chan)
  BY <1>2
<1> HIDE DEF r
<1> QED BY <1>4, <1>5, <1>6

-----------------------------------------------------------------------------
(* The loop over the clients                                               *)

Nothing == [buf |-> <<>>, part |-> [c \in World!Clients |-> World!NoPart]]

GathersUpTo(chan, g, D) ==
  g = [s \in D |-> IF s = {} THEN Nothing
                   ELSE World!AddHuman(g[s \ {Top(s)}], listeners[Top(s)], chan)]

LEMMA GatherExists ==
  ASSUME NEW chan, NEW n \in Nat, DOMAIN listeners = 1 .. n
  PROVE  \E g : GathersUp(chan, g)
<1> DEFINE Upto(m) == {s \in SUBSET (1 .. n) : Cardinality(s) <= m}
           T == {m \in Nat : \E g : GathersUpTo(chan, g, Upto(m))}
<1>1. /\ \A s \in SUBSET (1 .. n) : /\ Cardinality(s) \in Nat /\ Cardinality(s) <= n
                                    /\ (Cardinality(s) = 0 <=> s = {})
      /\ \A s \in SUBSET (1 .. n) : s # {} =>
           s \ {Top(s)} \in SUBSET (1 .. n) /\ Cardinality(s \ {Top(s)}) = Cardinality(s) - 1
  BY TopLeaves
<1>3. 0 \in T
  <2> DEFINE g == [s \in Upto(0) |-> Nothing]
  <2>1. \A s \in Upto(0) : s = {}
    BY <1>1
  <2> HIDE DEF Upto
  <2>2. g = [s \in Upto(0) |-> IF s = {} THEN Nothing
                               ELSE World!AddHuman(g[s \ {Top(s)}], listeners[Top(s)], chan)]
    BY <2>1
  <2> QED BY <2>2 DEF GathersUpTo
<1>4. ASSUME NEW m \in Nat, m \in T PROVE m + 1 \in T
  <2>1. PICK g : GathersUpTo(chan, g, Upto(m))
    BY <1>4
  <2> DEFINE f == [s \in Upto(m + 1) |->
                    IF s = {} THEN Nothing
                    ELSE World!AddHuman(g[s \ {Top(s)}], listeners[Top(s)], chan)]
  <2>2. ASSUME NEW s \in Upto(m + 1), s # {}
        PROVE  g[s \ {Top(s)}] = f[s \ {Top(s)}]
    <3> DEFINE r == s \ {Top(s)}
    <3>0. /\ s \in SUBSET (1 .. n) /\ Cardinality(s) \in Nat /\ Cardinality(s) <= m + 1
          /\ r \in SUBSET (1 .. n) /\ Cardinality(r) = Cardinality(s) - 1
      BY <1>1, <2>2
    <3>1. r \in Upto(m) /\ r \in Upto(m + 1)
      <4> HIDE DEF r
      <4> QED BY <3>0
    <3> HIDE DEF r, Upto
    <3>2. g[r] = IF r = {} THEN Nothing
                 ELSE World!AddHuman(g[r \ {Top(r)}], listeners[Top(r)], chan)
      BY <2>1, <3>1 DEF GathersUpTo
    <3> QED BY <3>1, <3>2 DEF r
  <2>3. f = [s \in Upto(m + 1) |-> IF s = {} THEN Nothing
                                   ELSE World!AddHuman(f[s \ {Top(s)}], listeners[Top(s)], chan)]
    <3> HIDE DEF Upto
    <3> QED BY <2>2
  <2>4. GathersUpTo(chan, f, Upto(m + 1))
    <3> HIDE DEF f
    <3> QED BY <2>3 DEF GathersUpTo
  <2> HIDE DEF f, Upto
  <2> QED BY <2>4
<1>5. n \in T
  <2> HIDE DEF T
  <2> QED BY <1>3, <1>4, InductiveSet
<1>6. Upto(n) = SUBSET (1 .. n)
  BY <1>1
<1>7. PICK g : GathersUpTo(chan, g, Upto(n))
  BY <1>5
<1> HIDE DEF Upto
<1>8. GathersUpTo(chan, g, SUBSET (1 .. n))
  BY <1>6, <1>7
<1> QED BY <1>8 DEF GathersUp, GathersUpTo, Nothing

LEMMA GatherUp ==
  ASSUME NEW chan, NEW n \in Nat, DOMAIN listeners = 1 .. n
  PROVE  \E r : /\ r[0] = Nothing
                /\ \A j \in 0 .. n - 1 : r[j + 1] = World!AddHuman(r[j], listeners[j + 1], chan)
                /\ r[n] = World!Gathered(chan)
<1> DEFINE g == CHOOSE f : GathersUp(chan, f)
           r == [j \in 0 .. n |-> g[1 .. j]]
<1>1. GathersUp(chan, g)
  BY GatherExists
<1>2. g[1 .. n] = World!Gathered(chan)
  BY GatheredIs
<1> HIDE DEF g
<1>3. \A s \in SUBSET (1 .. n) :
        g[s] = IF s = {} THEN Nothing
               ELSE World!AddHuman(g[s \ {Top(s)}], listeners[Top(s)], chan)
  BY <1>1 DEF GathersUp, Nothing
<1>e. 1 .. 0 = {} /\ 0 \in 0 .. n /\ {} \in SUBSET (1 .. n)
  OBVIOUS
<1>4. r[0] = Nothing
  BY <1>3, <1>e
<1>5. ASSUME NEW j \in 0 .. n - 1
      PROVE  r[j + 1] = World!AddHuman(r[j], listeners[j + 1], chan)
  <2>1. 1 .. j + 1 \in SUBSET (1 .. n) /\ r[j + 1] = g[1 .. j + 1] /\ r[j] = g[1 .. j]
    OBVIOUS
  <2>2. 1 .. j + 1 # {} /\ Top(1 .. j + 1) = j + 1 /\ (1 .. j + 1) \ {j + 1} = 1 .. j
    <3>1. j \in Nat
      OBVIOUS
    <3> QED BY <3>1, TopOfPrefix
  <2> HIDE DEF r
  <2> QED BY <1>3, <2>1, <2>2
<1>6. r[n] = World!Gathered(chan)
  BY <1>2
<1> HIDE DEF r
<1> QED BY <1>4, <1>5, <1>6

-----------------------------------------------------------------------------
(* What is gathered.                                                       *)

\* A list of some of S without repeats
Once(s, S) == s \in Seq(S) /\ \A i, j \in 1 .. Len(s) : s[i] = s[j] => i = j

\* Everyone is listed once, and every bot has one owner.
ListsOK ==
  /\ Once(listeners, Slots)
  /\ DOMAIN bots = Slots /\ \A h \in Slots : Once(bots[h], Bots)
  /\ \A g, h \in Slots : g # h => World!ToSet(bots[g]) \cap World!ToSet(bots[h]) = {}

\* Bots in no list
Strays == orphans \cup taken

StraysOK ==
  /\ orphans \subseteq Bots /\ taken \subseteq Bots
  /\ \A h \in Slots : World!ToSet(bots[h]) \cap Strays = {}

SaidOK == \A chan \in World!Chans, c \in World!Clients : said[chan][c] \in Nat

Own(h) == {h} \cup World!ToSet(bots[h])

\* h and the first j of his bots
Sofar(h, j) == {h} \cup {bots[h][i] : i \in 1 .. j}

\* What is gathered of the humans H has their parts and those of their bots.
Heard(chan, H, a) ==
  /\ a \in Accs
  /\ Counted(chan, a.buf, UNION {Own(g) : g \in H})
  /\ \A g \in H : PartOf(a.buf, a.part[g], Own(g))

\* What is gathered when j bots of h are added to it
Round(chan, H, h, j, a) ==
  /\ a \in Accs
  /\ Counted(chan, a.buf, (UNION {Own(g) : g \in H}) \cup Sofar(h, j))
  /\ \A g \in H : PartOf(a.buf, a.part[g], Own(g))
  /\ PartOf(a.buf, a.part[h], Sofar(h, j)) /\ AtEnd(a.buf, a.part[h])

LEMMA ListIs ==
  ASSUME NEW S, NEW s, Once(s, S)
  PROVE  /\ s \in Seq(S) /\ Len(s) \in Nat /\ DOMAIN s = 1 .. Len(s)
         /\ World!ToSet(s) = {s[i] : i \in 1 .. Len(s)}
         /\ \A i \in 1 .. Len(s) : s[i] \in S
BY LenProperties, ElementOfSeq DEF Once, World!ToSet

LEMMA AddedIs ==
  ASSUME NEW chan \in World!Chans, NEW c \in World!Clients, SaidOK, NEW acc \in Accs
  PROVE  \E a : /\ a = World!AddClientState(acc, c, chan)
                /\ a \in Accs /\ Grown(acc.buf, a.buf, c, said[chan][c])
                /\ \A d \in World!Clients : d # c => a.part[d] = acc.part[d]
                /\ a.part[c] = NewPart(acc.buf, said[chan][c])
<1>1. PICK a : a = World!AddClientState(acc, c, chan)
  OBVIOUS
<1>2. said[chan][c] \in Nat /\ acc.buf \in Seq(World!Clients)
      /\ acc.part \in [World!Clients -> Parts]
  BY DEF SaidOK, Accs
<1>3. World!NoPart \in Parts
  BY DEF World!NoPart, Parts
<1>4. CASE said[chan][c] = 0
  <2>1. a = [acc EXCEPT !.part[c] = World!NoPart]
    BY <1>1, <1>4 DEF World!AddClientState
  <2>2. a.buf = acc.buf /\ a.part = [acc.part EXCEPT ![c] = World!NoPart]
        /\ a = [buf |-> a.buf, part |-> a.part]
    BY <2>1 DEF Accs
  <2>3. a.part \in [World!Clients -> Parts]
    BY <1>2, <1>3, <2>2
  <2>4. a \in Accs
    BY <1>2, <2>2, <2>3 DEF Accs
  <2>5. a.part[c] = NewPart(acc.buf, said[chan][c])
    BY <1>2, <1>4, <2>2 DEF NewPart
  <2>6. \A d \in World!Clients : d # c => a.part[d] = acc.part[d]
    BY <1>2, <2>2
  <2>7. Grown(acc.buf, a.buf, c, said[chan][c])
    BY <1>2, <1>4, <2>2, NothingGrows
  <2> QED BY <1>1, <2>4, <2>5, <2>6, <2>7
<1>5. CASE said[chan][c] # 0
  <2> DEFINE k == said[chan][c]
             buf == acc.buf \o [i \in 1 .. k |-> c]
             p == [off |-> Len(acc.buf), len |-> k]
  <2>1. a = [buf |-> buf, part |-> [acc.part EXCEPT ![c] = p]]
    BY <1>1, <1>5 DEF World!AddClientState
  <2>2. Grown(acc.buf, buf, c, k)
    BY <1>2, RepeatGrows
  <2>3. buf \in Seq(World!Clients)
    BY <2>2 DEF Grown
  <2>4. p \in Parts
    <3>1. Len(acc.buf) \in Nat
      BY <1>2, LenProperties
    <3> QED BY <1>2, <3>1 DEF Parts
  <2>5. p = NewPart(acc.buf, k)
    BY <1>5 DEF NewPart
  <2> HIDE DEF buf, p
  <2>6. a.buf = buf /\ a.part = [acc.part EXCEPT ![c] = p] /\ a = [buf |-> a.buf, part |-> a.part]
    BY <2>1
  <2>7. a.part \in [World!Clients -> Parts]
    BY <1>2, <2>4, <2>6
  <2>8. a \in Accs
    BY <2>3, <2>6, <2>7 DEF Accs
  <2>9. a.part[c] = p /\ \A d \in World!Clients : d # c => a.part[d] = acc.part[d]
    BY <1>2, <2>6
  <2> QED BY <1>1, <2>2, <2>5, <2>6, <2>8, <2>9
<1> QED BY <1>4, <1>5

LEMMA OwnsAreApart ==
  ASSUME ListsOK, NEW g \in Slots, NEW h \in Slots, g # h
  PROVE  Own(g) \cap Own(h) = {}
<1>1. \A f \in Slots : World!ToSet(bots[f]) \subseteq Bots
  BY ListIs DEF ListsOK
<1> QED BY <1>1, WorldAssumption DEF ListsOK, Own

LEMMA RoundBegins ==
  ASSUME ListsOK, SaidOK, NEW chan \in World!Chans, NEW H \in SUBSET Slots, NEW h \in Slots \ H,
         NEW acc, Heard(chan, H, acc)
  PROVE  Round(chan, H, h, 0, World!AddClientState(acc, h, chan))
<1> DEFINE D == UNION {Own(g) : g \in H}
<1>1. h \in World!Clients /\ acc \in Accs
  BY DEF World!Clients, Heard
<1>2. PICK a : /\ a = World!AddClientState(acc, h, chan)
               /\ a \in Accs /\ Grown(acc.buf, a.buf, h, said[chan][h])
               /\ \A d \in World!Clients : d # h => a.part[d] = acc.part[d]
               /\ a.part[h] = NewPart(acc.buf, said[chan][h])
  BY <1>1, AddedIs
<1>3. h \notin D /\ \A g \in H : h \notin Own(g)
  <2>1. h \in Own(h)
    BY DEF Own
  <2> QED BY <2>1, OwnsAreApart
<1>4. Counted(chan, acc.buf, D)
  BY DEF Heard
<1>5. Sofar(h, 0) = {h}
  <2>1. 1 .. 0 = {}
    OBVIOUS
  <2> QED BY <2>1 DEF Sofar
<1>6. Counted(chan, a.buf, D \cup {h})
  BY <1>2, <1>3, <1>4, CountsGrow
<1>7. ASSUME NEW g \in H PROVE PartOf(a.buf, a.part[g], Own(g))
  <2>1. PartOf(acc.buf, acc.part[g], Own(g)) /\ a.part[g] = acc.part[g]
    BY <1>2 DEF Heard, World!Clients
  <2> QED BY <1>2, <1>3, <2>1, OthersStay
<1>8. PartOf(a.buf, a.part[h], {} \cup {h}) /\ AtEnd(a.buf, a.part[h])
  <2>1. PartOf(acc.buf, World!NoPart, {}) /\ AtEnd(acc.buf, World!NoPart)
    BY DEF PartOf, AtEnd
  <2>2. \A i \in 1 .. Len(acc.buf) : acc.buf[i] # h
    BY <1>3, <1>4 DEF Counted
  <2>3. World!Joined(World!NoPart, NewPart(acc.buf, said[chan][h])) = a.part[h]
    BY <1>2 DEF World!Joined
  <2> QED BY <1>2, <2>1, <2>2, <2>3, PartsJoin
<1> HIDE DEF D
<1>9. Round(chan, H, h, 0, a)
  <2>1. {} \cup {h} = {h}
    OBVIOUS
  <2> QED BY <1>2, <1>5, <1>6, <1>7, <1>8, <2>1 DEF Round, D
<1> QED BY <1>2, <1>9

LEMMA RoundGoesOn ==
  ASSUME ListsOK, SaidOK, NEW chan \in World!Chans, NEW H \in SUBSET Slots, NEW h \in Slots \ H,
         NEW j \in Nat, j < Len(bots[h]), NEW acc, Round(chan, H, h, j, acc)
  PROVE  Round(chan, H, h, j + 1, Step(acc, h, chan, j + 1))
<1> DEFINE D == UNION {Own(g) : g \in H}
           b == bots[h][j + 1]
           S == Sofar(h, j)
<1>0. /\ Len(bots[h]) \in Nat /\ \A i \in 1 .. Len(bots[h]) : bots[h][i] \in Bots
      /\ World!ToSet(bots[h]) = {bots[h][i] : i \in 1 .. Len(bots[h])}
      /\ \A i, k \in 1 .. Len(bots[h]) : bots[h][i] = bots[h][k] => i = k
  <2>1. Once(bots[h], Bots)
    BY DEF ListsOK
  <2> QED BY <2>1, ListIs DEF Once
<1>1. j + 1 \in 1 .. Len(bots[h]) /\ 1 .. j \subseteq 1 .. Len(bots[h]) /\ j + 1 \notin 1 .. j
      /\ 1 .. j + 1 = (1 .. j) \cup {j + 1}
  BY <1>0
<1>2. b \in Bots /\ b \in World!Clients /\ b # h /\ h \in World!Clients /\ acc \in Accs /\ b \in Own(h)
  BY <1>0, <1>1, WorldAssumption DEF World!Clients, Round, Own
<1>3. b \notin S /\ S \cup {b} = Sofar(h, j + 1)
  BY SMTT(30), <1>0, <1>1, <1>2 DEF Sofar
<1>4. b \notin D /\ \A g \in H : b \notin Own(g) /\ g # b /\ g # h /\ g \in World!Clients
  BY <1>2, OwnsAreApart, WorldAssumption DEF World!Clients
<1>r. /\ Counted(chan, acc.buf, D \cup S)
      /\ \A g \in H : PartOf(acc.buf, acc.part[g], Own(g))
      /\ PartOf(acc.buf, acc.part[h], S) /\ AtEnd(acc.buf, acc.part[h])
  BY DEF Round
<1>s. Step(acc, h, chan, j + 1) =
        LET a == World!AddClientState(acc, b, chan) IN
        [a EXCEPT !.part[h] = World!Joined(@, a.part[b])]
  BY DEF Step
<1> HIDE DEF b, S
<1>5. PICK a : /\ a = World!AddClientState(acc, b, chan)
               /\ a \in Accs /\ Grown(acc.buf, a.buf, b, said[chan][b])
               /\ \A d \in World!Clients : d # b => a.part[d] = acc.part[d]
               /\ a.part[b] = NewPart(acc.buf, said[chan][b])
  BY <1>2, AddedIs
<1> DEFINE q == World!Joined(acc.part[h], NewPart(acc.buf, said[chan][b]))
<1>6. PICK e : e = Step(acc, h, chan, j + 1)
  OBVIOUS
<1>7. PartOf(a.buf, q, S \cup {b}) /\ AtEnd(a.buf, q)
  <2>1. \A i \in 1 .. Len(acc.buf) : acc.buf[i] # b
    BY <1>3, <1>4, <1>r DEF Counted
  <2> QED BY <1>5, <1>r, <2>1, PartsJoin
<1>8. q \in Parts
  <2>1. q = World!NoPart \/ q \in [off: Nat, len: Nat \ {0}]
    BY <1>7 DEF PartOf
  <2>2. World!NoPart \in Parts
    BY DEF World!NoPart, Parts
  <2>3. [off: Nat, len: Nat \ {0}] \subseteq Parts
    BY DEF Parts
  <2> QED BY <2>1, <2>2, <2>3
<1> HIDE DEF q
<1>9. e = [a EXCEPT !.part[h] = q]
  <2>1. a.part[h] = acc.part[h] /\ a.part[b] = NewPart(acc.buf, said[chan][b])
    BY <1>2, <1>5
  <2> QED BY <1>5, <1>6, <1>s, <2>1 DEF q
<1>10. /\ e.buf = a.buf /\ e.part = [a.part EXCEPT ![h] = q]
       /\ e = [buf |-> e.buf, part |-> e.part]
       /\ a.buf \in Seq(World!Clients) /\ a.part \in [World!Clients -> Parts]
  BY <1>5, <1>9 DEF Accs
<1>11. e \in Accs
  <2>1. e.part \in [World!Clients -> Parts]
    BY <1>8, <1>10
  <2> QED BY <1>10, <2>1 DEF Accs
<1>12. e.part[h] = q /\ \A g \in H : e.part[g] = acc.part[g]
  <2>1. \A g \in H : g # b /\ g # h /\ g \in World!Clients
    BY <1>4
  <2> QED BY <1>2, <1>5, <1>10, <2>1
<1>13. Counted(chan, e.buf, D \cup Sofar(h, j + 1))
  <2>1. Counted(chan, a.buf, (D \cup S) \cup {b})
    BY <1>3, <1>4, <1>5, <1>r, CountsGrow
  <2>2. (D \cup S) \cup {b} = D \cup Sofar(h, j + 1)
    BY <1>3
  <2> QED BY <1>10, <2>1, <2>2
<1>14. ASSUME NEW g \in H PROVE PartOf(e.buf, e.part[g], Own(g))
  <2>1. PartOf(acc.buf, acc.part[g], Own(g)) /\ b \notin Own(g)
    BY <1>4, <1>r
  <2>2. PartOf(a.buf, acc.part[g], Own(g))
    BY <1>5, <2>1, OthersStay
  <2> QED BY <1>10, <1>12, <2>2
<1>15. PartOf(e.buf, e.part[h], Sofar(h, j + 1)) /\ AtEnd(e.buf, e.part[h])
  BY <1>3, <1>7, <1>10, <1>12
<1>16. Round(chan, H, h, j + 1, e)
  BY <1>11, <1>13, <1>14, <1>15 DEF Round
<1> QED BY <1>6, <1>16

LEMMA HumanAdded ==
  ASSUME ListsOK, SaidOK, NEW chan \in World!Chans, NEW H \in SUBSET Slots, NEW h \in Slots \ H,
         NEW acc, Heard(chan, H, acc)
  PROVE  Heard(chan, H \cup {h}, World!AddHuman(acc, h, chan))
<1> DEFINE n == Len(bots[h])
<1>1. n \in Nat /\ DOMAIN bots[h] = 1 .. n /\ World!ToSet(bots[h]) = {bots[h][i] : i \in 1 .. n}
  <2>1. Once(bots[h], Bots)
    BY DEF ListsOK
  <2> QED BY <2>1, ListIs
<1> HIDE DEF n
<1>2. PICK r : /\ r[0] = World!AddClientState(acc, h, chan)
               /\ \A j \in 0 .. n - 1 : r[j + 1] = Step(r[j], h, chan, j + 1)
               /\ r[n] = World!AddHuman(acc, h, chan)
  BY <1>1, RoundUp
<1> DEFINE T == {j \in Nat : j <= n => Round(chan, H, h, j, r[j])}
<1>3. 0 \in T
  BY <1>2, RoundBegins
<1>4. ASSUME NEW j \in Nat, j \in T PROVE j + 1 \in T
  <2> SUFFICES ASSUME j + 1 <= n PROVE Round(chan, H, h, j + 1, r[j + 1])
    OBVIOUS
  <2>1. j < n /\ j <= n /\ j \in 0 .. n - 1
    BY <1>1
  <2>2. Round(chan, H, h, j, r[j])
    BY <1>4, <2>1
  <2>3. r[j + 1] = Step(r[j], h, chan, j + 1)
    BY <1>2, <2>1
  <2>4. j < Len(bots[h])
    BY <2>1 DEF n
  <2> QED BY <2>2, <2>3, <2>4, RoundGoesOn
<1>5. n \in T
  <2> HIDE DEF T
  <2> QED BY <1>1, <1>3, <1>4, InductiveSet
<1>6. Round(chan, H, h, n, r[n])
  BY <1>1, <1>5
<1>7. Sofar(h, n) = Own(h)
  BY <1>1 DEF Sofar, Own
<1>8. PICK a : a = r[n]
  OBVIOUS
<1>9. /\ a \in Accs /\ Counted(chan, a.buf, (UNION {Own(g) : g \in H}) \cup Own(h))
      /\ \A g \in H : PartOf(a.buf, a.part[g], Own(g))
      /\ PartOf(a.buf, a.part[h], Own(h))
  BY <1>6, <1>7, <1>8 DEF Round
<1>10. (UNION {Own(g) : g \in H}) \cup Own(h) = UNION {Own(g) : g \in H \cup {h}}
  OBVIOUS
<1>11. Heard(chan, H \cup {h}, a)
  BY <1>9, <1>10 DEF Heard
<1> QED BY <1>2, <1>8, <1>11

LEMMA AllGathered ==
  ASSUME ListsOK, SaidOK, NEW chan \in World!Chans
  PROVE  Heard(chan, World!Here, World!Gathered(chan))
<1> DEFINE n == Len(listeners)
           H(j) == {listeners[i] : i \in 1 .. j}
<1>1. /\ n \in Nat /\ DOMAIN listeners = 1 .. n /\ World!ToSet(listeners) = H(n)
      /\ \A i \in 1 .. n : listeners[i] \in Slots
      /\ \A i, j \in 1 .. n : listeners[i] = listeners[j] => i = j
  BY ListIs DEF ListsOK, Once
<1> HIDE DEF n
<1>2. PICK r : /\ r[0] = Nothing
               /\ \A j \in 0 .. n - 1 : r[j + 1] = World!AddHuman(r[j], listeners[j + 1], chan)
               /\ r[n] = World!Gathered(chan)
  BY <1>1, GatherUp
<1> DEFINE T == {j \in Nat : j <= n => Heard(chan, H(j), r[j])}
<1>3. 0 \in T
  <2>1. H(0) = {}
    <3>1. 1 .. 0 = {}
      OBVIOUS
    <3> QED BY <3>1
  <2>2. Nothing \in Accs /\ Nothing.buf = <<>>
    <3>1. World!NoPart \in Parts
      BY DEF World!NoPart, Parts
    <3>2. <<>> \in Seq(World!Clients)
      OBVIOUS
    <3> QED BY <3>1, <3>2 DEF Nothing, Accs
  <2>3. Counted(chan, <<>>, UNION {Own(g) : g \in {}})
    <3>1. <<>> \in Seq(World!Clients) /\ 1 .. Len(<<>>) = {} /\ UNION {Own(g) : g \in {}} = {}
      OBVIOUS
    <3> QED BY <3>1 DEF Counted
  <2>4. Heard(chan, {}, Nothing)
    BY <2>2, <2>3 DEF Heard
  <2> HIDE DEF H
  <2> QED BY <1>2, <2>1, <2>4
<1>4. ASSUME NEW j \in Nat, j \in T PROVE j + 1 \in T
  <2> SUFFICES ASSUME j + 1 <= n PROVE Heard(chan, H(j + 1), r[j + 1])
    OBVIOUS
  <2>1. j <= n /\ j \in 0 .. n - 1 /\ j + 1 \in 1 .. n /\ 1 .. j \subseteq 1 .. n
        /\ j + 1 \notin 1 .. j /\ 1 .. j + 1 = (1 .. j) \cup {j + 1}
    BY <1>1
  <2>2. Heard(chan, H(j), r[j])
    BY <1>4, <2>1
  <2>3. r[j + 1] = World!AddHuman(r[j], listeners[j + 1], chan)
    BY <1>2, <2>1
  <2>4. H(j) \in SUBSET Slots /\ listeners[j + 1] \in Slots \ H(j)
        /\ H(j + 1) = H(j) \cup {listeners[j + 1]}
    BY <1>1, <2>1
  <2> HIDE DEF H
  <2> QED BY <2>2, <2>3, <2>4, HumanAdded
<1>5. n \in T
  <2> HIDE DEF T
  <2> QED BY <1>1, <1>3, <1>4, InductiveSet
<1>6. Heard(chan, H(n), r[n])
  BY <1>1, <1>5
<1> HIDE DEF H
<1> QED BY <1>1, <1>2, <1>6 DEF World!Here

-----------------------------------------------------------------------------
(* What a client reads.                                                    *)

\* What follows o + l in the doubled buffer, up to where it comes to o again
LEMMA DoubledIs ==
  ASSUME NEW buf \in Seq(World!Clients), NEW o \in Nat, NEW l \in Nat, o + l <= Len(buf)
  PROVE  \E t : /\ t = SubSeq(buf \o buf, o + l + 1, o + Len(buf))
                /\ t \in Seq(World!Clients) /\ Len(t) = Len(buf) - l
                /\ \A j \in 1 .. Len(buf) - l :
                     t[j] = IF j <= Len(buf) - l - o THEN buf[o + l + j]
                            ELSE buf[o + l + j - Len(buf)]
<1> DEFINE L == Len(buf)
           d == buf \o buf
           a == o + l + 1
           z == o + L
<1>1. L \in Nat /\ o + l <= L
  BY LenProperties
<1>2. d \in Seq(World!Clients) /\ Len(d) = L + L
      /\ \A i \in 1 .. L + L : d[i] = IF i <= L THEN buf[i] ELSE buf[i - L]
  BY ConcatProperties
<1> HIDE DEF d, L
<1>3. a \in Int /\ z \in Int
  BY <1>1
<1>4. \A i \in a .. z : d[i] \in World!Clients
  <2>1. \A i \in a .. z : i \in 1 .. L + L
    BY <1>1
  <2> QED BY <1>2, <2>1, ElementOfSeq
<1> HIDE DEF a, z
<1>5. PICK t : t = SubSeq(d, a, z)
  OBVIOUS
<1>6. t \in Seq(World!Clients) /\ Len(t) = (IF a <= z THEN z - a + 1 ELSE 0)
      /\ \A i \in 1 .. z - a + 1 : t[i] = d[a + i - 1]
  BY <1>3, <1>4, <1>5, SubSeqProperties
<1>7. z - a + 1 = L - l /\ (a > z => L - l = 0)
  BY <1>1 DEF a, z
<1>8. Len(t) = L - l
  BY <1>3, <1>6, <1>7
<1>9. ASSUME NEW j \in 1 .. L - l
      PROVE  t[j] = IF j <= L - l - o THEN buf[o + l + j] ELSE buf[o + l + j - L]
  <2>1. t[j] = d[a + j - 1]
    BY <1>6, <1>7
  <2>2. a + j - 1 = o + l + j
    BY <1>1 DEF a
  <2>3. PICK i : i = o + l + j
    OBVIOUS
  <2>4. i \in 1 .. L + L /\ (j <= L - l - o <=> i <= L)
    BY <1>1, <2>3
  <2>5. t[j] = IF i <= L THEN buf[i] ELSE buf[i - L]
    <3>1. t[j] = d[i]
      BY <2>1, <2>2, <2>3
    <3> QED BY <1>2, <2>4, <3>1
  <2>6. CASE j <= L - l - o
    <3>1. i <= L
      BY <1>1, <2>3, <2>6
    <3>2. t[j] = buf[i]
      BY <2>5, <3>1
    <3> QED BY <2>3, <2>6, <3>2
  <2>7. CASE ~ (j <= L - l - o)
    <3>1. ~ (i <= L)
      BY <1>1, <2>3, <2>7
    <3>2. PICK k : k = i - L
      OBVIOUS
    <3>3. t[j] = buf[k]
      BY <2>5, <3>1, <3>2
    <3>4. k = o + l + j - L
      BY <1>1, <2>3, <3>2
    <3>5. t[j] = buf[o + l + j - L]
      BY <3>3, <3>4
    <3> QED BY <2>7, <3>5
  <2> QED BY <2>6, <2>7
<1> QED BY <1>5, <1>6, <1>8, <1>9 DEF d, L, a, z

LEMMA CountInCut ==
  ASSUME NEW buf \in Seq(World!Clients), NEW o \in Nat, NEW l \in Nat, o + l <= Len(buf),
         NEW c, \A i \in o + 1 .. o + l : buf[i] # c
  PROVE  World!Count(c, SubSeq(buf \o buf, o + l + 1, o + Len(buf))) = World!Count(c, buf)
<1> DEFINE L == Len(buf)
<1>1. L \in Nat /\ o + l <= L /\ DOMAIN buf = 1 .. L
  BY LenProperties
<1>2. PICK t : /\ t = SubSeq(buf \o buf, o + l + 1, o + L)
               /\ t \in Seq(World!Clients) /\ Len(t) = L - l
               /\ \A j \in 1 .. L - l :
                    t[j] = IF j <= L - l - o THEN buf[o + l + j] ELSE buf[o + l + j - L]
  BY DoubledIs
<1>3. DOMAIN t = 1 .. L - l
  BY <1>2, LenProperties
<1> HIDE DEF L
<1> DEFINE A == {i \in 1 .. L : buf[i] = c}
           B == {j \in 1 .. L - l : t[j] = c}
           f == [j \in B |-> IF j <= L - l - o THEN o + l + j ELSE o + l + j - L]
<1>4. ASSUME NEW j \in B PROVE f[j] \in A
  <2>1. j \in 1 .. L - l /\ t[j] = c
    OBVIOUS
  <2>2. f[j] = IF j <= L - l - o THEN o + l + j ELSE o + l + j - L
    OBVIOUS
  <2>3. buf[f[j]] = c
    BY <1>2, <2>1, <2>2
  <2>4. f[j] \in 1 .. L
    BY <1>1, <2>1, <2>2
  <2> HIDE DEF f, B
  <2> QED BY <2>3, <2>4
<1>5. ASSUME NEW i \in B, NEW j \in B, f[i] = f[j] PROVE i = j
  <2>1. i \in 1 .. L - l /\ j \in 1 .. L - l
    OBVIOUS
  <2>2. /\ f[j] = IF j <= L - l - o THEN o + l + j ELSE o + l + j - L
        /\ f[i] = IF i <= L - l - o THEN o + l + i ELSE o + l + i - L
    OBVIOUS
  <2> HIDE DEF f, B
  <2> QED BY <1>1, <1>5, <2>1, <2>2
<1>6. ASSUME NEW i \in A PROVE \E j \in B : f[j] = i
  <2>1. i \in 1 .. L /\ buf[i] = c /\ i \notin o + 1 .. o + l
    OBVIOUS
  <2>2. CASE i > o + l
    <3> DEFINE j == i - o - l
    <3>1. j \in 1 .. L - l /\ j <= L - l - o /\ o + l + j = i
      BY <1>1, <2>1, <2>2
    <3> HIDE DEF j
    <3>2. t[j] = c
      BY <1>2, <2>1, <3>1
    <3>3. j \in B /\ f[j] = i
      BY <3>1, <3>2
    <3> QED BY <3>3
  <2>3. CASE i <= o
    <3> DEFINE j == i + L - o - l
    <3>1. j \in 1 .. L - l /\ ~ (j <= L - l - o) /\ o + l + j - L = i
      BY <1>1, <2>1, <2>3
    <3> HIDE DEF j
    <3>2. t[j] = c
      BY <1>2, <2>1, <3>1
    <3>3. j \in B /\ f[j] = i
      BY <3>1, <3>2
    <3> QED BY <3>3
  <2> QED BY <1>1, <2>1, <2>2, <2>3
<1>7. f \in [B -> A]
  BY <1>4
<1>8. IsFiniteSet(A)
  <2>1. IsFiniteSet(1 .. L)
    BY <1>1, FS_Interval
  <2> QED BY <2>1, FS_Subset
<1> HIDE DEF f, A, B
<1>9. f \in Bijection(B, A)
  BY <1>5, <1>6, <1>7 DEF Bijection, Injection, Surjection, IsInjective
<1>10. IsFiniteSet(B) /\ Cardinality(B) = Cardinality(A)
  <2>1. f \in Injection(B, A) /\ f \in Surjection(B, A)
    BY <1>9 DEF Bijection
  <2> QED BY <1>8, <2>1, FS_Injection
<1>11. World!Count(c, t) = Cardinality(B) /\ World!Count(c, buf) = Cardinality(A)
  BY <1>1, <1>3, CardinalityIs DEF World!Count, A, B
<1> QED BY <1>2, <1>10, <1>11 DEF L

LEMMA NotInCut ==
  ASSUME NEW buf \in Seq(World!Clients), NEW o \in Nat, NEW l \in Nat, o + l <= Len(buf),
         NEW c, \A i \in 1 .. Len(buf) : buf[i] = c => i \in o + 1 .. o + l
  PROVE  World!Count(c, SubSeq(buf \o buf, o + l + 1, o + Len(buf))) = 0
<1> DEFINE L == Len(buf)
<1>1. L \in Nat /\ o + l <= L
  BY LenProperties
<1>2. PICK t : /\ t = SubSeq(buf \o buf, o + l + 1, o + L)
               /\ t \in Seq(World!Clients) /\ Len(t) = L - l
               /\ \A j \in 1 .. L - l :
                    t[j] = IF j <= L - l - o THEN buf[o + l + j] ELSE buf[o + l + j - L]
  BY DoubledIs
<1>3. DOMAIN t = 1 .. L - l
  BY <1>2, LenProperties
<1>4. \A i \in 1 .. L : buf[i] = c => i \in o + 1 .. o + l
  OBVIOUS
<1> HIDE DEF L
<1>5. ASSUME NEW j \in 1 .. L - l PROVE t[j] # c
  <2>1. CASE j <= L - l - o
    <3>1. PICK i : i = o + l + j
      OBVIOUS
    <3>2. i \in 1 .. L /\ i \notin o + 1 .. o + l
      BY <1>1, <2>1, <3>1
    <3>3. t[j] = buf[i]
      BY <1>2, <2>1, <3>1
    <3> QED BY <1>4, <3>2, <3>3
  <2>2. CASE ~ (j <= L - l - o)
    <3>1. PICK i : i = o + l + j - L
      OBVIOUS
    <3>2. i \in 1 .. L /\ i \notin o + 1 .. o + l
      BY <1>1, <2>2, <3>1
    <3>3. t[j] = buf[i]
      BY <1>2, <2>2, <3>1
    <3> QED BY <1>4, <3>2, <3>3
  <2> QED BY <2>1, <2>2
<1>6. {j \in DOMAIN t : t[j] = c} = {}
  BY <1>3, <1>5
<1>7. World!Count(c, t) = 0
  BY <1>6, CardinalityIs, FS_EmptySet DEF World!Count
<1> QED BY <1>2, <1>7 DEF L

LEMMA OthersAreRead ==
  ASSUME ListsOK, SaidOK, NEW chan \in World!Chans, NEW h \in World!Here,
         NEW c \in World!Listed
  PROVE  World!Count(c, World!Cut(World!Gathered(chan), h)) =
           IF c \in Own(h) THEN 0 ELSE said[chan][c]
<1> DEFINE D == UNION {Own(g) : g \in World!Here}
<1>1. PICK g : g = World!Gathered(chan)
  OBVIOUS
<1>2. Heard(chan, World!Here, g)
  BY <1>1, AllGathered
<1>3. g \in Accs /\ Counted(chan, g.buf, D) /\ PartOf(g.buf, g.part[h], Own(h))
  BY <1>2 DEF Heard
<1>4. g.buf \in Seq(World!Clients)
  BY <1>3 DEF Accs
<1>5. c \in D /\ World!Count(c, g.buf) = said[chan][c]
  <2>1. c \in D
    BY DEF World!Listed, Own
  <2> QED BY <1>3, <2>1 DEF Counted
<1> HIDE DEF D
<1> DEFINE p == g.part[h]
<1>6. CASE p = World!NoPart /\ \A i \in 1 .. Len(g.buf) : g.buf[i] \notin Own(h)
  <2>1. World!Cut(g, h) = g.buf
    BY <1>6 DEF World!Cut
  <2>2. c \in Own(h) => World!Count(c, g.buf) = 0
    <3> SUFFICES ASSUME c \in Own(h) PROVE World!Count(c, g.buf) = 0
      OBVIOUS
    <3>1. {i \in DOMAIN g.buf : g.buf[i] = c} = {}
      BY <1>4, <1>6, LenProperties
    <3> QED BY <3>1, CardinalityIs, FS_EmptySet DEF World!Count
  <2> QED BY <1>1, <1>5, <2>1, <2>2
<1>7. CASE /\ p \in [off: Nat, len: Nat \ {0}] /\ p.off + p.len <= Len(g.buf)
           /\ \A i \in 1 .. Len(g.buf) : g.buf[i] \in Own(h) <=> i \in p.off + 1 .. p.off + p.len
  <2>1. p.off \in Nat /\ p.len \in Nat
    BY <1>7
  <2>2. p # World!NoPart
    BY <2>1 DEF World!NoPart
  <2>3. World!Cut(g, h) = SubSeq(g.buf \o g.buf, p.off + p.len + 1, p.off + Len(g.buf))
    BY <2>2 DEF World!Cut
  <2> HIDE DEF p
  <2>4. CASE c \in Own(h)
    <3>1. \A i \in 1 .. Len(g.buf) : g.buf[i] = c => i \in p.off + 1 .. p.off + p.len
      BY <1>7, <2>4
    <3>2. World!Count(c, SubSeq(g.buf \o g.buf, p.off + p.len + 1, p.off + Len(g.buf))) = 0
      BY <1>4, <1>7, <2>1, <3>1, NotInCut
    <3> QED BY <1>1, <2>3, <2>4, <3>2
  <2>5. CASE c \notin Own(h)
    <3>1. \A i \in p.off + 1 .. p.off + p.len : g.buf[i] # c
      <4>1. Len(g.buf) \in Nat
        BY <1>4, LenProperties
      <4>2. \A i \in p.off + 1 .. p.off + p.len : i \in 1 .. Len(g.buf)
        BY <1>7, <2>1, <4>1
      <4> QED BY <1>7, <2>5, <4>2
    <3>2. World!Count(c, SubSeq(g.buf \o g.buf, p.off + p.len + 1, p.off + Len(g.buf)))
            = World!Count(c, g.buf)
      BY <1>4, <1>7, <2>1, <3>1, CountInCut
    <3> QED BY <1>1, <1>5, <2>3, <2>5, <3>2
  <2> QED BY <2>4, <2>5
<1> QED BY <1>3, <1>6, <1>7 DEF PartOf

\* Who is in no list is not read.
LEMMA StraysAreNotRead ==
  ASSUME ListsOK, SaidOK, NEW chan \in World!Chans, NEW h \in World!Here,
         NEW c, \A g \in World!Here : c \notin Own(g)
  PROVE  World!Count(c, World!Cut(World!Gathered(chan), h)) = 0
<1>1. PICK g : g = World!Gathered(chan)
  OBVIOUS
<1>2. Heard(chan, World!Here, g)
  BY <1>1, AllGathered
<1>3. /\ g \in Accs /\ PartOf(g.buf, g.part[h], Own(h))
      /\ \A i \in 1 .. Len(g.buf) : g.buf[i] # c
  BY <1>2 DEF Heard, Counted
<1>4. g.buf \in Seq(World!Clients)
  BY <1>3 DEF Accs
<1> DEFINE p == g.part[h]
<1>5. CASE p = World!NoPart
  <2>1. World!Cut(g, h) = g.buf
    BY <1>5 DEF World!Cut
  <2>2. {i \in DOMAIN g.buf : g.buf[i] = c} = {}
    BY <1>3, <1>4, LenProperties
  <2> QED BY <1>1, <2>1, <2>2, CardinalityIs, FS_EmptySet DEF World!Count
<1>6. CASE p \in [off: Nat, len: Nat \ {0}] /\ p.off + p.len <= Len(g.buf)
  <2>1. p.off \in Nat /\ p.len \in Nat
    BY <1>6
  <2>2. p # World!NoPart
    BY <2>1 DEF World!NoPart
  <2>3. World!Cut(g, h) = SubSeq(g.buf \o g.buf, p.off + p.len + 1, p.off + Len(g.buf))
    BY <2>2 DEF World!Cut
  <2> HIDE DEF p
  <2>4. World!Count(c, SubSeq(g.buf \o g.buf, p.off + p.len + 1, p.off + Len(g.buf))) = 0
    BY <1>3, <1>4, <1>6, <2>1, NotInCut
  <2> QED BY <1>1, <2>3, <2>4
<1> QED BY <1>3, <1>5, <1>6 DEF PartOf

-----------------------------------------------------------------------------
(* Lists, what waits, and packets.                                         *)

LEMMA AppendOnce ==
  ASSUME NEW S, NEW s, Once(s, S), NEW x \in S, x \notin World!ToSet(s)
  PROVE  Once(Append(s, x), S) /\ World!ToSet(Append(s, x)) = World!ToSet(s) \cup {x}
<1> DEFINE n == Len(s)
<1>1. /\ s \in Seq(S) /\ n \in Nat /\ DOMAIN s = 1 .. n /\ World!ToSet(s) = {s[i] : i \in 1 .. n}
      /\ \A i, j \in 1 .. n : s[i] = s[j] => i = j
  BY ListIs DEF Once
<1>2. PICK t : t = Append(s, x)
  OBVIOUS
<1>3. t \in Seq(S) /\ Len(t) = n + 1 /\ (\A i \in 1 .. n : t[i] = s[i]) /\ t[n + 1] = x
  BY <1>1, <1>2, AppendProperties
<1> HIDE DEF n
<1>4. DOMAIN t = 1 .. n + 1
  BY <1>1, <1>3, LenProperties
<1>5. \A i \in 1 .. n : s[i] # x
  BY <1>1
<1>6. \A i, j \in 1 .. n + 1 : t[i] = t[j] => i = j
  BY <1>1, <1>3, <1>5
<1>7. Once(t, S)
  BY <1>3, <1>6 DEF Once
<1>8. World!ToSet(t) = World!ToSet(s) \cup {x}
  <2>1. World!ToSet(t) = {t[i] : i \in 1 .. n + 1}
    BY <1>4 DEF World!ToSet
  <2>2. 1 .. n + 1 = (1 .. n) \cup {n + 1}
    BY <1>1
  <2> QED BY <1>1, <1>3, <2>1, <2>2
<1> QED BY <1>2, <1>7, <1>8

Apart(s, u) == World!ToSet(s) \cap World!ToSet(u) = {}
Holds(s, S) == World!ToSet(s) = S

LEMMA ConcatOnce ==
  ASSUME NEW S, NEW s, NEW u, Once(s, S), Once(u, S), Apart(s, u)
  PROVE  Once(s \o u, S) /\ Holds(s \o u, World!ToSet(s) \cup World!ToSet(u))
<1> DEFINE n == Len(s)
           m == Len(u)
<1>1. /\ s \in Seq(S) /\ n \in Nat /\ World!ToSet(s) = {s[i] : i \in 1 .. n}
      /\ \A i, j \in 1 .. n : s[i] = s[j] => i = j
  BY ListIs DEF Once
<1>2. /\ u \in Seq(S) /\ m \in Nat /\ World!ToSet(u) = {u[i] : i \in 1 .. m}
      /\ \A i, j \in 1 .. m : u[i] = u[j] => i = j
  BY ListIs DEF Once
<1>3. PICK t : t = s \o u
  OBVIOUS
<1>4. t \in Seq(S) /\ Len(t) = n + m
      /\ \A i \in 1 .. n + m : t[i] = IF i <= n THEN s[i] ELSE u[i - n]
  BY <1>1, <1>2, <1>3, ConcatProperties
<1> HIDE DEF n, m
<1>5. DOMAIN t = 1 .. n + m
  BY <1>4, LenProperties
<1>6. \A i \in 1 .. n, j \in 1 .. m : s[i] # u[j]
  BY <1>1, <1>2 DEF Apart
<1>7. ASSUME NEW i \in 1 .. n + m
      PROVE  \/ i \in 1 .. n /\ t[i] = s[i]
             \/ i - n \in 1 .. m /\ t[i] = u[i - n] /\ i \notin 1 .. n
  BY <1>1, <1>2, <1>4
<1>8. ASSUME NEW i \in 1 .. n + m, NEW j \in 1 .. n + m, t[i] = t[j] PROVE i = j
  <2>1. CASE i \in 1 .. n /\ t[i] = s[i]
    BY <1>1, <1>6, <1>7, <1>8, <2>1
  <2>2. CASE i - n \in 1 .. m /\ t[i] = u[i - n] /\ i \notin 1 .. n
    <3>1. j - n \in 1 .. m /\ t[j] = u[j - n]
      BY <1>6, <1>7, <1>8, <2>2
    <3>2. i - n = j - n
      BY <1>2, <1>8, <2>2, <3>1
    <3> QED BY <1>1, <3>2
  <2> QED BY <1>7, <2>1, <2>2
<1>9. Once(t, S)
  BY <1>4, <1>8 DEF Once
<1>10. World!ToSet(t) = World!ToSet(s) \cup World!ToSet(u)
  <2>1. World!ToSet(t) = {t[i] : i \in 1 .. n + m}
    BY <1>5 DEF World!ToSet
  <2>2. World!ToSet(t) \subseteq World!ToSet(s) \cup World!ToSet(u)
    BY <1>1, <1>2, <1>7, <2>1
  <2>3. \A i \in 1 .. n : i \in 1 .. n + m /\ t[i] = s[i]
    BY <1>1, <1>2, <1>4
  <2>4. ASSUME NEW i \in 1 .. m PROVE n + i \in 1 .. n + m /\ t[n + i] = u[i]
    <3>2. PICK k : k = n + i
      OBVIOUS
    <3>1. k \in 1 .. n + m /\ ~ (k <= n) /\ k - n = i
      BY <1>1, <1>2, <3>2
    <3>3. t[k] = u[i]
      BY <1>4, <3>1
    <3> QED BY <3>1, <3>2, <3>3
  <2>5. World!ToSet(s) \subseteq World!ToSet(t)
    BY <1>1, <2>1, <2>3
  <2>6. World!ToSet(u) \subseteq World!ToSet(t)
    <3> HIDE DEF m
    <3> QED BY <1>2, <2>1, <2>4
  <2> QED BY <2>2, <2>5, <2>6
<1> QED BY <1>3, <1>9, <1>10 DEF Holds

LEMMA RemoveOnce ==
  ASSUME NEW S, NEW s, Once(s, S), NEW x
  PROVE  Once(World!RemoveFirst(s, x), S)
         /\ World!ToSet(World!RemoveFirst(s, x)) = World!ToSet(s) \ {x}
<1> DEFINE n == Len(s)
<1>1. /\ s \in Seq(S) /\ n \in Nat /\ DOMAIN s = 1 .. n /\ World!ToSet(s) = {s[i] : i \in 1 .. n}
      /\ (\A i, j \in 1 .. n : s[i] = s[j] => i = j) /\ \A i \in 1 .. n : s[i] \in S
  BY ListIs DEF Once
<1>2. CASE \A i \in 1 .. n : s[i] # x
  <2>1. World!RemoveFirst(s, x) = s
    BY <1>2 DEF World!RemoveFirst
  <2> QED BY <1>1, <1>2, <2>1
<1>3. ASSUME NEW k \in 1 .. n, s[k] = x
      PROVE  Once(World!RemoveFirst(s, x), S)
             /\ World!ToSet(World!RemoveFirst(s, x)) = World!ToSet(s) \ {x}
  <2> DEFINE I == {i \in 1 .. Len(s) : s[i] = x}
  <2>1. I = {k}
    BY <1>1, <1>3
  <2>2. World!Min(I) = k
    <3>1. \A i \in I : i = k
      BY <2>1
    <3>2. k \in I /\ \A i \in I : k =< i
      BY <1>1, <2>1
    <3> HIDE DEF I
    <3> QED BY <3>1, <3>2 DEF World!Min
  <2>3. World!SelectInSeq(s, LAMBDA v : v = x) = k
    BY <2>1, <2>2 DEF World!SelectInSeq
  <2>4. World!RemoveFirst(s, x) = SubSeq(s, 1, k - 1) \o SubSeq(s, k + 1, n)
    BY <1>3, <2>3 DEF World!RemoveFirst, World!RemoveAt
  <2> HIDE DEF I, n
  <2>5. PICK a, b : a = SubSeq(s, 1, k - 1) /\ b = SubSeq(s, k + 1, n)
    OBVIOUS
  <2>6. a \in Seq(S) /\ Len(a) = k - 1 /\ \A i \in 1 .. k - 1 : a[i] = s[i]
    <3>1. \A i \in 1 .. k - 1 : s[i] \in S
      BY <1>1
    <3>2. /\ SubSeq(s, 1, k - 1) \in Seq(S)
          /\ Len(SubSeq(s, 1, k - 1)) = IF 1 <= k - 1 THEN k - 1 - 1 + 1 ELSE 0
          /\ \A i \in 1 .. k - 1 - 1 + 1 : SubSeq(s, 1, k - 1)[i] = s[1 + i - 1]
      BY <3>1, SubSeqProperties
    <3> QED BY <2>5, <3>2
  <2>7. b \in Seq(S) /\ Len(b) = n - k /\ \A i \in 1 .. n - k : b[i] = s[k + i]
    <3>1. \A i \in k + 1 .. n : s[i] \in S
      BY <1>1
    <3>2. /\ SubSeq(s, k + 1, n) \in Seq(S)
          /\ Len(SubSeq(s, k + 1, n)) = IF k + 1 <= n THEN n - (k + 1) + 1 ELSE 0
          /\ \A i \in 1 .. n - (k + 1) + 1 : SubSeq(s, k + 1, n)[i] = s[k + 1 + i - 1]
      BY <1>1, <3>1, SubSeqProperties
    <3>3. n - (k + 1) + 1 = n - k /\ (~ (k + 1 <= n) => n - k = 0)
      BY <1>1
    <3>4. \A i \in 1 .. n - k : k + 1 + i - 1 = k + i
      BY <1>1
    <3> QED BY <2>5, <3>2, <3>3, <3>4
  <2>8. /\ Once(a, S) /\ World!ToSet(a) = {s[i] : i \in 1 .. k - 1}
    <3>1. \A i, j \in 1 .. k - 1 : i \in 1 .. n /\ j \in 1 .. n
      BY <1>1
    <3>2. \A i, j \in 1 .. k - 1 : a[i] = a[j] => i = j
      BY <1>1, <2>6, <3>1
    <3>3. Once(a, S)
      BY <2>6, <3>2 DEF Once
    <3> QED BY <2>6, <3>3, ListIs
  <2>9. /\ Once(b, S) /\ World!ToSet(b) = {s[i] : i \in k + 1 .. n}
    <3>1. \A i \in 1 .. n - k : k + i \in k + 1 .. n /\ k + i \in 1 .. n
      BY <1>1
    <3>2. ASSUME NEW i \in 1 .. n - k, NEW j \in 1 .. n - k, b[i] = b[j] PROVE i = j
      <4>1. k + i = k + j
        BY <1>1, <2>7, <3>1, <3>2
      <4> QED BY <4>1
    <3>3. Once(b, S)
      BY <2>7, <3>2 DEF Once
    <3>4. World!ToSet(b) = {b[i] : i \in 1 .. n - k}
      BY <2>7, <3>3, ListIs
    <3>5. \A i \in k + 1 .. n : i - k \in 1 .. n - k /\ k + (i - k) = i
      BY <1>1
    <3>6. \A i \in k + 1 .. n : b[i - k] = s[i]
      BY <2>7, <3>5
    <3> QED BY <2>7, <3>1, <3>3, <3>4, <3>5, <3>6
  <2>10. World!ToSet(a) \cap World!ToSet(b) = {}
    BY <1>1, <2>8, <2>9
  <2>11. Once(a \o b, S) /\ World!ToSet(a \o b) = World!ToSet(a) \cup World!ToSet(b)
    BY <2>8, <2>9, <2>10, ConcatOnce DEF Apart, Holds
  <2>12. World!ToSet(a) \cup World!ToSet(b) = World!ToSet(s) \ {x}
    <3>1. 1 .. n = ((1 .. k - 1) \cup (k + 1 .. n)) \cup {k} /\ k \notin 1 .. k - 1
          /\ k \notin k + 1 .. n
      BY <1>1
    <3> QED BY <1>1, <1>3, <2>8, <2>9, <3>1
  <2> QED BY <2>4, <2>5, <2>11, <2>12
<1> QED BY <1>2, <1>3

\* No packet of a world state is counted twice or forgotten.
PacketsOK ==
  /\ packets \subseteq World!Packets
  /\ uses = [w \in World!Places |-> Cardinality({p \in packets : p.world = w})]

SaidBounded == said \in [World!Chans -> [World!Clients -> 0 .. MaxSaid]]

\* The inductive invariant
WorldInv == ListsOK /\ StraysOK /\ SaidBounded /\ dead \subseteq World!Here /\ PacketsOK

-----------------------------------------------------------------------------
(* How much waits.                                                         *)

Given(s) == CHOOSE x \in s : TRUE
Waits(c) == said["positions"][c] + said["messages"][c]
WaitsUp(g, D) == g = [s \in D |-> IF s = {} THEN 0
                                  ELSE g[s \ {Given(s)}] + said["positions"][Given(s)]
                                         + said["messages"][Given(s)]]

LEMMA ClientsAreFinite == IsFiniteSet(World!Clients)
BY SlotsAssumption, WorldAssumption, FS_Union DEF World!Clients

LEMMA WaitsExist == \E g : WaitsUp(g, SUBSET World!Clients)
<1> DEFINE S == World!Clients
           Upto(n) == {s \in SUBSET S : Cardinality(s) <= n}
           T == {n \in Nat : \E g : WaitsUp(g, Upto(n))}
<1>1. ASSUME NEW s \in SUBSET S
      PROVE  IsFiniteSet(s) /\ Cardinality(s) \in Nat /\ Cardinality(s) <= Cardinality(S)
             /\ (Cardinality(s) = 0 <=> s = {})
  <2>1. IsFiniteSet(s) /\ Cardinality(s) <= Cardinality(S)
    BY ClientsAreFinite, FS_Subset
  <2> QED BY <2>1, FS_CardinalityType, FS_EmptySet
<1>2. ASSUME NEW s \in SUBSET S, s # {}
      PROVE  s \ {Given(s)} \in SUBSET S /\ Cardinality(s \ {Given(s)}) = Cardinality(s) - 1
  <2>1. Given(s) \in s
    BY <1>2 DEF Given
  <2> QED BY <1>1, <2>1, FS_RemoveElement
<1> HIDE DEF S
<1>3. 0 \in T
  <2> DEFINE g == [s \in Upto(0) |-> 0]
  <2>1. \A s \in Upto(0) : s = {}
    BY <1>1
  <2> HIDE DEF Upto
  <2>2. g = [s \in Upto(0) |-> IF s = {} THEN 0
                               ELSE g[s \ {Given(s)}] + said["positions"][Given(s)]
                                      + said["messages"][Given(s)]]
    BY <2>1
  <2> QED BY <2>2 DEF WaitsUp
<1>4. ASSUME NEW n \in Nat, n \in T PROVE n + 1 \in T
  <2>1. PICK g : WaitsUp(g, Upto(n))
    BY <1>4
  <2> DEFINE h == [s \in Upto(n + 1) |-> IF s = {} THEN 0
                                         ELSE g[s \ {Given(s)}] + said["positions"][Given(s)]
                                                + said["messages"][Given(s)]]
  <2>2. ASSUME NEW s \in Upto(n + 1), s # {}
        PROVE  g[s \ {Given(s)}] = h[s \ {Given(s)}]
    <3> DEFINE r == s \ {Given(s)}
    <3>0. /\ s \in SUBSET S /\ Cardinality(s) \in Nat /\ Cardinality(s) <= n + 1
          /\ r \in SUBSET S /\ Cardinality(r) = Cardinality(s) - 1
      BY <1>1, <1>2, <2>2
    <3>1. r \in Upto(n) /\ r \in Upto(n + 1)
      <4> HIDE DEF r
      <4> QED BY <3>0
    <3> HIDE DEF r, Upto
    <3>2. g[r] = IF r = {} THEN 0
                 ELSE g[r \ {Given(r)}] + said["positions"][Given(r)] + said["messages"][Given(r)]
      BY <2>1, <3>1 DEF WaitsUp
    <3> QED BY <3>1, <3>2 DEF r
  <2>3. h = [s \in Upto(n + 1) |-> IF s = {} THEN 0
                                   ELSE h[s \ {Given(s)}] + said["positions"][Given(s)]
                                          + said["messages"][Given(s)]]
    <3> HIDE DEF Upto
    <3> QED BY <2>2
  <2>4. WaitsUp(h, Upto(n + 1))
    <3> HIDE DEF h
    <3> QED BY <2>3 DEF WaitsUp
  <2> HIDE DEF h, Upto
  <2> QED BY <2>4
<1>5. Cardinality(S) \in T
  <2>1. Cardinality(S) \in Nat
    BY ClientsAreFinite, FS_CardinalityType DEF S
  <2> HIDE DEF T
  <2> QED BY <1>3, <1>4, <2>1, InductiveSet
<1>6. Upto(Cardinality(S)) = SUBSET S
  BY <1>1
<1>7. PICK g : WaitsUp(g, Upto(Cardinality(S)))
  BY <1>5
<1> HIDE DEF Upto
<1> QED BY <1>6, <1>7 DEF S

\* Nobody has said more than waits in all.
LEMMA PendingBounds ==
  ASSUME SaidBounded
  PROVE  World!Pending \in Nat /\ \A c \in World!Clients : Waits(c) <= World!Pending
<1> DEFINE S == World!Clients
           g == CHOOSE f : WaitsUp(f, SUBSET S)
<1>1. WaitsUp(g, SUBSET S)
  BY WaitsExist
<1>2. World!Pending = g[S]
  BY Zenon, PendingIs DEF WaitsUp, Given
<1> HIDE DEF g
<1>3. \A c \in S : Waits(c) \in Nat /\ said["positions"][c] \in Nat /\ said["messages"][c] \in Nat
  <2>1. "positions" \in World!Chans /\ "messages" \in World!Chans
    BY DEF World!Chans
  <2>2. \A c \in S : said["positions"][c] \in 0 .. MaxSaid /\ said["messages"][c] \in 0 .. MaxSaid
    BY <2>1 DEF SaidBounded
  <2> QED BY <2>2 DEF Waits
<1>4. IsFiniteSet(S)
  BY ClientsAreFinite
<1> HIDE DEF S
<1>5. \A s \in SUBSET S : g[s] = IF s = {} THEN 0
                                 ELSE g[s \ {Given(s)}] + said["positions"][Given(s)]
                                        + said["messages"][Given(s)]
  BY <1>1 DEF WaitsUp
<1> DEFINE N == {n \in Nat : \A s \in SUBSET S : Cardinality(s) = n =>
                              g[s] \in Nat /\ \A x \in s : Waits(x) <= g[s]}
<1>6. 0 \in N
  <2> SUFFICES ASSUME NEW s \in SUBSET S, Cardinality(s) = 0
               PROVE  g[s] \in Nat /\ \A x \in s : Waits(x) <= g[s]
    OBVIOUS
  <2>1. s = {}
    BY <1>4, FS_Subset, FS_EmptySet
  <2> QED BY <1>5, <2>1
<1>7. ASSUME NEW n \in Nat, n \in N PROVE n + 1 \in N
  <2> SUFFICES ASSUME NEW s \in SUBSET S, Cardinality(s) = n + 1
               PROVE  g[s] \in Nat /\ \A x \in s : Waits(x) <= g[s]
    OBVIOUS
  <2>1. IsFiniteSet(s) /\ s # {}
    BY <1>4, FS_Subset, FS_EmptySet
  <2>2. PICK y : y = Given(s) /\ y \in s
    BY <2>1 DEF Given
  <2>3. Cardinality(s \ {y}) = n
    <3>1. Cardinality(s \ {y}) = Cardinality(s) - 1
      BY <2>1, <2>2, FS_RemoveElement
    <3> QED BY <3>1
  <2>4. g[s \ {y}] \in Nat /\ \A x \in s \ {y} : Waits(x) <= g[s \ {y}]
    BY <1>7, <2>3
  <2>5. g[s] = g[s \ {y}] + said["positions"][y] + said["messages"][y]
    BY <1>5, <2>1, <2>2
  <2>6. g[s] = g[s \ {y}] + Waits(y)
    BY <1>3, <2>2, <2>4, <2>5 DEF Waits
  <2> HIDE DEF N
  <2> QED BY <1>3, <2>2, <2>4, <2>6
<1>8. Cardinality(S) \in N
  <2>1. Cardinality(S) \in Nat
    BY <1>4, FS_CardinalityType
  <2> HIDE DEF N
  <2> QED BY <1>6, <1>7, <2>1, InductiveSet
<1>9. g[S] \in Nat /\ \A x \in S : Waits(x) <= g[S]
  BY <1>8
<1> QED BY <1>2, <1>9 DEF S

-----------------------------------------------------------------------------
(* Packets.                                                                *)

LEMMA PacketsAreFinite == IsFiniteSet(World!Packets)
<1> DEFINE B == World!Places \X (World!Chans \X Slots)
           f == [p \in World!Packets |-> <<p.world, <<p.chan, p.to>>>>]
<1>1. IsFiniteSet(World!Places) /\ IsFiniteSet(World!Chans) /\ IsFiniteSet(Slots)
  <2>1. IsFiniteSet(World!Places)
    BY WorldAssumption, FS_Interval DEF World!Places
  <2>2. IsFiniteSet(World!Chans)
    <3>1. IsFiniteSet({"positions"} \cup {"messages"})
      BY FS_Singleton, FS_AddElement
    <3>2. World!Chans = {"positions"} \cup {"messages"}
      BY DEF World!Chans
    <3> QED BY <3>1, <3>2
  <2> QED BY <2>1, <2>2, SlotsAssumption
<1>2. IsFiniteSet(World!Chans \X Slots)
  BY <1>1, FS_Product
<1>3. IsFiniteSet(B)
  BY <1>1, <1>2, FS_Product
<1>4. f \in [World!Packets -> B]
  BY DEF World!Packets
<1>5. ASSUME NEW p \in World!Packets, NEW q \in World!Packets, f[p] = f[q] PROVE p = q
  <2>1. p.world = q.world /\ p.chan = q.chan /\ p.to = q.to
    BY <1>5
  <2> QED BY <2>1 DEF World!Packets
<1> HIDE DEF f, B
<1>6. f \in Injection(World!Packets, B)
  BY <1>4, <1>5 DEF Injection, IsInjective
<1> QED BY <1>3, <1>6, FS_Injection

LEMMA FreedOnce ==
  ASSUME PacketsOK, NEW freed \in SUBSET packets, World!Free(freed)
  PROVE  PacketsOK'
<1>1. packets' = packets \ freed
      /\ uses' = [w \in World!Places |->
                   uses[w] - World!Cardinality({p \in freed : p.world = w})]
  BY DEF World!Free, World!Cleaned
<1>2. packets' \subseteq World!Packets /\ uses' = [w \in World!Places |-> uses'[w]]
  BY <1>1 DEF PacketsOK
<1>3. ASSUME NEW w \in World!Places
      PROVE  uses'[w] = Cardinality({p \in packets' : p.world = w})
  <2> DEFINE A == {p \in packets : p.world = w}
             F == {p \in freed : p.world = w}
  <2>1. {p \in packets' : p.world = w} = A \ F /\ F \subseteq A /\ A \subseteq World!Packets
    BY <1>1 DEF PacketsOK
  <2>2. uses[w] = Cardinality(A) /\ uses'[w] = uses[w] - Cardinality(F)
    BY <1>1, CardinalityIs DEF PacketsOK
  <2> HIDE DEF A, F
  <2>3. IsFiniteSet(A) /\ IsFiniteSet(F)
    BY <2>1, PacketsAreFinite, FS_Subset
  <2>4. A \cap F = F /\ Cardinality(A) \in Nat /\ Cardinality(F) \in Nat
    BY <2>1, <2>3, FS_CardinalityType
  <2>5. Cardinality(A \ F) = Cardinality(A) - Cardinality(A \cap F)
    BY <2>3, FS_Difference
  <2> QED BY <2>1, <2>2, <2>4, <2>5
<1> QED BY <1>2, <1>3 DEF PacketsOK

LEMMA PacketsStay == ASSUME PacketsOK, UNCHANGED <<uses, packets>> PROVE PacketsOK'
BY DEF PacketsOK

-----------------------------------------------------------------------------
(* The steps.                                                              *)

LEMMA ListsStay == ASSUME ListsOK, UNCHANGED <<listeners, bots>> PROVE ListsOK'
BY DEF ListsOK

LEMMA StraysStay == ASSUME StraysOK, UNCHANGED <<bots, orphans, taken>> PROVE StraysOK'
BY DEF StraysOK, Strays

LEMMA ConnectLists ==
  ASSUME WorldInv, NEW h \in Slots, World!Connect(h)
  PROVE  ListsOK' /\ World!Here' = World!Here \cup {h}
<1>1. /\ h \notin World!ToSet(listeners) /\ listeners' = Append(listeners, h) /\ bots' = bots
      /\ ListsOK
  BY DEF World!Connect, WorldInv, World!Here
<1>2. Once(listeners, Slots)
  BY <1>1 DEF ListsOK
<1>3. Once(listeners', Slots) /\ World!ToSet(listeners') = World!ToSet(listeners) \cup {h}
  BY <1>1, <1>2, AppendOnce
<1> QED BY <1>1, <1>3 DEF ListsOK, World!Here

LEMMA PlayLists ==
  ASSUME WorldInv, NEW b \in Bots, NEW h \in Slots, World!Play(b, h)
  PROVE  ListsOK' /\ StraysOK'
<1>1. ListsOK /\ listeners' = listeners
      /\ bots' = [g \in Slots |-> IF g = h THEN Append(World!RemoveFirst(bots[h], b), b)
                                  ELSE World!RemoveFirst(bots[g], b)]
  BY DEF World!Play, WorldInv
<1>2. ASSUME NEW g \in Slots
      PROVE  Once(World!RemoveFirst(bots[g], b), Bots)
             /\ World!ToSet(World!RemoveFirst(bots[g], b)) = World!ToSet(bots[g]) \ {b}
  <2>1. Once(bots[g], Bots)
    BY <1>1 DEF ListsOK
  <2> QED BY <2>1, RemoveOnce
<1>3. ASSUME NEW g \in Slots, g # h
      PROVE  Once(bots'[g], Bots) /\ World!ToSet(bots'[g]) = World!ToSet(bots[g]) \ {b}
  <2>1. bots'[g] = World!RemoveFirst(bots[g], b)
    BY <1>1, <1>3
  <2> QED BY <1>2, <2>1
<1>4. Once(bots'[h], Bots) /\ World!ToSet(bots'[h]) = World!ToSet(bots[h]) \cup {b}
  <2>1. PICK s : s = World!RemoveFirst(bots[h], b)
    OBVIOUS
  <2>2. Once(s, Bots) /\ World!ToSet(s) = World!ToSet(bots[h]) \ {b}
    BY <1>2, <2>1
  <2>3. b \notin World!ToSet(s)
    BY <2>2
  <2>4. Once(Append(s, b), Bots) /\ World!ToSet(Append(s, b)) = World!ToSet(s) \cup {b}
    BY <2>2, <2>3, AppendOnce
  <2>5. bots'[h] = Append(s, b)
    BY <1>1, <2>1
  <2> QED BY <2>2, <2>4, <2>5
<1>5. DOMAIN bots' = Slots /\ \A g \in Slots : Once(bots'[g], Bots)
  BY <1>1, <1>3, <1>4
<1>6. ASSUME NEW f \in Slots, NEW g \in Slots, f # g
      PROVE  World!ToSet(bots'[f]) \cap World!ToSet(bots'[g]) = {}
  <2>1. World!ToSet(bots[f]) \cap World!ToSet(bots[g]) = {}
    BY <1>1, <1>6 DEF ListsOK
  <2>2. CASE f = h
    BY <1>3, <1>4, <1>6, <2>1, <2>2
  <2>3. CASE g = h
    BY <1>3, <1>4, <1>6, <2>1, <2>3
  <2>4. CASE f # h /\ g # h
    BY <1>3, <2>1, <2>4
  <2> QED BY <2>2, <2>3, <2>4
<1>7. Once(listeners', Slots)
  BY <1>1 DEF ListsOK
<1>8. ListsOK'
  BY <1>5, <1>6, <1>7 DEF ListsOK
<1>9. StraysOK'
  <2>1. UNCHANGED <<orphans, taken>> /\ b \notin Strays /\ StraysOK
    BY DEF World!Play, WorldInv, Strays
  <2>2. Strays' = Strays /\ orphans' \subseteq Bots /\ taken' \subseteq Bots
        /\ \A g \in Slots : World!ToSet(bots[g]) \cap Strays = {}
    BY <2>1 DEF Strays, StraysOK
  <2>3. \A g \in Slots : World!ToSet(bots'[g]) \subseteq World!ToSet(bots[g]) \cup {b}
    BY <1>3, <1>4
  <2>4. \A g \in Slots : World!ToSet(bots'[g]) \cap Strays' = {}
    BY <2>1, <2>2, <2>3
  <2> QED BY <2>2, <2>4 DEF StraysOK
<1> QED BY <1>8, <1>9

\* removeai(): the bots of h go to the list of another, or are in no list.
LEMMA RemoveLists ==
  ASSUME ListsOK, StraysOK, NEW h \in Slots, NEW others, others \subseteq Slots \ {h},
         World!RemoveAI(h, others), Once(listeners', Slots)
  PROVE  ListsOK' /\ StraysOK'
<1>1. /\ DOMAIN bots = Slots
      /\ \A g \in Slots : Once(bots[g], Bots)
      /\ \A f, g \in Slots : f # g => World!ToSet(bots[f]) \cap World!ToSet(bots[g]) = {}
  BY DEF ListsOK
<1>2. Once(<<>>, Bots) /\ World!ToSet(<<>>) = {}
  BY DEF Once, World!ToSet
<1>3. World!ToSet(bots[h]) \subseteq Bots
  BY <1>1, ListIs
<1>4. CASE /\ bots' = [bots EXCEPT ![h] = <<>>]
           /\ orphans' = orphans \cup World!ToSet(bots[h]) /\ taken' = taken
  <2>1. DOMAIN bots' = Slots /\ bots'[h] = <<>> /\ \A g \in Slots : g # h => bots'[g] = bots[g]
    BY <1>1, <1>4
  <2>2. \A g \in Slots : /\ Once(bots'[g], Bots)
                         /\ World!ToSet(bots'[g]) = IF g = h THEN {} ELSE World!ToSet(bots[g])
    BY <1>1, <1>2, <2>1
  <2>3. ListsOK'
    BY <1>1, <2>1, <2>2 DEF ListsOK
  <2>4. StraysOK'
    <3>1. orphans' \subseteq Bots /\ taken' \subseteq Bots
      BY <1>3, <1>4 DEF StraysOK
    <3>2. ASSUME NEW g \in Slots PROVE World!ToSet(bots'[g]) \cap Strays' = {}
      <4>1. CASE g = h
        BY <2>2, <4>1
      <4>2. CASE g # h
        <5>1. World!ToSet(bots'[g]) = World!ToSet(bots[g])
          BY <2>2, <4>2
        <5>2. Strays' = Strays \cup World!ToSet(bots[h])
          BY <1>4 DEF Strays
        <5>3. World!ToSet(bots[g]) \cap Strays = {}
          BY DEF StraysOK
        <5> QED BY <1>1, <4>2, <5>1, <5>2, <5>3
      <4> QED BY <4>1, <4>2
    <3> QED BY <3>1, <3>2 DEF StraysOK
  <2> QED BY <2>3, <2>4
<1>5. ASSUME NEW heir \in others, bots' = [bots EXCEPT ![heir] = bots[heir] \o bots[h], ![h] = <<>>],
             UNCHANGED <<orphans, taken>>
      PROVE  ListsOK' /\ StraysOK'
  <2>0. heir \in Slots /\ heir # h
    OBVIOUS
  <2>1. /\ DOMAIN bots' = Slots /\ bots'[h] = <<>> /\ bots'[heir] = bots[heir] \o bots[h]
        /\ \A g \in Slots : g # h /\ g # heir => bots'[g] = bots[g]
    BY <1>1, <1>5, <2>0
  <2>2. /\ Once(bots'[heir], Bots)
        /\ World!ToSet(bots'[heir]) = World!ToSet(bots[heir]) \cup World!ToSet(bots[h])
    <3>1. PICK s, u : s = bots[heir] /\ u = bots[h]
      OBVIOUS
    <3>2. Once(s, Bots) /\ Once(u, Bots) /\ Apart(s, u)
      BY <1>1, <2>0, <3>1 DEF Apart
    <3>3. Once(s \o u, Bots) /\ Holds(s \o u, World!ToSet(s) \cup World!ToSet(u))
      BY <3>2, ConcatOnce
    <3> QED BY <2>1, <3>1, <3>3 DEF Holds
  <2>3. \A g \in Slots :
          /\ Once(bots'[g], Bots)
          /\ World!ToSet(bots'[g]) =
               IF g = h THEN {}
               ELSE IF g = heir THEN World!ToSet(bots[heir]) \cup World!ToSet(bots[h])
               ELSE World!ToSet(bots[g])
    BY <1>1, <1>2, <2>0, <2>1, <2>2
  <2>4. ASSUME NEW f \in Slots, NEW g \in Slots, f # g
        PROVE  World!ToSet(bots'[f]) \cap World!ToSet(bots'[g]) = {}
    <3>1. /\ World!ToSet(bots[f]) \cap World!ToSet(bots[g]) = {}
          /\ f # h => World!ToSet(bots[f]) \cap World!ToSet(bots[h]) = {}
          /\ g # h => World!ToSet(bots[g]) \cap World!ToSet(bots[h]) = {}
      BY <1>1, <2>4
    <3> QED BY <2>3, <2>4, <3>1
  <2>5. ListsOK'
    BY <2>1, <2>3, <2>4 DEF ListsOK
  <2>6. StraysOK'
    <3>1. Strays' = Strays /\ orphans' \subseteq Bots /\ taken' \subseteq Bots
      BY <1>5 DEF Strays, StraysOK
    <3>2. \A g \in Slots : World!ToSet(bots[g]) \cap Strays = {}
      BY DEF StraysOK
    <3>3. \A g \in Slots : World!ToSet(bots'[g]) \cap Strays' = {}
      BY <2>0, <2>3, <3>1, <3>2
    <3> QED BY <3>1, <3>3 DEF StraysOK
  <2> QED BY <2>5, <2>6
<1> QED BY <1>4, <1>5 DEF World!RemoveAI

LEMMA HereAreSlots == ASSUME ListsOK PROVE World!Here \subseteq Slots
<1>1. Once(listeners, Slots)
  BY DEF ListsOK
<1> QED BY <1>1, ListIs DEF World!Here

LEMMA DisconnectLists ==
  ASSUME WorldInv, NEW h \in Slots, World!Disconnect(h)
  PROVE  /\ ListsOK' /\ StraysOK' /\ World!Here' = World!Here \ {h}
         /\ \E C : World!Forgotten(C)
<1>1. /\ ListsOK /\ StraysOK /\ h \in World!Here
      /\ listeners' = World!RemoveFirst(listeners, h)
  BY DEF World!Disconnect, WorldInv
<1>2. Once(listeners, Slots)
  BY <1>1 DEF ListsOK
<1>3. Once(listeners', Slots) /\ World!ToSet(listeners') = World!ToSet(listeners) \ {h}
  BY <1>1, <1>2, RemoveOnce
<1>4. World!Here' = World!Here \ {h}
  BY <1>3 DEF World!Here
<1>5. CASE World!ClearAI /\ World!Forgotten(Bots \cup {h})
  <2>1. bots' = [g \in Slots |-> <<>>] /\ orphans' = {} /\ taken' = {}
    BY <1>5 DEF World!ClearAI
  <2>2. Once(<<>>, Bots) /\ World!ToSet(<<>>) = {}
    BY DEF Once, World!ToSet
  <2>3. ListsOK'
    BY <1>3, <2>1, <2>2 DEF ListsOK
  <2>4. StraysOK'
    BY <2>1 DEF StraysOK, Strays
  <2> QED BY <1>4, <1>5, <2>3, <2>4
<1>6. CASE World!RemoveAI(h, World!Here \ {h}) /\ World!Forgotten({h})
  <2>1. PICK others : others = World!Here \ {h}
    OBVIOUS
  <2>2. others \subseteq Slots \ {h} /\ World!RemoveAI(h, others)
    BY <1>1, <1>6, <2>1, HereAreSlots
  <2>3. ListsOK' /\ StraysOK'
    BY <1>1, <1>3, <2>2, RemoveLists
  <2> QED BY <1>4, <1>6, <2>3
<1> QED BY <1>5, <1>6 DEF World!Disconnect

LEMMA LoseLists ==
  ASSUME WorldInv, NEW h \in Slots, World!LoseBots(h)
  PROVE  ListsOK' /\ StraysOK'
<1>1. ListsOK /\ StraysOK /\ World!RemoveAI(h, World!Here \ {h}) /\ listeners' = listeners
  BY DEF WorldInv, World!LoseBots
<1>2. PICK others : others = World!Here \ {h}
  OBVIOUS
<1>3. others \subseteq Slots \ {h} /\ World!RemoveAI(h, others)
  BY <1>1, <1>2, HereAreSlots
<1>4. Once(listeners', Slots)
  BY <1>1 DEF ListsOK
<1> QED BY <1>1, <1>3, <1>4, RemoveLists

\* A bot that is deleted is in no list any more.
LEMMA DeleteLists ==
  ASSUME WorldInv, NEW b \in Bots, World!Delete(b)
  PROVE  ListsOK' /\ StraysOK'
<1>1. /\ ListsOK /\ StraysOK /\ listeners' = listeners
      /\ bots' = [g \in Slots |-> World!RemoveFirst(bots[g], b)]
      /\ orphans' = orphans \ {b} /\ taken' = taken \ {b}
  BY DEF WorldInv, World!Delete
<1>2. ASSUME NEW g \in Slots
      PROVE  Once(bots'[g], Bots) /\ World!ToSet(bots'[g]) = World!ToSet(bots[g]) \ {b}
  <2>1. Once(bots[g], Bots)
    BY <1>1 DEF ListsOK
  <2> QED BY <1>1, <2>1, RemoveOnce
<1>3. \A f, g \in Slots : f # g => World!ToSet(bots'[f]) \cap World!ToSet(bots'[g]) = {}
  <2> SUFFICES ASSUME NEW f \in Slots, NEW g \in Slots, f # g
               PROVE  World!ToSet(bots'[f]) \cap World!ToSet(bots'[g]) = {}
    OBVIOUS
  <2>1. World!ToSet(bots[f]) \cap World!ToSet(bots[g]) = {}
    BY <1>1 DEF ListsOK
  <2> QED BY <1>2, <2>1
<1>4. ListsOK'
  BY <1>1, <1>2, <1>3 DEF ListsOK
<1>5. StraysOK'
  <2>1. Strays' \subseteq Strays /\ orphans' \subseteq Bots /\ taken' \subseteq Bots
    BY <1>1 DEF Strays, StraysOK
  <2>2. \A g \in Slots : World!ToSet(bots[g]) \cap Strays = {}
    BY <1>1 DEF StraysOK
  <2>3. \A g \in Slots : World!ToSet(bots'[g]) \cap Strays' = {}
    BY <1>2, <2>1, <2>2
  <2> QED BY <2>1, <2>3 DEF StraysOK
<1> QED BY <1>4, <1>5

LEMMA TakeOverLists ==
  ASSUME WorldInv, NEW b \in Bots, World!TakeOver(b)
  PROVE  ListsOK' /\ StraysOK'
<1>1. /\ ListsOK /\ StraysOK /\ UNCHANGED <<listeners, bots>> /\ b \in orphans
      /\ orphans' = orphans \ {b} /\ taken' = taken \cup {b}
  BY DEF WorldInv, World!TakeOver
<1>2. Strays' = Strays /\ orphans' \subseteq Bots /\ taken' \subseteq Bots
  BY <1>1 DEF Strays, StraysOK
<1>3. StraysOK'
  BY <1>1, <1>2 DEF StraysOK
<1> QED BY <1>1, <1>3, ListsStay

\* What is forgotten does not wait.
LEMMA SomeForgotten ==
  ASSUME SaidBounded, NEW C, World!Forgotten(C)
  PROVE  SaidBounded'
<1>0. said' = [chan \in World!Chans |->
                [c \in World!Clients |-> IF c \in C THEN 0 ELSE said[chan][c]]]
  BY DEF World!Forgotten
<1>1. 0 \in 0 .. MaxSaid
  BY WorldAssumption
<1>2. \A chan \in World!Chans, c \in World!Clients : said[chan][c] \in 0 .. MaxSaid
  BY DEF SaidBounded
<1> QED BY <1>0, <1>1, <1>2 DEF SaidBounded

LEMMA OneSaid ==
  ASSUME SaidBounded, NEW chan \in World!Chans, NEW c \in World!Clients, NEW n \in 0 .. MaxSaid,
         said' = [said EXCEPT ![chan][c] = n]
  PROVE  SaidBounded'
<1>1. said[chan] \in [World!Clients -> 0 .. MaxSaid]
  BY DEF SaidBounded
<1>2. [said[chan] EXCEPT ![c] = n] \in [World!Clients -> 0 .. MaxSaid]
  BY <1>1
<1>3. said' = [said EXCEPT ![chan] = [said[chan] EXCEPT ![c] = n]]
  OBVIOUS
<1> QED BY <1>2, <1>3 DEF SaidBounded

LEMMA SpeakKeeps ==
  ASSUME WorldInv, NEW c \in World!Clients,
         World!Position(c) \/ World!Message(c) \/ World!DropPosition(c)
  PROVE  WorldInv'
<1>1. UNCHANGED <<listeners, bots, orphans, taken, dead, uses, packets>>
  BY DEF World!Position, World!Message, World!DropPosition, World!rolls
<1>2. SaidBounded /\ ListsOK /\ StraysOK /\ PacketsOK /\ dead \subseteq World!Here
  BY DEF WorldInv
<1>3. World!Pending \in Nat /\ Waits(c) <= World!Pending
  BY <1>2, PendingBounds
<1>4. "positions" \in World!Chans /\ "messages" \in World!Chans
  BY DEF World!Chans
<1>5. said["positions"][c] \in Nat /\ said["messages"][c] \in Nat /\ MaxSaid \in Nat
  <2>1. said["positions"][c] \in 0 .. MaxSaid /\ said["messages"][c] \in 0 .. MaxSaid
    BY <1>2, <1>4 DEF SaidBounded
  <2> QED BY <2>1, WorldAssumption
<1>6. SaidBounded'
  <2>1. CASE World!Position(c)
    <3>1. said' = [said EXCEPT !["positions"][c] = 1] /\ World!Pending < MaxSaid
      BY <2>1 DEF World!Position
    <3>2. 1 \in 0 .. MaxSaid
      BY <1>3, <1>5, <3>1
    <3> QED BY <1>2, <1>4, <3>1, <3>2, OneSaid
  <2>2. CASE World!Message(c)
    <3>1. said' = [said EXCEPT !["messages"][c] = @ + 1] /\ World!Pending < MaxSaid
      BY <2>2 DEF World!Message
    <3>2. PICK n : n = said["messages"][c] + 1
      OBVIOUS
    <3>3. n \in 0 .. MaxSaid
      BY <1>3, <1>5, <3>1, <3>2 DEF Waits
    <3>4. said' = [said EXCEPT !["messages"][c] = n]
      BY <3>1, <3>2
    <3> QED BY <1>2, <1>4, <3>3, <3>4, OneSaid
  <2>3. CASE World!DropPosition(c)
    <3>1. said' = [said EXCEPT !["positions"][c] = 0]
      BY <2>3 DEF World!DropPosition
    <3>2. 0 \in 0 .. MaxSaid
      BY <1>5
    <3> QED BY <1>2, <1>4, <3>1, <3>2, OneSaid
  <2> QED BY <2>1, <2>2, <2>3
<1>7. ListsOK' /\ StraysOK' /\ PacketsOK'
  BY <1>1, <1>2, ListsStay, StraysStay, PacketsStay
<1> QED BY <1>1, <1>2, <1>6, <1>7 DEF WorldInv, World!Here

LEMMA SendKeeps == ASSUME WorldInv, World!SendPackets PROVE WorldInv'
<1> DEFINE Cuts(w) == UNION {LET g == World!Gathered(chan) IN
                             {[world |-> w, chan |-> chan, to |-> h] :
                                h \in {r \in World!Here \ dead : World!Cut(g, r) # <<>>}} :
                             chan \in World!Chans}
<1>1. PICK w \in World!Places : /\ uses[w] = 0
                                /\ packets' = packets \cup Cuts(w)
                                /\ uses' = [uses EXCEPT ![w] = World!Cardinality(Cuts(w))]
  BY DEF World!SendPackets
<1>2. /\ SaidBounded /\ ListsOK /\ StraysOK /\ PacketsOK /\ dead \subseteq World!Here
      /\ UNCHANGED <<listeners, bots, orphans, taken, dead>>
      /\ World!Forgotten(World!Listed)
  BY DEF World!SendPackets, WorldInv, World!rolls
<1>3. SaidBounded'
  BY <1>2, SomeForgotten
<1>4. PICK cut : cut = Cuts(w)
  OBVIOUS
<1>5. cut \subseteq World!Packets /\ \A p \in cut : p.world = w
  <2>1. World!Here \subseteq Slots
    <3>1. Once(listeners, Slots)
      BY <1>2 DEF ListsOK
    <3> QED BY <3>1, ListIs DEF World!Here
  <2>2. ASSUME NEW p \in cut
        PROVE  \E chan \in World!Chans, h \in World!Here : p = [world |-> w, chan |-> chan, to |-> h]
    BY <1>4, <2>2
  <2> QED BY <2>1, <2>2 DEF World!Packets
<1> HIDE DEF Cuts
<1>6. packets' = packets \cup cut /\ uses' = [uses EXCEPT ![w] = Cardinality(cut)]
  BY <1>1, <1>4, CardinalityIs
<1>7. PacketsOK'
  <2>1. /\ packets' \subseteq World!Packets
        /\ DOMAIN uses = World!Places /\ uses' = [v \in World!Places |-> uses'[v]]
    BY <1>2, <1>5, <1>6 DEF PacketsOK
  <2>2. uses'[w] = Cardinality({p \in packets' : p.world = w})
    <3>1. {p \in packets : p.world = w} = {}
      <4>1. Cardinality({p \in packets : p.world = w}) = 0
        BY <1>1, <1>2 DEF PacketsOK
      <4>2. IsFiniteSet({p \in packets : p.world = w})
        BY <1>2, PacketsAreFinite, FS_Subset DEF PacketsOK
      <4> QED BY <4>1, <4>2, FS_EmptySet
    <3>2. {p \in packets' : p.world = w} = cut
      BY <1>5, <1>6, <3>1
    <3> QED BY <1>6, <2>1, <3>2
  <2>3. ASSUME NEW v \in World!Places, v # w
        PROVE  uses'[v] = Cardinality({p \in packets' : p.world = v})
    <3>1. {p \in packets' : p.world = v} = {p \in packets : p.world = v}
      BY <1>5, <1>6, <2>3
    <3>2. uses'[v] = uses[v]
      BY <1>6, <2>1, <2>3
    <3> QED BY <1>2, <3>1, <3>2 DEF PacketsOK
  <2> QED BY <2>1, <2>2, <2>3 DEF PacketsOK
<1>8. ListsOK' /\ StraysOK'
  BY <1>2, ListsStay, StraysStay
<1> QED BY <1>2, <1>3, <1>7, <1>8 DEF WorldInv, World!Here

LEMMA WorldInvInit == World!Init => WorldInv
<1> SUFFICES ASSUME World!Init PROVE WorldInv
  OBVIOUS
<1>1. /\ listeners = <<>> /\ bots = [h \in Slots |-> <<>>] /\ orphans = {} /\ taken = {}
      /\ said = [chan \in World!Chans |-> [c \in World!Clients |-> 0]] /\ dead = {}
      /\ uses = [w \in World!Places |-> 0] /\ packets = {}
  BY DEF World!Init
<1>2. \A S : Once(<<>>, S) /\ World!ToSet(<<>>) = {}
  BY DEF Once, World!ToSet
<1>3. ListsOK
  BY <1>1, <1>2 DEF ListsOK
<1>4. SaidBounded
  <2>1. 0 \in 0 .. MaxSaid
    BY WorldAssumption
  <2> QED BY <1>1, <2>1 DEF SaidBounded
<1>5. PacketsOK
  <2>1. \A w \in World!Places : {p \in packets : p.world = w} = {}
    BY <1>1
  <2> QED BY <1>1, <2>1, FS_EmptySet DEF PacketsOK
<1>6. StraysOK
  BY <1>1 DEF StraysOK, Strays
<1> QED BY <1>1, <1>3, <1>4, <1>5, <1>6 DEF WorldInv

LEMMA WorldInvNext == WorldInv /\ (World!Next \/ UNCHANGED worldVars) => WorldInv'
<1> SUFFICES ASSUME WorldInv, World!Next \/ UNCHANGED worldVars PROVE WorldInv'
  OBVIOUS
<1>0. SaidBounded /\ ListsOK /\ StraysOK /\ PacketsOK /\ dead \subseteq World!Here
  BY DEF WorldInv
<1>a. UNCHANGED said => SaidBounded'
  BY <1>0 DEF SaidBounded
<1>b. UNCHANGED listeners => World!Here' = World!Here
  BY DEF World!Here
<1>c. UNCHANGED World!rolls => ListsOK' /\ StraysOK' /\ World!Here' = World!Here
  BY <1>0, <1>b, ListsStay, StraysStay DEF World!rolls
<1>1. CASE World!Flushed
  <2>1. PacketsOK'
    BY <1>0, <1>1, FreedOnce DEF World!Flushed
  <2> QED BY <1>0, <1>1, <1>a, <1>c, <2>1 DEF WorldInv, World!Flushed
<1>2. ASSUME NEW p \in packets, World!Acknowledged(p) PROVE WorldInv'
  <2>1. PacketsOK'
    BY <1>0, <1>2, FreedOnce DEF World!Acknowledged
  <2> QED BY <1>0, <1>2, <1>a, <1>c, <2>1 DEF WorldInv, World!Acknowledged
<1>3. ASSUME NEW h \in Slots, World!PeerDies(h) PROVE WorldInv'
  <2>1. World!To(h) \in SUBSET packets
    BY DEF World!To
  <2>2. PacketsOK'
    BY <1>0, <1>3, <2>1, FreedOnce DEF World!PeerDies
  <2> QED BY <1>0, <1>3, <1>a, <1>c, <2>2 DEF WorldInv, World!PeerDies
<1>4. ASSUME NEW h \in Slots, World!Connect(h) PROVE WorldInv'
  <2>1. ListsOK' /\ World!Here' = World!Here \cup {h}
    BY <1>4, ConnectLists
  <2> QED BY <1>0, <1>4, <1>a, <2>1, PacketsStay, StraysStay DEF WorldInv, World!Connect
<1>5. ASSUME NEW h \in Slots, World!Disconnect(h) PROVE WorldInv'
  <2>1. /\ ListsOK' /\ StraysOK' /\ World!Here' = World!Here \ {h}
        /\ \E C : World!Forgotten(C)
    BY <1>5, DisconnectLists
  <2>2. World!To(h) \in SUBSET packets /\ World!Free(World!To(h)) /\ dead' = dead \ {h}
    BY <1>5 DEF World!To, World!Disconnect
  <2>3. PacketsOK'
    BY <1>0, <2>2, FreedOnce
  <2>4. SaidBounded'
    BY <1>0, <2>1, SomeForgotten
  <2> QED BY <1>0, <2>1, <2>2, <2>3, <2>4 DEF WorldInv
<1>6. ASSUME NEW b \in Bots, NEW h \in Slots, World!Play(b, h) PROVE WorldInv'
  <2>1. ListsOK' /\ StraysOK'
    BY <1>6, PlayLists
  <2> QED BY <1>0, <1>6, <1>a, <1>b, <2>1, PacketsStay DEF WorldInv, World!Play
<1>7. ASSUME NEW c \in World!Clients,
             World!Position(c) \/ World!Message(c) \/ World!DropPosition(c)
      PROVE  WorldInv'
  BY <1>7, SpeakKeeps
<1>8. CASE World!SendPackets
  BY <1>8, SendKeeps
<1>9. CASE UNCHANGED worldVars
  BY <1>0, <1>9, <1>a, <1>b, ListsStay, StraysStay, PacketsStay DEF WorldInv, worldVars
<1>10. ASSUME NEW h \in Slots, World!LoseBots(h) PROVE WorldInv'
  <2>1. ListsOK' /\ StraysOK'
    BY <1>10, LoseLists
  <2> QED BY <1>0, <1>10, <1>a, <1>b, <2>1, PacketsStay DEF WorldInv, World!LoseBots
<1>11. ASSUME NEW b \in Bots, World!TakeOver(b) PROVE WorldInv'
  <2>1. ListsOK' /\ StraysOK'
    BY <1>11, TakeOverLists
  <2> QED BY <1>0, <1>11, <1>a, <1>b, <2>1, PacketsStay DEF WorldInv, World!TakeOver
<1>12. ASSUME NEW b \in Bots, World!Delete(b) PROVE WorldInv'
  <2>1. ListsOK' /\ StraysOK'
    BY <1>12, DeleteLists
  <2>2. SaidBounded'
    BY <1>0, <1>12, SomeForgotten DEF World!Delete
  <2> QED BY <1>0, <1>12, <1>b, <2>1, <2>2, PacketsStay DEF WorldInv, World!Delete
<1> QED BY <1>1, <1>2, <1>3, <1>4, <1>5, <1>6, <1>7, <1>8, <1>9, <1>10, <1>11, <1>12
        DEF World!Next

LEMMA WorldInvHears == WorldInv => OthersAreHeard
<1> SUFFICES ASSUME WorldInv PROVE World!OthersAreHeard
  BY DEF OthersAreHeard
<1>0. SaidBounded /\ ListsOK /\ StraysOK /\ PacketsOK /\ dead \subseteq World!Here
  BY DEF WorldInv
<1>1. Once(listeners, Slots) /\ \A h \in Slots : Once(bots[h], Bots)
  BY <1>0 DEF ListsOK
<1>2. World!TypeOK
  <2>1. World!Here \subseteq Slots /\ World!IsInjective(listeners)
    <3>1. DOMAIN listeners = 1 .. Len(listeners) /\ World!ToSet(listeners) \subseteq Slots
      BY <1>1, ListIs
    <3> QED BY <1>1, <3>1 DEF World!Here, World!IsInjective, Once
  <2>2. \A h \in Slots : World!ToSet(bots[h]) \subseteq Bots
    BY <1>1, ListIs
  <2>3. uses \in [World!Places -> Nat]
    <3>1. ASSUME NEW w \in World!Places PROVE uses[w] \in Nat
      <4>1. IsFiniteSet({p \in packets : p.world = w})
        BY <1>0, PacketsAreFinite, FS_Subset DEF PacketsOK
      <4> QED BY <1>0, <4>1, FS_CardinalityType DEF PacketsOK
    <3>2. uses = [w \in World!Places |-> uses[w]]
      BY <1>0 DEF PacketsOK
    <3> QED BY <3>1, <3>2
  <2> QED BY <1>0, <2>1, <2>2, <2>3 DEF World!TypeOK, SaidBounded, PacketsOK, StraysOK
<1>3. SaidOK
  <2>1. \A chan \in World!Chans, c \in World!Clients : said[chan][c] \in 0 .. MaxSaid
    BY <1>0 DEF SaidBounded
  <2> QED BY <2>1 DEF SaidOK
<1>4. \A chan \in World!Chans, h \in World!Here, c \in World!Listed :
        World!Count(c, World!Cut(World!Gathered(chan), h)) =
          IF c \in {h} \cup World!ToSet(bots[h]) THEN 0 ELSE said[chan][c]
  BY <1>0, <1>3, OthersAreRead DEF Own
<1>5. \A w \in World!Places : uses[w] = World!Cardinality({p \in packets : p.world = w})
  BY <1>0, CardinalityIs DEF PacketsOK
<1>6. \A chan \in World!Chans, h \in World!Here, b \in orphans \cup taken :
        World!Count(b, World!Cut(World!Gathered(chan), h)) = 0
  <2>1. ASSUME NEW b \in orphans \cup taken, NEW g \in World!Here PROVE b \notin Own(g)
    <3>1. b \in Bots /\ g \in Slots /\ World!ToSet(bots[g]) \cap Strays = {} /\ b \in Strays
      BY <1>0, <2>1, HereAreSlots DEF StraysOK, Strays
    <3> QED BY <3>1, WorldAssumption DEF Own
  <2> QED BY <1>0, <1>3, <2>1, StraysAreNotRead
<1> QED BY <1>2, <1>4, <1>5, <1>6 DEF World!OthersAreHeard

\* However many clients and bots there are and whatever they say: what the
\* server cuts for a client is what all the others that a list names have said,
\* once, and none of it his own; what a bot in no list has said is never in it,
\* be it without owner or taken over by addai().  A buffer lives as long as the
\* packets that read it.
THEOREM WorldIsHeard == RoomSpec => []OthersAreHeard
<1>1. RoomInit => WorldInv
  BY WorldInvInit DEF RoomInit
<1>2. WorldInv /\ [RoomNext]_<<part, vars, worldVars, masterVars>> => WorldInv'
  <2> SUFFICES ASSUME WorldInv, [RoomNext]_<<part, vars, worldVars, masterVars>> PROVE WorldInv'
    OBVIOUS
  <2>1. World!Next \/ UNCHANGED worldVars
    BY DEF RoomNext
  <2> QED BY <2>1, WorldInvNext
<1> QED BY <1>1, <1>2, WorldInvHears, PTL DEF RoomSpec
=============================================================================
