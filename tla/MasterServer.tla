---------------------------- MODULE MasterServer ----------------------------
(***************************************************************************)
(* The connection to the master server, src/engine/server.cpp, and the     *)
(* authentication that runs over it, src/fpsgame/server.cpp: requests wait *)
(* in masterout, a send takes some of their bytes, a failed one closes the *)
(* socket and drops what waits.  The master server is external.  Lines it  *)
(* sends are read whole; global bans, failreg and succreg are left out.    *)
(***************************************************************************)
EXTENDS Integers, Sequences, FiniteSets

CONSTANTS
  Players,  \* client numbers
  Names,    \* names players authenticate under
  MaxIds,   \* bound: requests made
  MaxLines  \* bound: lines under way, either way, when one is added

VARIABLES
  players, \* authreq and authname of those who are connected, see Player
  nextauthreq,
  sock,    \* is mastersock open?
  out, pos,\* masterout in lines, masteroutpos in half lines
  master,  \* the other end, see Master
  asked,   \* history: who made each request, under which name
  claim    \* history: the last claim that succeeded, while its player is here

vars == <<players, nextauthreq, sock, out, pos, master, asked, claim>>

Ids == 1 .. MaxIds
Lines == {<<"regserv", 0, "">>} \cup ({"reqauth"} \X Ids \X Names) \cup ({"confauth"} \X Ids \X {""})
Answers == {"failauth", "succauth", "chalauth"} \X Ids

\* authreq is 0 when there is none, and a map change erases authname.
Player == [authreq: 0 .. MaxIds, authname: Names \cup {""}]
Absent == [authreq |-> 0, authname |-> "", absent |-> TRUE]
Fresh == [authreq |-> 0, authname |-> ""]
Here == {p \in Players : players[p] # Absent}

\* What it has the beginning of, what it is to answer, what it has said
Deaf == [begun |-> <<>>, heard |-> {}, said |-> <<>>]

NoRequest == [player |-> {}, name |-> "", changed |-> FALSE]
NoClaim == [id |-> 0]

TypeOK ==
  /\ \A p \in Here : players[p] \in Player
  /\ nextauthreq \in 0 .. MaxIds + 1
  /\ sock \in BOOLEAN
  /\ \A i \in DOMAIN out : out[i] \in Lines
  /\ pos \in 0 .. 2 * Len(out)
  /\ master.begun \in Lines \cup {<<>>} /\ master.heard \subseteq Lines
  /\ \A i \in DOMAIN master.said : master.said[i] \in Answers

Init ==
  /\ players = [p \in Players |-> Absent] /\ nextauthreq = 0
  /\ sock = FALSE /\ out = <<>> /\ pos = 0
  /\ master = Deaf
  /\ asked = [id \in Ids |-> NoRequest] /\ claim = NoClaim

-----------------------------------------------------------------------------
(* The connection.                                                         *)

\* disconnectmaster(): a send or a receive failed, the master server closed,
\* or mastername or masterport was set.
DisconnectMaster ==
  /\ sock' = FALSE /\ out' = <<>> /\ pos' = 0
  /\ master' = Deaf
  /\ UNCHANGED <<players, nextauthreq, asked, claim>>

\* requestmaster() that returns TRUE
Request(line) ==
  /\ Len(out) + Cardinality(master.heard) + Len(master.said) < MaxLines
  /\ sock' = TRUE
  /\ out' = Append(out, line)
  /\ UNCHANGED <<pos, master>>

\* requestmaster() that returns FALSE
NoRequestMade == ~sock /\ UNCHANGED <<sock, out, pos, master>>

\* updatemasterserver(), every hour, by command, or once the address is new
UpdateMaster ==
  /\ Request(<<"regserv", 0, "">>) \/ NoRequestMade
  /\ UNCHANGED <<players, nextauthreq, asked, claim>>

\* The half line at p arrives at the other end.
Heard(m, p) ==
  LET line == out[p \div 2 + 1] IN
  IF p % 2 = 0 THEN [m EXCEPT !.begun = line]
  ELSE [m EXCEPT !.begun = <<>>,
                 !.heard = IF m.begun = line THEN @ \cup {line} ELSE @]

\* flushmasteroutput() that sends some bytes; more are sent by the next.
FlushMasterOutput ==
  /\ out # <<>>
  /\ master' = Heard(master, pos)
  /\ IF pos + 1 = 2 * Len(out) THEN out' = <<>> /\ pos' = 0
     ELSE pos' = pos + 1 /\ UNCHANGED out
  /\ UNCHANGED <<players, nextauthreq, sock, asked, claim>>

\* The master server answers a line; it knows whom it challenged.
MasterAnswers ==
  /\ \E line \in master.heard : \E ok \in BOOLEAN :
       LET rest == [master EXCEPT !.heard = @ \ {line}] IN
       master' = IF line[1] = "regserv" THEN rest
                 ELSE [rest EXCEPT !.said = Append(@,
                        <<IF ~ok THEN "failauth" ELSE IF line[1] = "reqauth" THEN "chalauth"
                          ELSE "succauth", line[2]>>)]
  /\ UNCHANGED <<players, nextauthreq, sock, out, pos, asked, claim>>

-----------------------------------------------------------------------------
(* Players.                                                                *)

Connect(p) ==
  /\ p \notin Here
  /\ players' = [players EXCEPT ![p] = Fresh]
  /\ UNCHANGED <<nextauthreq, sock, out, pos, master, asked, claim>>

\* Requests of a player who leaves stay under way.
Leave(p) ==
  /\ p \in Here
  /\ players' = [players EXCEPT ![p] = Absent]
  /\ asked' = [id \in Ids |-> IF asked[id].player = {p} THEN NoRequest ELSE asked[id]]
  /\ claim' = IF claim # NoClaim /\ claim.player = p THEN NoClaim ELSE claim
  /\ UNCHANGED <<nextauthreq, sock, out, pos, master>>

\* clientinfo::mapchange() of everyone
MapChange ==
  /\ players' = [p \in Players |-> IF p \in Here THEN [players[p] EXCEPT !.authname = ""] ELSE Absent]
  /\ asked' = [id \in Ids |-> IF asked[id] = NoRequest THEN NoRequest
                              ELSE [asked[id] EXCEPT !.changed = TRUE]]
  /\ UNCHANGED <<nextauthreq, sock, out, pos, master, claim>>

\* Mutant: requests are numbered anew on a new connection.
NextAuthReqAnew(n) == IF n = 0 \/ ~sock THEN 1 ELSE n

NextAuthReq(n) == IF n = 0 THEN 1 ELSE n

\* tryauth()
TryAuth(p, name) ==
  /\ p \in Here
  /\ LET id == NextAuthReq(nextauthreq) IN
     /\ id <= MaxIds
     /\ nextauthreq' = id + 1
     /\ \/ /\ Request(<<"reqauth", id, name>>)
           /\ players' = [players EXCEPT ![p] = [authreq |-> id, authname |-> name]]
           /\ asked' = [asked EXCEPT ![id] = [player |-> {p}, name |-> name, changed |-> FALSE]]
        \/ /\ NoRequestMade
           /\ players' = [players EXCEPT ![p] = [authreq |-> 0, authname |-> name]]
           /\ UNCHANGED asked
  /\ UNCHANGED claim

\* answerchallenge(): an answer to the last request the player made, whether
\* or not he was challenged
AnswerChallenge(p, id) ==
  /\ p \in Here /\ players[p].authreq = id
  /\ \/ Request(<<"confauth", id, "">>) /\ UNCHANGED players
     \/ NoRequestMade /\ players' = [players EXCEPT ![p].authreq = 0]
  /\ UNCHANGED <<nextauthreq, asked, claim>>

\* findauth(): there is at most one.
FindAuth(id) == {p \in Here : players[p].authreq = id}

\* processmasterinput(): authchallenged() changes nothing, authfailed() ends
\* the request, authsucceeded() claims master, too.
ProcessMasterInput ==
  /\ master.said # <<>>
  /\ LET answer == Head(master.said)
         found == IF answer[1] = "chalauth" THEN {} ELSE FindAuth(answer[2]) IN
     /\ master' = [master EXCEPT !.said = Tail(@)]
     /\ players' = [p \in Players |-> IF p \in found THEN [players[p] EXCEPT !.authreq = 0]
                                      ELSE players[p]]
     /\ claim' = IF answer[1] = "failauth" \/ found = {} THEN claim
                 ELSE LET p == CHOOSE p \in found : TRUE IN
                      [id |-> answer[2], player |-> p, name |-> players[p].authname]
  /\ UNCHANGED <<nextauthreq, sock, out, pos, asked>>

Next ==
  \/ DisconnectMaster \/ UpdateMaster \/ FlushMasterOutput \/ MasterAnswers
  \/ \E p \in Players : \/ Connect(p) \/ Leave(p)
                        \/ \E name \in Names : TryAuth(p, name)
                        \/ \E id \in Ids : AnswerChallenge(p, id)
  \/ MapChange \/ ProcessMasterInput

Spec == Init /\ [][Next]_vars

-----------------------------------------------------------------------------
(* Properties.                                                             *)

\* An authentication that succeeds is that of a player who asked for it and
\* has not left since, however often he or others asked, the client number
\* changed hands or the connection broke meanwhile; it is under the name he
\* gave, unless the map has changed.  And the master server reads no line that
\* lacks its beginning.
AuthFitsRequest ==
  /\ TypeOK
  /\ claim # NoClaim =>
       LET request == asked[claim.id] IN
       /\ request.player = {claim.player}
       /\ claim.name = request.name \/ request.changed
  /\ sock => master.begun = IF pos % 2 = 1 THEN out[pos \div 2 + 1] ELSE <<>>
  /\ ~sock => out = <<>>
=============================================================================
