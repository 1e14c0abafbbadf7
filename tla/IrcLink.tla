------------------------------- MODULE IrcLink -------------------------------
(***************************************************************************)
(* The connections of the IRC client, src/shared/evirc.cpp, and the end of *)
(* the program that waits for them, quitsig() of src/engine/server.cpp:    *)
(* connecting, registering, joining channels, losing the connection and    *)
(* trying again, quitting.  The callbacks run from one event loop.  The    *)
(* IRC network is external: it registers or refuses a nick, follows JOIN   *)
(* and PART, closes after QUIT or at any time.  What people say and who is *)
(* in which channel is not modelled.                                       *)
(***************************************************************************)
EXTENDS Integers, Sequences, SequencesExt

CONSTANTS
  Hosts,    \* IRC servers the program may be told to connect to
  Channels, \* names of channels
  QuitSecs, \* what ircquitsecs may be set to: 0 or, for any other number, 1
  MaxQueue  \* bound: lines on their way to a host when a command adds one

VARIABLES
  link,   \* Server of each host, see Links
  net,    \* the other end of its connection, see Ends
  ending, \* quitsig() has run and irc.empty_cb is set
  exited

vars == <<link, net, ending, exited>>

Links == [known: BOOLEAN,    \* is it in client->servers?
          state: {"None", "SentIdent", "Active", "Quitting"},
          buf: {"none", "connecting", "open"},
          timer: BOOLEAN,    \* reconnect_event is pending
          timeout: BOOLEAN,  \* a read timeout is set on buf
          secs: {0, 1},      \* the quitsecs of its last quit()
          evbuf: BOOLEAN,    \* evbuf holds the beginning of a line
          channels: SUBSET Channels]

Lines == {<<"USER">>, <<"QUIT">>} \cup ({"JOIN", "PART"} \X Channels)
Answers == {"notice", "001", "433"}

Ends == [registered: BOOLEAN, closed: BOOLEAN, joined: SUBSET Channels,
         up: Seq(Lines), down: Seq(Answers)]

NoLink == [known |-> FALSE, state |-> "None", buf |-> "none", timer |-> FALSE,
           timeout |-> FALSE, secs |-> 0, evbuf |-> FALSE, channels |-> {}]
NoEnd == [registered |-> FALSE, closed |-> FALSE, joined |-> {}, up |-> <<>>, down |-> <<>>]

TypeOK ==
  /\ \A h \in Hosts : /\ link[h] \in Links
                      /\ net[h].joined \subseteq Channels
                      /\ \A i \in DOMAIN net[h].up : net[h].up[i] \in Lines
                      /\ \A i \in DOMAIN net[h].down : net[h].down[i] \in Answers
  /\ {ending, exited} \subseteq BOOLEAN

Init ==
  /\ link = [h \in Hosts |-> NoLink]
  /\ net = [h \in Hosts |-> NoEnd]
  /\ ending = FALSE /\ exited = FALSE

-----------------------------------------------------------------------------
(* The connection.                                                         *)

\* irc_connectcb()
Dialled(s) == [s EXCEPT !.buf = "connecting"]

\* Client::connect() of a host that is not connected yet
Connect(h) ==
  /\ ~link[h].known
  /\ link' = [link EXCEPT ![h] = Dialled([NoLink EXCEPT !.known = TRUE])]
  /\ UNCHANGED <<net, ending>>

\* The timer of reconnect_event
Reconnect(h) ==
  /\ link[h].timer
  /\ link' = [link EXCEPT ![h] = Dialled([link[h] EXCEPT !.timer = FALSE])]
  /\ UNCHANGED <<net, ending>>

\* BEV_EVENT_CONNECTED; the network may send a line before it is asked.
Connected(h) ==
  /\ link[h].buf = "connecting"
  /\ link' = [link EXCEPT ![h].buf = "open", ![h].state = "SentIdent"]
  /\ \E greeting \in {<<>>, <<"notice">>} :
       net' = [net EXCEPT ![h] = [NoEnd EXCEPT !.up = <<<<"USER">>>>, !.down = greeting]]
  /\ UNCHANGED ending

\* Every other event frees buf; a server that is quitting leaves the list.
AfterLoss(s) ==
  IF s.state = "Quitting" THEN NoLink
  ELSE [s EXCEPT !.state = "None", !.buf = "none", !.timer = TRUE, !.timeout = FALSE,
                 !.secs = 0]

\* irc_eventcb() for an end of the connection; the last server to go calls
\* empty_cb, which ends the program.
Lose(h, evbuf) ==
  /\ link' = [link EXCEPT ![h] = AfterLoss([link[h] EXCEPT !.evbuf = @ \/ evbuf])]
  /\ net' = [net EXCEPT ![h] = NoEnd]
  /\ UNCHANGED ending

\* The connection breaks or is not established; what is on its way is lost,
\* and a line may have arrived in part.
Break(h) ==
  /\ link[h].buf # "none"
  /\ \E evbuf \in {FALSE, link[h].buf = "open"} : Lose(h, evbuf)

\* The network has closed and everything it said was read.
Eof(h) == link[h].buf = "open" /\ net[h].closed /\ net[h].down = <<>> /\ Lose(h, FALSE)

\* Nothing was read for as long as the read timeout says.
TimeOut(h) == link[h].buf = "open" /\ link[h].timeout /\ net[h].down = <<>> /\ Lose(h, FALSE)

-----------------------------------------------------------------------------
(* Lines.                                                                  *)

Joins(s) == SetToSeq({<<"JOIN", c>> : c \in s.channels})

\* Mutant: after a reconnection the bot stays out of its channels.
WelcomedAlone(s, up) == up

\* What 001 makes the client send: it joins its channels, unless it is
\* active already.
Welcomed(s, up) == IF s.state = "Active" THEN up ELSE up \o Joins(s)

\* process() of one line; with the beginning of another one before it in
\* evbuf it is not understood.
Read(h) ==
  /\ link[h].buf = "open" /\ net[h].down # <<>>
  /\ LET line == Head(net[h].down)
         rest == [net[h] EXCEPT !.down = Tail(@)] IN
     IF link[h].evbuf
     THEN /\ link' = [link EXCEPT ![h].evbuf = FALSE]
          /\ net' = [net EXCEPT ![h] = rest]
     ELSE /\ link' = [link EXCEPT ![h].state = IF line = "001" THEN "Active"
                                                 ELSE link[h].state]
          /\ net' = [net EXCEPT ![h] =
               CASE line = "001" -> [rest EXCEPT !.up = Welcomed(link[h], net[h].up)]
                 [] line = "433" -> [rest EXCEPT !.up = Append(@, <<"USER">>)]
                 [] OTHER -> rest]
  /\ UNCHANGED ending

Tell(h, line) ==
  IF link[h].state = "Active"
  THEN net' = [net EXCEPT ![h].up = Append(net[h].up, line)]
  ELSE UNCHANGED net

\* ircjoin
Join(h, c) ==
  /\ link[h].known /\ Len(net[h].up) < MaxQueue
  /\ link' = [link EXCEPT ![h].channels = link[h].channels \cup {c}]
  /\ Tell(h, <<"JOIN", c>>)
  /\ UNCHANGED ending

\* ircpart
Part(h, c) ==
  /\ link[h].known /\ Len(net[h].up) < MaxQueue
  /\ link' = [link EXCEPT ![h].channels = link[h].channels \ {c}]
  /\ Tell(h, <<"PART", c>>)
  /\ UNCHANGED ending

\* The network takes a line; the nick may be in use.
Serve(h) ==
  /\ net[h].up # <<>> /\ ~net[h].closed
  /\ \E answer \in {"001", "433"} :
       LET line == Head(net[h].up)
           end == [net[h] EXCEPT !.up = Tail(@)] IN
       net' = [net EXCEPT ![h] =
         CASE line[1] = "USER" /\ ~end.registered ->
                [end EXCEPT !.registered = answer = "001", !.down = Append(@, answer)]
           [] line[1] = "JOIN" /\ end.registered -> [end EXCEPT !.joined = @ \cup {line[2]}]
           [] line[1] = "PART" -> [end EXCEPT !.joined = @ \ {line[2]}]
           [] line[1] = "QUIT" -> [end EXCEPT !.closed = TRUE, !.joined = {}]
           [] OTHER -> end]
  /\ UNCHANGED <<link, ending>>

-----------------------------------------------------------------------------
(* The end.                                                                *)

\* Mutant: the client waits for the network to close, whatever quitsecs is.
QuitNoTimeout(s, secs) ==
  IF s.state \in {"SentIdent", "Active"}
  THEN [s EXCEPT !.state = "Quitting", !.secs = secs]
  ELSE s

\* Server::quit(); libevent takes a timeout of no seconds for none, and leaves
\* alone one that runs.
Quit(s, secs) ==
  IF s.state \in {"SentIdent", "Active"}
  THEN [s EXCEPT !.state = "Quitting", !.secs = secs, !.timeout = s.timeout \/ secs # 0]
  ELSE s

\* quitsig(), by a signal or the command `quit`
Shutdown ==
  /\ ending' = TRUE
  /\ \E secs \in QuitSecs : link' = [h \in Hosts |-> Quit(link[h], secs)]
  /\ net' = [h \in Hosts |->
       IF link[h].state \in {"SentIdent", "Active"}
       THEN [net[h] EXCEPT !.up = Append(@, <<"QUIT">>)]
       ELSE net[h]]

HostStep(h) ==
  \/ Connect(h) \/ Reconnect(h) \/ Connected(h)
  \/ Break(h) \/ Eof(h) \/ TimeOut(h)
  \/ Read(h) \/ Serve(h)
  \/ \E c \in Channels : Join(h, c) \/ Part(h, c)

\* ircemptycb() ends the program with the last server of the list; quitsig()
\* calls it itself when there is none.
Next ==
  \/ /\ ~exited
     /\ \/ \E h \in Hosts : HostStep(h)
        \/ Shutdown
     /\ exited' = (ending' /\ \A h \in Hosts : ~link'[h].known)
  \/ exited /\ UNCHANGED vars

Spec == Init /\ [][Next]_vars

\* libevent reports what arrived, an end of file, and timers that ran out;
\* the network owes nothing.
Fairness ==
  \A h \in Hosts : /\ WF_vars(Read(h) /\ Next)
                   /\ WF_vars(Eof(h) /\ Next) /\ WF_vars(TimeOut(h) /\ Next)
                   /\ WF_vars(Reconnect(h) /\ Next)
FairSpec == Spec /\ Fairness

-----------------------------------------------------------------------------
(* Properties.                                                             *)

\* A server of the list has a connection, made or in the making, or a timer
\* that makes one, and never both: it can neither be forgotten nor connect
\* twice.
StaysConnected ==
  \A h \in Hosts : link[h].known => (link[h].buf = "none" <=> link[h].timer)

\* When everything was said, the client is in the channels it was told to be
\* in, whatever was joined, parted or lost meanwhile.
ChannelsInStep ==
  /\ TypeOK /\ StaysConnected
  /\ \A h \in Hosts :
       /\ link[h].state = "Active" /\ link[h].buf = "open"
       /\ ~net[h].closed /\ net[h].up = <<>>
       => net[h].joined = link[h].channels

\* May a 001 still arrive?
WelcomePending(h) ==
  Contains(net[h].down, "001") \/ Contains(net[h].down, "433") \/ Contains(net[h].up, <<"USER">>)

\* A server that was told to quit within some seconds goes, even if the network
\* does not answer.  Not one whose registration is still under way: the 001
\* would make it active again.  Nor one with ircquitsecs = 0, which waits for
\* the network.
QuitEnds ==
  \A h \in Hosts :
    (link[h].state = "Quitting" /\ link[h].secs # 0 /\ ~WelcomePending(h)) ~> (~link[h].known \/ exited)

\* "quit with a message, force disconnect after quitsecs seconds": once the
\* program is told to end, it ends.
ShutdownEnds == ending ~> exited
=============================================================================
