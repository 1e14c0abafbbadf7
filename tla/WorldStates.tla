----------------------------- MODULE WorldStates -----------------------------
(***************************************************************************)
(* What players do and say reaches the others as world states,             *)
(* src/fpsgame/server.cpp: a buffer per channel that every packet is cut   *)
(* from.  It holds everything twice, so that what is left when a client's  *)
(* own part is taken out is one piece, and lives until the last of its     *)
(* packets is freed.  Peers and what becomes of packets are ENet's.        *)
(***************************************************************************)
EXTENDS Integers, Sequences, SequencesExt, FiniteSetsExt

CONSTANTS
  Humans, Bots,
  MaxSaid,   \* bound: units of position and of messages that wait
  MaxWorlds, \* bound: world states that are alive
  MaxLate    \* bound: packets of older ones in flight when one is made

VARIABLES
  clients, \* the humans of `clients`, in their order
  bots,    \* clientinfo::bots of each human
  orphans, \* bots without an owner, which wait for their removal
  taken,   \* bots addai() saved from that: played, but in nobody's list
  said,    \* how much is in `position` and `messages` of each client
  dead,    \* humans whose peer is gone, which the server has not heard yet
  uses,    \* worldstate::uses by place in memory, 0 where there is none
  packets  \* packets that were cut from a world state and are not freed yet

rolls == <<clients, bots, orphans, taken>>
vars == <<rolls, said, dead, uses, packets>>

Chans == {"positions", "messages"}
Clients == Humans \cup Bots
Places == 1 .. MaxWorlds
Packets == [world: Places, chan: Chans, to: Humans]

Here == ToSet(clients)

TypeOK ==
  /\ Here \subseteq Humans /\ IsInjective(clients)
  /\ \A h \in Humans : ToSet(bots[h]) \subseteq Bots
  /\ orphans \subseteq Bots /\ taken \subseteq Bots
  /\ said \in [Chans -> [Clients -> 0 .. MaxSaid]]
  /\ dead \subseteq Here
  /\ uses \in [Places -> Nat]
  /\ packets \subseteq Packets

Init ==
  /\ clients = <<>> /\ bots = [h \in Humans |-> <<>>]
  /\ orphans = {} /\ taken = {}
  /\ said = [chan \in Chans |-> [c \in Clients |-> 0]] /\ dead = {}
  /\ uses = [w \in Places |-> 0] /\ packets = {}

-----------------------------------------------------------------------------
(* Packets are freed.                                                      *)

\* uses of a world state after cleanworldstate() of some of its packets; at 0
\* it is deleted.
Cleaned(n, freed) == n - freed

Free(freed) ==
  /\ packets' = packets \ freed
  /\ uses' = [w \in Places |-> Cleaned(uses[w], Cardinality({p \in freed : p.world = w}))]

\* A client acknowledges a packet of messages.
Acknowledged(p) ==
  /\ p.chan = "messages"
  /\ Free({p})
  /\ UNCHANGED <<rolls, said, dead>>

\* Unreliable packets are sent, or dropped, and freed together.
Flushed ==
  /\ \E p \in packets : p.chan = "positions"
  /\ Free({p \in packets : p.chan = "positions"})
  /\ UNCHANGED <<rolls, said, dead>>

To(h) == {p \in packets : p.to = h}

\* ENet gives up a peer, with all that is queued for it.
PeerDies(h) ==
  /\ h \in Here \ dead
  /\ dead' = dead \cup {h}
  /\ Free(To(h))
  /\ UNCHANGED <<rolls, said>>

-----------------------------------------------------------------------------
(* Clients.                                                                *)

Connect(h) ==
  /\ h \notin Here
  /\ clients' = Append(clients, h)
  /\ UNCHANGED <<bots, orphans, taken, said, dead, uses, packets>>

\* What the clients C have said is forgotten with them.
Forgotten(C) ==
  said' = [chan \in Chans |-> [c \in Clients |-> IF c \in C THEN 0 ELSE said[chan][c]]]

\* removeai(h): the bots of h are shifted to someone else, from where Play may
\* spread them, or to nobody when no other client may own bots.
RemoveAI(h, others) ==
  \/ /\ \E heir \in others : bots' = [bots EXCEPT ![heir] = bots[heir] \o bots[h], ![h] = <<>>]
     /\ UNCHANGED <<orphans, taken>>
  \/ /\ bots' = [bots EXCEPT ![h] = <<>>]
     /\ orphans' = orphans \cup ToSet(bots[h])
     /\ UNCHANGED taken

\* noclients(): all bots are deleted.
ClearAI ==
  /\ bots' = [h \in Humans |-> <<>>]
  /\ orphans' = {} /\ taken' = {}

\* clientdisconnect() when the peer is gone or is told to go.
Disconnect(h) ==
  /\ h \in Here
  /\ clients' = RemoveFirst(clients, h)
  /\ dead' = dead \ {h}
  /\ Free(To(h))
  /\ IF Here = {h} THEN ClearAI /\ Forgotten(Bots \cup {h})
     ELSE RemoveAI(h, Here \ {h}) /\ Forgotten({h})

\* spectator(), revokemaster(): h may not own bots any more.
LoseBots(h) ==
  /\ h \in Here /\ bots[h] # <<>>
  /\ RemoveAI(h, Here \ {h})
  /\ UNCHANGED <<clients, said, dead, uses, packets>>

\* addai() of a new bot, reassignai(): b is played by h from now on.
Play(b, h) ==
  /\ h \in Here /\ b \notin orphans \cup taken
  /\ bots' = [g \in Humans |-> IF g = h THEN Append(RemoveFirst(bots[h], b), b)
                               ELSE RemoveFirst(bots[g], b)]
  /\ UNCHANGED <<clients, orphans, taken, said, dead, uses, packets>>

\* addai() of a bot that waits for its removal: its ownernum is set, and no
\* list gets it, now or later.
TakeOver(b) ==
  /\ Here # {} /\ b \in orphans
  /\ orphans' = orphans \ {b}
  /\ taken' = taken \cup {b}
  /\ UNCHANGED <<clients, bots, said, dead, uses, packets>>

\* deleteai(b)
Delete(b) ==
  /\ b \in orphans \cup taken \cup UNION {ToSet(bots[h]) : h \in Here}
  /\ bots' = [h \in Humans |-> RemoveFirst(bots[h], b)]
  /\ orphans' = orphans \ {b}
  /\ taken' = taken \ {b}
  /\ Forgotten({b})
  /\ UNCHANGED <<clients, dead, uses, packets>>

\* Whom the loop of buildworldstate() comes to: it passes over every bot in
\* `clients` and finds bots in the lists of humans only.
Listed == Here \cup UNION {ToSet(bots[h]) : h \in Here}

\* Who may speak: also a bot taken over, through whoever has its ownernum.
Playing == Listed \cup taken

\* How much waits in all
Pending == FoldSet(LAMBDA c, n : n + said["positions"][c] + said["messages"][c],
                   0, Clients)

\* N_POS replaces the position of a player who is alive.
Position(c) ==
  /\ c \in Playing /\ Pending < MaxSaid
  /\ said' = [said EXCEPT !["positions"][c] = 1]
  /\ UNCHANGED <<rolls, dead, uses, packets>>

\* QUEUE_MSG and QUEUE_BUF
Message(c) ==
  /\ c \in Playing /\ Pending < MaxSaid
  /\ said' = [said EXCEPT !["messages"][c] = @ + 1]
  /\ UNCHANGED <<rolls, dead, uses, packets>>

\* dodamage() and suicide() drop the position of the dead; flushclientposition()
\* sends it ahead, in a packet of its own.
DropPosition(c) ==
  /\ said["positions"][c] > 0
  /\ said' = [said EXCEPT !["positions"][c] = 0]
  /\ UNCHANGED <<rolls, dead, uses, packets>>

-----------------------------------------------------------------------------
(* buildworldstate()                                                       *)

\* posoff and poslen, or msgoff and msglen, of a client without any
NoPart == [off |-> -1, len |-> 0]

\* addclientstate() on one channel: the buffer grows by what c has said.
AddClientState(acc, c, chan) ==
  IF said[chan][c] = 0 THEN [acc EXCEPT !.part[c] = NoPart]
  ELSE [buf |-> acc.buf \o [i \in 1 .. said[chan][c] |-> c],
        part |-> [acc.part EXCEPT ![c] = [off |-> Len(acc.buf), len |-> said[chan][c]]]]

\* Mutant: the part of the first bot is not counted.
JoinedFirst(p, q) == IF q = NoPart THEN p ELSE IF p = NoPart THEN q ELSE p

\* The part of a client goes on with that of his bot.
Joined(p, q) ==
  IF q = NoPart THEN p ELSE IF p = NoPart THEN q ELSE [p EXCEPT !.len = @ + q.len]

\* One round of the loop: a human and his bots
AddHuman(acc, h, chan) ==
  FoldLeft(LAMBDA a, b :
             LET s == AddClientState(a, b, chan) IN
             [s EXCEPT !.part[h] = Joined(@, s.part[b])],
           AddClientState(acc, h, chan), bots[h])

Gathered(chan) ==
  FoldLeft(LAMBDA a, h : AddHuman(a, h, chan),
           [buf |-> <<>>, part |-> [c \in Clients |-> NoPart]], clients)

\* What the packet for h reads: all that follows his own part in the doubled
\* buffer, up to where that part begins again.
Cut(g, h) ==
  LET p == g.part[h]
      doubled == g.buf \o g.buf
  IN IF p = NoPart THEN g.buf ELSE SubSeq(doubled, p.off + p.len + 1, p.off + Len(g.buf))

\* buildworldstate() from sendpackets(); ENet takes no packet for a dead peer.
SendPackets ==
  /\ clients # <<>>
  /\ Cardinality(packets) <= MaxLate
  /\ \E w \in Places :
       LET cut == UNION {LET g == Gathered(chan) IN
                         {[world |-> w, chan |-> chan, to |-> h] :
                            h \in {r \in Here \ dead : Cut(g, r) # <<>>}} : chan \in Chans}
       IN /\ uses[w] = 0 /\ \A v \in 1 .. w - 1 : uses[v] # 0
          /\ packets' = packets \cup cut
          /\ uses' = [uses EXCEPT ![w] = Cardinality(cut)]
  /\ Forgotten(Listed)
  /\ UNCHANGED <<rolls, dead>>

Next ==
  \/ Flushed
  \/ \E p \in packets : Acknowledged(p)
  \/ \E h \in Humans : PeerDies(h) \/ Connect(h) \/ Disconnect(h) \/ LoseBots(h)
  \/ \E b \in Bots : TakeOver(b) \/ Delete(b) \/ \E h \in Humans : Play(b, h)
  \/ \E c \in Clients : Position(c) \/ Message(c) \/ DropPosition(c)
  \/ SendPackets

Spec == Init /\ [][Next]_vars

-----------------------------------------------------------------------------
(* Properties.                                                             *)

\* How often c is among what is read
Count(c, text) == Cardinality({i \in DOMAIN text : text[i] = c})

\* Whatever has been said, and whoever is given the bots by now, the packet
\* for a client reads what everyone but himself and his bots had said, once:
\* everyone that a list names.  Bots taken over by addai() and bots without
\* owner are in none, and nobody hears what they have said.  The buffer a packet
\* reads is there for as long as the packet is, and no longer.
OthersAreHeard ==
  /\ TypeOK
  /\ \A chan \in Chans :
       LET g == Gathered(chan) IN
       \A h \in Here :
         LET text == Cut(g, h)
             own == {h} \cup ToSet(bots[h])
         IN /\ \A c \in Listed : Count(c, text) = IF c \in own THEN 0 ELSE said[chan][c]
            /\ \A b \in orphans \cup taken : Count(b, text) = 0
  /\ \A w \in Places : uses[w] = Cardinality({p \in packets : p.world = w})
=============================================================================
