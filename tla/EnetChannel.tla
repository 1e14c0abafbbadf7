----------------------------- MODULE EnetChannel -----------------------------
(***************************************************************************)
(* One direction of one reliable channel of ENet (src/enet/protocol.c and  *)
(* src/enet/peer.c), the transport of everything the server and its        *)
(* clients tell each other: the sender's two queues, its windows and its   *)
(* count of data in transit, the receiver's list of commands that came too *)
(* early, and between them a network that loses, repeats and reorders.     *)
(*                                                                         *)
(* A command is named by its place n in the whole stream; what travels is  *)
(* its 16-bit sequence number Number(n), so the code below compares        *)
(* numbers only.  Clocks are abstracted: any commands may be due as long   *)
(* as the first sent one is, and the time after which the peer is given up *)
(* is a number of rounds of resending without an answer.                   *)
(***************************************************************************)
EXTENDS Integers, Sequences, FiniteSets, FiniteSetsExt, SequencesExt

CONSTANTS Packets,        \* per packet, the lengths of its fragments
          Bases,          \* commands that went through before the start
          Windows, FreeWindows, WindowSize,   \* ENET_PEER_RELIABLE_WINDOWS...
          Limits,         \* values of peer->windowSize
          UintRange,      \* 2^32 scaled down
          Patience,       \* rounds of resending before the peer is given up
          MaxAge,         \* how many commands a copy in the network outlives
          SocketFails     \* enet_socket_send may fail in the middle of a pass

ASSUME WindowAssumption ==
          /\ WindowSize \in Nat \ {0} /\ FreeWindows \in Nat
          /\ FreeWindows >= 3 /\ Windows = 2 * FreeWindows
ASSUME PacketAssumption ==
          /\ DOMAIN Packets = 1..Len(Packets) /\ Len(Packets) \in Nat
          /\ \A p \in DOMAIN Packets :
                /\ DOMAIN Packets[p] = 1..Len(Packets[p])
                /\ Len(Packets[p]) \in 1..WindowSize
                /\ \A i \in DOMAIN Packets[p] :
                      /\ Packets[p][i] \in Nat \ {0}
                      /\ \A l \in Limits : Packets[p][i] <= l
ASSUME BoundAssumption ==
          /\ Bases \subseteq Nat
          /\ MaxAge \in Nat /\ MaxAge <= (FreeWindows - 1) * WindowSize
          /\ Limits # {} /\ Limits \subseteq Nat
          /\ UintRange \in Nat /\ \A l \in Limits : 2 * l < UintRange
          /\ Patience \in Nat
          /\ SocketFails \in BOOLEAN

VARIABLES base,           \* commands sent and acknowledged before the start
          queued,         \* packets given to enet_peer_send
          outgoing,       \* outgoingReliableCommands
          sent,           \* sentReliableCommands
          fresh,          \* the last command with sendAttempts >= 1
          windows,        \* channel->reliableWindows; usedReliableWindows is
                          \* the set of those above 0
          transit,        \* peer->reliableDataInTransit
          limit,          \* peer->windowSize
          tries,          \* rounds of resending since the last answer
          open,           \* the sender has not given the peer up
          data, answers,  \* commands and acknowledgements in the network
          current,        \* channel->incomingReliableSequenceNumber
          arrived,        \* channel->incomingReliableCommands
          delivered       \* contents moved to dispatchedCommands

sender == <<queued, outgoing, sent, fresh, windows, transit, tries, open>>
receiver == <<current, arrived, delivered>>
vars == <<base, limit, data, answers, sender, receiver>>

Modulus == Windows * WindowSize
Number(n) == n % Modulus
Window(q) == q \div WindowSize

\* Counted from base: the first command of each packet and of one more, and
\* the packet of each command.
Starts == LET start[p \in 1..(Len(Packets) + 1)] ==
                IF p = 1 THEN 1 ELSE start[p - 1] + Len(Packets[p - 1])
          IN [p \in 1..(Len(Packets) + 1) |-> start[p]]
Owners == [r \in 1..(Starts[Len(Packets) + 1] - 1) |->
             CHOOSE p \in DOMAIN Packets : Starts[p] <= r /\ r < Starts[p + 1]]
PacketOf(n) == Owners[n - base]
Fragment(n) == n - base - Starts[PacketOf(n)] + 1
Length(n) == Packets[PacketOf(n)][Fragment(n)]
\* The commands of packet p: all there is to its contents.
Content(p) == [i \in DOMAIN Packets[p] |-> base + Starts[p] + i - 1]

Fit(x) == x % UintRange

\* The list s without what is not in D, in its order.
Only(s, D) ==
    LET only[i \in 0..Len(s)] ==
          IF i = 0 THEN <<>>
          ELSE IF s[i] \in D THEN Append(only[i - 1], s[i]) ELSE only[i - 1]
    IN only[Len(s)]

\* Commands that were sent and not answered: those of sent, and those that wait
\* to be sent again.
Outstanding == {n \in ToSet(sent \o outgoing) : n <= fresh}
------------------------------------------------------------------------------
Init == /\ base \in Bases
        /\ queued = 0
        /\ outgoing = <<>> /\ sent = <<>>
        /\ fresh = base
        /\ windows = [w \in 0..(Windows - 1) |-> 0]
        /\ transit = 0 /\ limit = Max(Limits)
        /\ tries = 0 /\ open = TRUE
        /\ data = {} /\ answers = {}
        /\ current = Number(base)
        /\ arrived = <<>> /\ delivered = <<>>

\* enet_peer_send: the packet, or every fragment of it, is queued and numbered.
PeerSend ==
    /\ open /\ queued < Len(Packets)
    /\ queued' = queued + 1
    /\ outgoing' = outgoing \o Content(queued + 1)
    /\ UNCHANGED <<base, limit, data, answers, receiver,
                   sent, fresh, windows, transit, tries, open>>

\* BANDWIDTH_LIMIT of the other host, which arrives when it likes.
BandwidthLimit ==
    /\ open
    /\ \E l \in Limits : l < limit /\ limit' = l
    /\ UNCHANGED <<base, data, answers, sender, receiver>>
------------------------------------------------------------------------------
(* enet_protocol_send_reliable_outgoing_commands, on the part of the peer it *)
(* changes.  The first command of a window waits for the windows before and  *)
(* after it.  The mask of the windows after it is shifted by 0x1000 - w      *)
(* instead of 16 - w where it should start over at window 0; that shift is   *)
(* wider than an int and gives no bits on the processors this is built for.  *)
\* A peer is here its queue, its sent list and its data in transit; First,
\* Count and InTransit are about the first i commands of the queue.
First(p, i) == ToSet(SubSeq(p.outgoing, 1, i))

Count(p, i, w) ==
    windows[w] + Cardinality({n \in First(p, i) : n > fresh /\ Window(Number(n)) = w})

Blocked(p, i, n) ==
    /\ n > fresh /\ Number(n) % WindowSize = 0
    /\ LET w == Window(Number(n))
       IN \/ Count(p, i, (w + Windows - 1) % Windows) >= WindowSize
          \/ \E f \in w..(w + FreeWindows - 1) : f < Windows /\ Count(p, i, f) > 0

InTransit(p, i) == Fit(p.transit + MapThenSumSet(Length, First(p, i)))

\* Mutant: a command that would fill the limit has to wait.
MayGoBelow(p, i) == /\ ~Blocked(p, i, p.outgoing[i + 1])
                    /\ Fit(InTransit(p, i) + Length(p.outgoing[i + 1])) < limit

\* The next command may go when i of them have gone in this pass.
MayGo(p, i) == /\ ~Blocked(p, i, p.outgoing[i + 1])
               /\ Fit(InTransit(p, i) + Length(p.outgoing[i + 1])) <= limit

\* The pass stops at the first command that may not go, and after k of them.
Gone(p, k) == Max({i \in 0..k : \A j \in 0..(i - 1) : MayGo(p, j)})

\* enet_protocol_check_timeouts moves what is due to the front of the queue.
Requeue(due) ==
    [outgoing |-> Only(sent, due) \o outgoing,
     sent |-> Only(sent, ToSet(sent) \ due),
     transit |-> Fit(transit - MapThenSumSet(Length, due))]

\* Copies of the commands before n - MaxAge have left the network when n enters.
Young(ns, n) == {m \in ns : m > n - MaxAge}

\* enet_protocol_send_outgoing_commands: what is due, then the pass.  When the
\* socket fails the pass ends there, and its last datagram is lost.
\* (\E over one value names it and has TLC compute it once.)
Service(due) ==
    /\ open
    /\ \E p \in {Requeue(due)} :
       \E k \in IF SocketFails THEN 1..Len(p.outgoing) ELSE {Len(p.outgoing)} :
       \E i \in {Gone(p, k)} :
          /\ due # {} \/ i > 0
          /\ outgoing' = SubSeq(p.outgoing, i + 1, Len(p.outgoing))
          /\ sent' = p.sent \o SubSeq(p.outgoing, 1, i)
          /\ fresh' = Max(First(p, i) \cup {fresh})
          /\ windows' = [w \in DOMAIN windows |-> Count(p, i, w)]
          /\ transit' = InTransit(p, i)
          /\ data' = Young(data \cup First(p, i), fresh')
          /\ answers' = Young(answers, fresh')
    /\ UNCHANGED <<base, queued, limit, open, receiver>>

Flush == Service({}) /\ UNCHANGED tries

Resend ==
    /\ open /\ tries < Patience /\ sent # <<>>
    /\ \E due \in SUBSET ToSet(sent) : Head(sent) \in due /\ Service(due)
    /\ tries' = tries + 1

\* Too long without an answer: enet_protocol_notify_disconnect resets the peer.
GiveUp ==
    /\ open /\ tries = Patience /\ sent # <<>>
    /\ open' = FALSE
    /\ outgoing' = <<>> /\ sent' = <<>> /\ fresh' = base /\ transit' = 0
    /\ windows' = [w \in 0..(Windows - 1) |-> 0] /\ tries' = 0
    /\ UNCHANGED <<base, queued, limit, data, answers, receiver>>
------------------------------------------------------------------------------
\* enet_protocol_remove_sent_reliable_command: the first command of that number
\* among the sent ones, or among those that wait to be sent again.
Answered(q) == {n \in Outstanding : Number(n) = q}

\* Mutant: the window is not freed.
LeftFull(w) == windows[w]

Left(w) == IF windows[w] > 0 THEN windows[w] - 1 ELSE 0

\* enet_protocol_handle_acknowledge
HandleAcknowledge(m) ==
    /\ open /\ m \in answers
    /\ IF Answered(Number(m)) = {}
       THEN UNCHANGED <<outgoing, sent, windows, transit>>
       ELSE \E n \in Answered(Number(m)) :
               /\ outgoing' = Only(outgoing, ToSet(outgoing) \ {n})
               /\ sent' = Only(sent, ToSet(sent) \ {n})
               /\ windows' = [windows EXCEPT ![Window(Number(n))] = Left(Window(Number(n)))]
               /\ transit' = Fit(transit - Length(n))
    /\ tries' = 0
    /\ UNCHANGED <<base, queued, fresh, limit, open, data, answers, receiver>>
------------------------------------------------------------------------------
\* Mutant: the numbers never start over.
AheadFlat(q, c) == Window(q)

\* The window of a number, counted on from the window of the last one taken.
Ahead(q, c) == Window(q) + (IF q < c THEN Windows ELSE 0)
InReach(q) == /\ Ahead(q, current) >= Window(current)
              /\ Ahead(q, current) < Window(current) + FreeWindows - 1

\* Where the search from the end of arrived stops: the place to insert after.
Place(q) ==
    SelectLastInSeq(arrived, LAMBDA e :
        IF q >= current THEN e.seq >= current /\ e.seq <= q
                        ELSE e.seq >= current \/ e.seq <= q)
There(q) == Place(q) > 0 /\ arrived[Place(q)].seq = q

Missing == 0
Whole(e) == \A i \in DOMAIN e.parts : e.parts[i] # Missing

\* enet_peer_queue_incoming_command for SEND_RELIABLE
QueueReliable(n) ==
    LET q == Number(n)
    IN IF ~InReach(q) \/ q = current \/ There(q) THEN arrived
       ELSE InsertAt(arrived, Place(q) + 1, [seq |-> q, parts |-> <<n>>])

\* enet_protocol_handle_send_fragment: the parts gather at the start number.
QueueFragment(n) ==
    LET q == Number(n - Fragment(n) + 1)
        none == [i \in DOMAIN Packets[PacketOf(n)] |-> Missing]
    IN IF ~InReach(q) THEN arrived
       ELSE IF There(q)
       THEN IF arrived[Place(q)].parts[Fragment(n)] # Missing THEN arrived
            ELSE [arrived EXCEPT ![Place(q)].parts[Fragment(n)] = n]
       ELSE InsertAt(arrived, Place(q) + 1,
                     [seq |-> q, parts |-> [none EXCEPT ![Fragment(n)] = n]])

\* The calls that end in an error before anything is queued: the rest of the
\* datagram is dropped and the command is not acknowledged.
Refused(n) ==
    LET q == Number(n - Fragment(n) + 1)
    IN /\ Len(Packets[PacketOf(n)]) > 1
       /\ InReach(q)
       /\ IF There(q)
          THEN Len(arrived[Place(q)].parts) # Len(Packets[PacketOf(n)])
          ELSE q = current

\* enet_peer_dispatch_incoming_reliable_commands: the head of the list, as far
\* as it is whole and without a gap.  Reached is the number after i entries.
Reached(list, i) ==
    IF i = 0 THEN current
    ELSE (list[i].seq + Len(list[i].parts) - 1) % Modulus
\* Mutant: what is whole goes, whatever is missing before it.
ReadyWhole(list) == Max({i \in 0..Len(list) : \A j \in 1..i : Whole(list[j])})

Ready(list) ==
    Max({i \in 0..Len(list) : \A j \in 1..i :
            /\ Whole(list[j])
            /\ list[j].seq = (Reached(list, j - 1) + 1) % Modulus})

\* A data command arrives: handle_send_reliable or handle_send_fragment, the
\* dispatch, and enet_peer_queue_acknowledgement with the number as it is then.
Receive(n) ==
    /\ n \in data
    /\ ~Refused(n)
    /\ \E list \in {IF Len(Packets[PacketOf(n)]) = 1 THEN QueueReliable(n)
                                                     ELSE QueueFragment(n)} :
       \E k \in {Ready(list)} :
          /\ arrived' = SubSeq(list, k + 1, Len(list))
          /\ delivered' = delivered \o [i \in 1..k |-> list[i].parts]
          /\ current' = Reached(list, k)
    /\ answers' =
          IF Ahead(Number(n), current') - Window(current') \in {FreeWindows - 1, FreeWindows}
          THEN answers ELSE answers \cup {n}
    /\ UNCHANGED <<base, limit, sender, data>>

\* The network forgets a copy of a command or of an answer.
LoseData(n) == n \in data /\ data' = data \ {n}
               /\ UNCHANGED <<base, limit, answers, sender, receiver>>
LoseAnswer(m) == m \in answers /\ answers' = answers \ {m}
                 /\ UNCHANGED <<base, limit, data, sender, receiver>>
------------------------------------------------------------------------------
Next == \/ PeerSend \/ BandwidthLimit
        \/ Flush \/ Resend \/ GiveUp
        \/ \E m \in answers : HandleAcknowledge(m)
        \/ \E n \in data : Receive(n) \/ LoseData(n)
        \/ \E m \in answers : LoseAnswer(m)

Spec == Init /\ [][Next]_vars
------------------------------------------------------------------------------
Commands == UNION {(b + 1)..(b + Starts[Len(Packets) + 1] - 1) : b \in Bases}
Taken == UNION {Range(parts) : parts \in Range(delivered)
                                          \cup {e.parts : e \in Range(arrived)}}

\* serverslice() serves its peers all the time, and a network that keeps carrying
\* commands or answers somebody waits for delivers one at last.
Awaited == \E n \in data \cap Outstanding :
              (n \notin Taken \/ n \notin answers) /\ Receive(n)
\* What nobody waits for does not stay in it for ever.
StaleData == \E n \in data \ Outstanding : LoseData(n)
StaleAnswer == \E m \in answers \ Outstanding : LoseAnswer(m)
Fairness == /\ WF_vars(Flush) /\ WF_vars(Resend \/ GiveUp)
            /\ SF_vars(Awaited) /\ WF_vars(StaleData) /\ WF_vars(StaleAnswer)
            /\ SF_vars(\E m \in answers \cap Outstanding : HandleAcknowledge(m))
FairSpec == Spec /\ Fairness

TypeOK ==
    /\ base \in Bases /\ queued \in 0..Len(Packets)
    /\ outgoing \in Seq(Commands) /\ sent \in Seq(Commands)
    /\ fresh \in Commands \cup Bases
    /\ windows \in [0..(Windows - 1) -> 0..WindowSize]
    /\ transit \in 0..(UintRange - 1) /\ limit \in Limits
    /\ tries \in 0..Patience /\ open \in BOOLEAN
    /\ data \subseteq Commands /\ answers \subseteq Commands
    /\ current \in 0..(Modulus - 1)

\* A command the sender has an answer to is in the receiver's hands: no number
\* is taken for that of an older or a later command when the numbers start over.
AnsweredWasTaken ==
    open => (base + 1)..fresh \subseteq Outstanding \cup Taken

\* The windows count what is outstanding in each of them, so a window frees
\* itself when its last command is answered and never blocks the sender for ever.
WindowsCount ==
    /\ TypeOK
    /\ open => \A w \in DOMAIN windows :
               windows[w] = Cardinality({n \in Outstanding : Window(Number(n)) = w})

\* The data in transit is that of the commands sent and not yet due again.
Counted == transit = MapThenSumSet(Length, ToSet(sent))

PacketContents == {[i \in 1..k |-> n + i - 1] : n \in Commands, k \in 1..WindowSize}

\* The packets given to the channel that are not yet out of it.
PipeQueue == [i \in 1..(queued - Len(delivered)) |-> Content(Len(delivered) + i)]

P == INSTANCE Pipe WITH
        Contents <- PacketContents, queue <- PipeQueue, out <- delivered, up <- open

\* The channel does what Pipe says.
ImplementsPipe == P!Spec

\* Every packet given to the channel comes out of it, unless the peer is given
\* up or the data in transit is no longer what is in transit.
PacketsArrive ==
    \A p \in DOMAIN Packets :
        queued >= p ~> (Len(delivered) >= p \/ ~open \/ ~Counted)

\* "ENet will send and deliver packets regardless of size" and "provides optional
\* reliability of packet delivery by ensuring the foreign host acknowledges receipt
\* of all reliable packets" (src/enet/docs/design.dox).
ReliablePacketsArrive ==
    \A p \in DOMAIN Packets : queued >= p ~> (Len(delivered) >= p \/ ~open)
==============================================================================
