------------------------------ MODULE BotLoops ------------------------------
(***************************************************************************)
(* The two loops of src/fpsgame/aiman.h one turn at a time: removeai(),    *)
(* which shifts the bots of a leaving client one by one to whoever is      *)
(* least loaded then, and while(reassignai()), which shifts a bot from the *)
(* busiest owner to the least busy one as long as they are far apart.      *)
(* BotTables describes what the loops leave behind; here the loops run.    *)
(***************************************************************************)
EXTENDS BotTables, Functions, FiniteSetsExt

VARIABLES
  V,       \* the valid clients
  leaving, \* the client removeai() runs for, or NoSlot for reassignai()
  start,   \* the tables when the loop began
  now      \* the tables after the turns made so far

vars == <<V, leaving, start, now>>

\* Tables whose refresh is done, with the owners f
Fresh(f) ==
  [bots |-> BotIds, owner |-> f,
   listed |-> [c \in Slots |-> {b \in BotIds : f[b] = c}],
   taken |-> {}, reinit |-> {}, told |-> f, dorefresh |-> FALSE]

\* The first call may find any way to share the bots out.
Init ==
  /\ V \in SUBSET Slots
  /\ leaving \in (Slots \ V) \cup {NoSlot}
  /\ start \in {Fresh(f) : f \in [BotIds -> V \cup {leaving}]}
  /\ now = start

ShiftOne(b, c) == now' = Shifted(now, [x \in {b} |-> c])

\* One turn of the loop in removeai()
RemoveTurn ==
  /\ leaving # NoSlot
  /\ \E b \in now.listed[leaving], c \in IF V = {} THEN {NoSlot} ELSE Least(now, V) :
       ShiftOne(b, c)
  /\ UNCHANGED <<V, leaving, start>>

Most(a, C) == {c \in C : \A d \in C : Load(a, d) <= Load(a, c)}

\* Mutant: one bot of difference already calls for a shift.
ApartByOne(hi, lo) == Load(now, hi) - Load(now, lo) > 0

\* The condition of reassignai()
Apart(hi, lo) == Load(now, hi) - Load(now, lo) > 1

\* One call of reassignai() that returns true
ReassignTurn ==
  /\ leaving = NoSlot
  /\ \E hi \in Most(now, V), lo \in Least(now, V) :
       Apart(hi, lo) /\ \E b \in now.listed[hi] : ShiftOne(b, lo)
  /\ UNCHANGED <<V, leaving, start>>

Ended ==
  IF leaving # NoSlot THEN now.listed[leaving] = {}
  ELSE \A hi \in Most(now, V), lo \in Least(now, V) : ~Apart(hi, lo)

\* The next call, when other clients may own bots or another one leaves,
\* finds the bots where the last one left them.
Call ==
  /\ Ended
  /\ V' \in SUBSET Slots
  /\ leaving' \in (Slots \ V') \cup {NoSlot}
  /\ \A b \in BotIds : now.owner[b] \in V' \cup {leaving', NoSlot}
  /\ start' = Fresh(now.owner)
  /\ now' = start'

Turn == RemoveTurn \/ ReassignTurn

Next == Turn \/ Call

Spec == Init /\ [][Next]_vars

-----------------------------------------------------------------------------
(* Properties.                                                             *)

\* What the loops leave behind is what Released and Rebalanced say, which
\* Bots uses for the calls of removeai() and reassignai().
LoopsAgree ==
  Ended => now \in IF leaving # NoSlot THEN Released(start, {leaving}, V)
                   ELSE Rebalanced(start, V)

\* What a turn has to make smaller: the bots of the client that leaves, or
\* the sum of the squares of the loads, which is least when they are even.
Variant ==
  IF leaving # NoSlot THEN Load(now, leaving)
  ELSE SumFunction([c \in V |-> Load(now, c) * Load(now, c)])

\* Both loops come to an end, whatever the number of bots: a turn never
\* passes a bot back to where it was, the variant shows.
LoopsEnd == [][UNCHANGED <<V, leaving, start>> => Variant' < Variant]_vars
=============================================================================
