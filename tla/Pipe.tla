--------------------------------- MODULE Pipe ---------------------------------
(***************************************************************************)
(* What a reliable channel of ENet promises its two ends: the packets one  *)
(* end gives it come out at the other end whole, once and in that order,   *)
(* until the connection is given up.  EnetChannel implements it.           *)
(***************************************************************************)
EXTENDS Naturals, Sequences

CONSTANT Contents         \* the contents a packet may have

VARIABLES queue,          \* given to the channel and not yet out of it
          out,            \* what came out at the other end
          up              \* the sender still holds the connection

TypeOK == /\ queue \in Seq(Contents)
          /\ out \in Seq(Contents)
          /\ up \in BOOLEAN

Init == queue = <<>> /\ out = <<>> /\ up = TRUE

Put == /\ up
       /\ \E c \in Contents : queue' = Append(queue, c)
       /\ UNCHANGED <<out, up>>

\* One command that was missing may let several packets out at once.
Get == \E k \in 1..Len(queue) :
          /\ out' = out \o SubSeq(queue, 1, k)
          /\ queue' = SubSeq(queue, k + 1, Len(queue))
          /\ UNCHANGED up

GiveUp == up /\ up' = FALSE /\ UNCHANGED <<queue, out>>

Next == Put \/ Get \/ GiveUp

Spec == Init /\ [][Next]_<<queue, out, up>>
===============================================================================
