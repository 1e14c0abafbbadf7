------------------------------ MODULE MCEvents ------------------------------
(* One client with a fist and a launcher, in coarse units of time: a delay  *)
(* of two units, dying for one, a match of three and one more after it.    *)
EXTENDS Events
Delays == [fist |-> 1, rocket |-> 2]
=============================================================================
