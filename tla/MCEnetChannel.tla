---------------------------- MODULE MCEnetChannel ----------------------------
(* Packets of one command and of two, a shorter one after a longer one.  From *)
(* nine commands on, the numbers start over with the third of them.           *)
EXTENDS EnetChannel

FourPackets == <<<<2>>, <<2, 1>>, <<1>>, <<1>>>>
ThreePackets == <<<<2>>, <<2, 1>>, <<1>>>>
==============================================================================
