----------------------------- MODULE MCSpawning -----------------------------
(* A human with his own client, or a bot between two owners.  The number of *)
(* changes is bounded, and with it every behaviour of the model.            *)
EXTENDS Spawning
=============================================================================
