----------------------------- MODULE MCSessions -----------------------------
(* Small instances of Sessions: model values for slots and addresses, and   *)
(* the symmetry of both, which no definition of Sessions tells apart.       *)
EXTENDS Sessions, TLC

MCPubServ == {MM_OPEN, MM_VETO}
MCPrivServ == Modes
SlotSymmetry == Permutations(Slots) \cup Permutations(Addrs)
=============================================================================
