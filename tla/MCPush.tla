--------------------------------- MODULE MCPush --------------------------------
(* Push for TLC: the symmetry of its devices and of what there is to tell.        *)
EXTENDS Push, TLC

PushSymmetry == Permutations(Device) \cup Permutations(Item)
===============================================================================
