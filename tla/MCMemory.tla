-------------------------------- MODULE MCMemory --------------------------------
(* The memory of facts, on a small instance (Memory_pass.cfg).                   *)
EXTENDS Memory, TLC

\* What is under way at once is alike, and so are the words staged without a name.
MemorySymmetry == Permutations(Flow) \cup Permutations(Word \ Tagged)
===============================================================================
