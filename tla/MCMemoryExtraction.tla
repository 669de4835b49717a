------------------------- MODULE MCMemoryExtraction -------------------------
(* Model values for TLC: processes, conversations and rows are            *)
(* interchangeable.                                                        *)
EXTENDS MemoryExtraction, TLC

Symmetry == Permutations(Processes) \union Permutations(Conversations)
              \union Permutations(MemoryIds) \union Permutations(Switchers)
=============================================================================
