----------------------------- MODULE MCSavedMemories -----------------------------
(* Two extractions, or one with chat turns, of two operations with one turn.   *)
EXTENDS SavedMemories

CONSTANTS a, b, w1, w2, t1, t2

MCCost == [c \in Contents |-> IF c \in Profile THEN 1 ELSE 2]
MCTeams == {{w1, w2}, {w1, t1}, {w1, t1, t2}}
MCBatchSize == [T \in Teams |-> IF T = {w1, t1} THEN 2 ELSE 1]
==================================================================================
