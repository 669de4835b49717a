----------------------------- MODULE MCAgentTurn -----------------------------
(* The limits of the checked instances of AgentTurn.                        *)
EXTENDS AgentTurn

\* Small, with the defaults' proportions where they matter: more tool calls
\* than iterations, and one rejected decision that is asked again.
RunLimits == [k \in Kinds |->
    CASE k = "step" -> 10
      [] k \in {"iteration", "evidence"} -> 5
      [] k = "tool" -> 6
      [] k = "hop" -> 1
      [] k = "decision" -> 4
      [] k = "result" -> 3
      [] k \in {"rejected", "repeated", "noProgress"} -> 2]
=============================================================================
