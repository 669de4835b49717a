----------------------------- MODULE MCRequests -----------------------------
(***************************************************************************)
(* Two persons, two workers, a pool of two connections, two spellings of   *)
(* one mailbox and another.  The persons and the workers act in different  *)
(* behaviours: nobody asks for anything while the workers start on a fresh *)
(* database, and no worker restarts while requests run.                    *)
(***************************************************************************)
EXTENDS Requests

CONSTANTS p1, p2, w1, w2, old

MCPeople == {p1, p2}
MCWorkers == {w1, w2}
MCOldRows == {old}
MCSpellings == {"ann@x", "Ann@x", "bob@x"}
MCNormalised == [s \in MCSpellings |-> IF s = "bob@x" THEN "bob@x" ELSE "ann@x"]

(* What two turns ask: one that sends, against a gated call that is no      *)
(* agent's tool, a question with research, a harmful one.                   *)
Ask(c, u, g) == [capabilities |-> c, uses |-> u, call |-> g,
                 final |-> g = "nothing", harmful |-> u = "failed tool"]

Sends    == Ask({"send"}, "nothing", "email_send")
Foreign  == Ask({}, "nothing", "mcp_tool")
Research == Ask({}, "evidence", "nothing")
Harmful  == Ask({"read"}, "failed tool", "nothing")

(* The requests that meet: over an address, the pool, the table's lock or   *)
(* a role.                                                                  *)
SignUps == job[p1] = "signup" /\ job[p2] = "signup" /\ ask[p1] = Research
TwoTurns ==
    /\ job[p1] = "turn" /\ job[p2] = "turn" /\ retention = "unset"
    /\ <<ask[p1], ask[p2]>> \in {<<Sends, Research>>, <<Harmful, Foreign>>}
PurgedTurn ==
    /\ job[p1] = "turn" /\ job[p2] \in {"turn", "decide", "memory"} /\ retention = "days"
    /\ ask[p1] \in {Research, Harmful}

MCInit ==
    /\ Init
    /\ IF Serving THEN SignUps \/ TwoTurns \/ PurgedTurn
       ELSE \A p \in People : job[p] = "none" /\ ask[p] = Research
    /\ job[p2] # "turn" \/ retention = "days" => ask[p2] = Research
    /\ \A p \in People : user[p] # NoUser =>
          user[p].email = (IF p = p1 THEN "ann@x" ELSE "bob@x")

(* Restarts are explored where nobody asks, the operator's changes where no *)
(* purge runs, and a token expires before its request.                      *)
MCNext ==
    /\ Next
    /\ restarts' # restarts => \A p \in People : job[p] = "none"
    /\ edits' # edits => retention = "unset"
    /\ \A p \in People : session'[p] = "expired" => session[p] = "expired" \/ at[p] = "idle"

MCSpec == MCInit /\ [][MCNext]_vars /\ Fairness
=============================================================================
