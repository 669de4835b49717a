----------------------------- MODULE PromptBudget -----------------------------
(***************************************************************************)
(* What of a prompt is sent: fit_to_budget drops the oldest history first, *)
(* then the context with the lowest score, and never the system side;      *)
(* build_messages gives up the memory block when the system side alone     *)
(* fills the window.  A text is its estimated tokens.                      *)
(***************************************************************************)
EXTENDS Integers, Sequences, FiniteSetsExt

\* Tokens of the messages after the first n, and of the context items not in
\* the m lowest ones.  Equal scores keep their order.
Rank(context, i) ==
    Cardinality({j \in DOMAIN context :
        \/ context[j].score < context[i].score
        \/ context[j].score = context[i].score /\ j < i})
KeptContext(context, m) == {i \in DOMAIN context : Rank(context, i) >= m}

Sizes(context) == [i \in DOMAIN context |-> context[i].tokens]
Used(history, context, n, m) ==
    MapThenSumSet(LAMBDA i : history[i], (n + 1) .. Len(history))
        + MapThenSumSet(LAMBDA i : Sizes(context)[i], KeptContext(context, m))

\* The loops of fit_to_budget: from the first of N, one more is dropped until
\* the tokens that are left fit, or nothing is left.
Dropped(left, N, available) ==
    LET Drop[n \in 0 .. N] == IF left[n] <= available \/ n = N THEN n ELSE Drop[n + 1]
    IN Drop[0]

\* How many messages are dropped, then how many context items.
DropNewest(history, context, available) ==                          \* mutant
    Dropped([n \in 0 .. Len(history) |->
                 Used(SubSeq(history, 1, Len(history) - n), context, 0, 0)],
            Len(history), available)
DropHistory(history, context, available) ==
    Dropped([n \in 0 .. Len(history) |-> Used(history, context, n, 0)], Len(history), available)

DropContext(history, context, n, available) ==
    Dropped([m \in 0 .. Len(context) |-> Used(history, context, n, m)], Len(context), available)

FitToBudget(system, history, context, window) ==
    LET available == window - system
    IN IF available <= 0
       THEN [available |-> 0, history |-> Len(history), context |-> Len(context)]
       ELSE LET n == DropHistory(history, context, available)
            IN [available |-> available, history |-> n,
                context |-> DropContext(history, context, n, available)]

\* build_messages: the memory block is reserved with the instructions, and is
\* left out when that leaves nothing for the rest.
Messages(system, memory, history, context, window) ==
    LET with == FitToBudget(system + memory, history, context, window)
    IN IF memory > 0 /\ with.available = 0
       THEN [memory |-> 0, fit |-> FitToBudget(system, history, context, window)]
       ELSE [memory |-> memory, fit |-> with]

(***************************************************************************)
(* What the trimming must give, whatever the sizes.                        *)
(***************************************************************************)
\* What is sent fits, one message or item less dropped would not have fitted,
\* context goes only when no message is left, and nothing that is kept has a
\* lower score than what is dropped.
TrimmedRight(p, system, history, context, window) ==
    LET n == p.fit.history
        m == p.fit.context
        room == window - system - p.memory
    IN /\ room > 0 => Used(history, context, n, m) <= room
       /\ room > 0 /\ n > 0 => Used(history, context, n - 1, 0) > room
       /\ m > 0 => n = Len(history)
       /\ room > 0 /\ m > 0 => Used(history, context, n, m - 1) > room
       /\ \A i \in KeptContext(context, m), j \in DOMAIN context \ KeptContext(context, m) :
              context[i].score >= context[j].score
===============================================================================
