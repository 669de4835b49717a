------------------------------ MODULE Guardrails ------------------------------
(***************************************************************************)
(* The review of an answer before it is shown: a judge for harmful content *)
(* first, then the redaction of personal data.  A text is its words, one   *)
(* space apart; a detection covers the words from..to and carries the      *)
(* category of its entity type and the detector's score.                   *)
(***************************************************************************)
EXTENDS Naturals, Sequences, FiniteSets

CONSTANTS WordCount, Scores

ASSUME GuardrailAssumption == WordCount \in Nat \ {0} /\ Scores \subseteq Nat

Words == 1 .. WordCount
Categories == {"named", "contact", "structured"}

Detections ==
    {d \in [from : Words, to : Words, category : Categories, score : Scores] : d.from <= d.to}

Covers(d) == d.from .. d.to
Overlap(d, e) == d.from <= e.to /\ e.from <= d.to

Priority(d) ==
    CASE d.category = "structured" -> 2 [] d.category = "contact" -> 1
      [] d.category = "named" -> 0

\* _resolve_overlaps: strongest first, a detection that overlaps a kept one is
\* dropped.  Equal detections come in the analyzer's order, which is free.
Stronger(d, e) ==
    d.score > e.score \/ (d.score = e.score /\ Priority(d) > Priority(e))
Strongest(ds) == {d \in ds : \A e \in ds : ~Stronger(e, d)}
ResolveOverlaps(ds) ==
    LET Keep[left \in SUBSET ds] ==
            IF left = {} THEN {{}}
            ELSE UNION {{{d} \cup kept : kept \in Keep[{e \in left : ~Overlap(e, d)}]}
                            : d \in Strongest(left)}
    IN Keep[ds]

\* A name or a contact that the turn's evidence contains is only flagged.  The
\* evidence is given by the words of the text it quotes, in the text's order.
EvidenceMatched(d, evidence) == Covers(d) \subseteq evidence
DetectionAction(d, evidence) ==
    IF d.category # "structured" /\ EvidenceMatched(d, evidence) THEN "flagged" ELSE "redacted"

\* _redact_spans: neighbours of one entity type become one replacement; what is
\* left is the words outside every replaced span.
MergesWithNext(d, e) == d.category = e.category /\ e.from = d.to + 1
RedactSpans(ds) ==
    [kept |-> Words \ UNION {Covers(d) : d \in ds},
     marks |-> Cardinality({d \in ds : ~\E e \in ds : MergesWithNext(e, d)})]

Severity == [none |-> 0, flagged |-> 1, redacted |-> 2, blocked |-> 3]
MaxSeverity(actions) ==
    IF actions = {} THEN "none"
    ELSE CHOOSE a \in actions : \A b \in actions : Severity[b] <= Severity[a]

PiiReviews(ds, evidence) ==
    {[action |-> MaxSeverity({DetectionAction(d, evidence) : d \in kept}),
      redacted |-> RedactSpans({d \in kept : DetectionAction(d, evidence) = "redacted"}),
      acted |-> kept] : kept \in ResolveOverlaps(ds)}

\* HarmfulContentJudge: anything but a readable "not harmful" blocks the answer.
JudgeReplies == {"safe", "harmful", "unreadable", "unavailable"}
Harmful(reply) == reply # "safe"

\* OutputGuardrailService.review: a blocked answer is not searched for personal
\* data, and its text is returned as it was.
Reviews(reply, ds, evidence) ==
    IF Harmful(reply)
    THEN {[action |-> "blocked",
           redacted |-> [kept |-> Words, marks |-> 0], acted |-> {}]}
    ELSE PiiReviews(ds, evidence)
===============================================================================
