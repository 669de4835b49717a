--------------------------- MODULE MCHitlApproval ---------------------------
(* HitlApproval on small instances, and as an implementation of ApprovedCall. *)
EXTENDS HitlApproval, FiniteSets, TLC

\* Requests are interchangeable; not used with liveness.
Symmetry == Permutations(Requests)

\* The promise made to the owner, read off the rows and the outside world.
Promise == INSTANCE ApprovedCall WITH
    decision   <- approval.decision,
    payload    <- approval.payload,
    deliveries <- [p \in Payloads |-> Cardinality({i \in DOMAIN sent : sent[i] = p})],
    resends    <- confirmed,
    losses     <- lost,
    answered   <- action.status \in Spent

\* Decide, resume, retry and crash implement the promise of ApprovedCall: every
\* step of a request is one of its steps or changes nothing it talks about.
KeepsPromise == Promise!Spec

=============================================================================
