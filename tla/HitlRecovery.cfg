CONSTANTS
  MaxCalls = 3
  Drafts = {d1, d2}
  Faults = {"send", "reject", "graph", "commit", "crash", "role"}
  MaxFaults = 3
  Requests = {r1, r2}
  Users = {alice, bob}
  Owner = alice
  Payloads = {draft, edited}
  Proposed = draft
  ApprovalFaults = {"claim", "load", "send", "reject", "store", "answer", "record", "crash", "slow"}
  MaxApprovalFaults = 1
SPECIFICATION MCSpec
INVARIANTS
    AnswersFollowRows
    ApprovalsMatchGraph
    DeliveriesAccounted
PROPERTIES
    TurnEnds
    DecidedIsAnswered
