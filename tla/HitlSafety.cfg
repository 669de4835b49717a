CONSTANTS
  Requests = {r1, r2}
  Users = {alice, bob}
  Owner = alice
  Payloads = {draft, edited}
  Proposed = draft
  Faults = {"save", "claim", "load", "send", "reject", "store", "answer", "record", "crash"}
  MaxFaults = 2
SPECIFICATION Spec
SYMMETRY Symmetry
INVARIANTS
    RecordsTrue
    SentOnlyIfApproved
    ClaimsHold
PROPERTIES
    SettledForGood
    KeepsPromise
