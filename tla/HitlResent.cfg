CONSTANTS
  Requests = {r1}
  Users = {alice}
  Owner = alice
  Payloads = {draft}
  Proposed = draft
  Faults = {"store"}
  MaxFaults = 1
SPECIFICATION Spec
INVARIANT SentAtMostOnce
