SPECIFICATION MCSpec
CHECK_DEADLOCK FALSE
CONSTANTS
  alice = alice
  sol = sol
  A = A
  B = B
  empty = empty
  Users = {alice}
  Senders = {sol}
  Texts <- MCTexts
  Empty <- empty
  Taxes = {1, 2}
  MaxTax = 1
  Requests <- MCRequests
  Unemitted <- MCUnemitted
  MaxRequests = 2
  Voters = {A, B}
  Scripts = {"s"}
  Durations = {1}
  Stakes = {0, 1}
  MaxProposals = 2
  MaxTime = 3
  MaxU64 = 4
INVARIANTS
  TallyIsVotes
  ExecutedAtMostOnce
PROPERTIES
  FateSealed
