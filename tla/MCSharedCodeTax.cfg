SPECIFICATION MCSpec
CHECK_DEADLOCK FALSE
CONSTANTS
  alice = alice
  sol = sol
  A = A
  B = B
  empty = empty
  Users = {alice}
  Senders = {sol}
  Texts <- MCTexts
  Empty <- empty
  Taxes = {1, 2}
  MaxTax = 1
  Requests <- MCRequests
  Unemitted <- MCUnemitted
  MaxRequests = 3
INVARIANT UsedCodeGivesItsTax
