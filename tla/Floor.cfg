SPECIFICATION FloorSpec
CONSTANTS
  None = None
  q1 = q1 q2 = q2 q3 = q3 b1 = b1 beer = beer stout = stout
  staffPhone = staffPhone ownerPhone = ownerPhone barPhone = barPhone
  pint1 = pint1 pint2 = pint2 pint3 = pint3 undo1 = undo1 undo3 = undo3 cash1 = cash1 cash3 = cash3
  Requests = {r1, r2}
  Variants = {beer, stout}
  Prices = {1, 2}
  Quantities = {1}
  MaxRounds = 3
  MaxTokens = 3
  LastMoment = 3
  Transactions = {q1, q2, q3}
  OpenBills = {b1}
  Carts <- BothOrders
  Devices = {staffPhone, ownerPhone, barPhone}
  Rounds = {pint1, pint2, pint3}
  Removals = {undo1, undo3}
  Payments = {cash1, cash3}
  Whose <- OnPhone
  Opening = 1
  MaxTaps = 2
  MaxLooks = 2
SYMMETRY Symmetry
INVARIANTS PageIsOneMoment CirclesAreOutOfOrder TapsAddUp ShowsWhatItDid
PROPERTIES DeadStaysDead
\* The bill is full, every transaction is over and nobody taps any more.
CHECK_DEADLOCK FALSE
