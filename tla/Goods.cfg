SPECIFICATION GoodsSpec
CONSTANTS
  None = None
  q1 = q1 q2 = q2 q3 = q3
  i1 = i1 i2 = i2 i3 = i3 i4 = i4 a1 = a1 a2 = a2 w1 = w1
  beer = beer stout = stout diesel = diesel ice = ice k1 = k1 k2 = k2
  Lots = {1, 2}
  Items = {i1, i2, i3, i4}
  Undos = {u1}
  Counts = {c1}
  Adjustments = {a1, a2}
  Txs = {w1, w2}
  Numbers <- UpToTwo
  Costs = {1, 5}
  Requests = {q1, q2, q3}
  Names = {beer, stout}
  Amounts = {1}
  Releases <- TwoReleases
  LastMoment = 4
  Skew = 1
  MaxRows = 6
  Purposes = {diesel, ice}
  Queued <- TwoExpenses
  LastDay = 3
  MaxExpenses = 6
SYMMETRY Symmetry
INVARIANTS AllocationsAddUp CostsAddUp BalanceIsLedger PricesHold ExpensesAddUp
PROPERTIES DrawnOldestFirst CorrectionReachesCount CopiesAreWhole
\* The identifiers run out, and a bar may stop trading.
CHECK_DEADLOCK FALSE
