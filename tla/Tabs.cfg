SPECIFICATION Spec
CONSTANTS
    Bills = {b1, b2}
    Rounds = {r1, r2, r3}
    Payments = {p1, p2, p3}
    Variants = {v}
    Carts <- MCCarts
    Quantities = {1, 2}
    Prices = {1, 2}
    Amounts = {1, 2}
    Requests = {w1}
    None = None
SYMMETRY Symmetry
INVARIANTS
    TypeOK
    ProjectionExact
    NeverInCredit
    StatusMatchesBalance
    VoidHidesNoMoney
    NothingRemovedTwice
    RefundedOncePerBill
PROPERTIES
    VoidedWhileOpen
    ReopenedByRefundOnly
    ImplementsAccount
\* The identifiers run out, and a bar may stop trading.
CHECK_DEADLOCK FALSE
