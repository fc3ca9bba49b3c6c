SPECIFICATION Spec
CONSTANTS
    Bills = {b1, b2, b3}
    Rounds = {r1, r2, r3}
    Payments = {p1, p2, p3}
    Variants = {v}
    Carts <- MCCarts
    Quantities = {1}
    Prices = {1, 2}
    Amounts = {1, 2}
    Requests = {w1, w2}
    None = None
SYMMETRY Symmetry
INVARIANT
    SaleReversedAtMostOnce
CHECK_DEADLOCK FALSE
