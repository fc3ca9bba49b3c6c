SPECIFICATION Spec
CONSTANTS
    Bills = {b1}
    Rounds = {r1, r2, r3}
    Payments = {p1}
    Variants = {v}
    Carts <- MCCarts
    Quantities = {1}
    Prices = {1, 2}
    Amounts = {1, 2}
    Requests = {w1}
    None = None
SYMMETRY Symmetry
INVARIANT
    VoidBillHasNoItems
CHECK_DEADLOCK FALSE
