SPECIFICATION Spec
CONSTANTS
    Bills = {b1, b2}
    Rounds = {r1, r2}
    Payments = {p1}
    Variants = {v}
    Carts <- MCOneCart
    Quantities = {1}
    Prices = {1}
    Amounts = {1}
    Requests = {w1}
    None = None
SYMMETRY Symmetry
INVARIANT
    EveryBillProjected
CHECK_DEADLOCK FALSE
