\* A refused market order is submitted again with the key it had.
CONSTANTS
    Slots = {"c1", "c2"}
    Spare = "sign-out"
    Symbols = {"A", "B"}
    Loads <- JustOrders

SPECIFICATION Spec

INVARIANTS
    RestingMeansOpen

\* A page may rest when its user does.
CHECK_DEADLOCK FALSE
