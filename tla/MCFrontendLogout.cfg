\* A sign-out whose access token has expired.
CONSTANTS
    Slots = {"c1", "c2"}
    Spare = "sign-out"
    Symbols = {"A", "B"}
    Loads <- JustSignOuts

SPECIFICATION Spec

INVARIANTS
    SignOutRevokes

\* A page may rest when its user does.
CHECK_DEADLOCK FALSE
