\* The page, its forms and its stream, under each of the loads.
CONSTANTS
    Slots = {"c1", "c2"}
    Spare = "sign-out"
    Symbols = {"A", "B"}
    Loads <- MCLoads

SPECIFICATION FairSpec

INVARIANTS
    RefreshPresentedOnce
    SessionSurvives
    AttemptMovesOnce
    NoticeIsTrue
    PricesFollowScreen

PROPERTIES
    StreamComesBack

\* A page may rest when its user does.
CHECK_DEADLOCK FALSE
