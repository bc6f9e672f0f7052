CONSTANTS
    Turns = {t1, t2}
    Agents = {a1}
    Tickets = {k1, k2}
    Nobody = Nobody
    NoTicket = NoTicket
    Questions = 2
    StreakLimit = 2
    AskOnClose = TRUE
SYMMETRY Symmetry
SPECIFICATION SessionSpec
INVARIANT OneOpenTicket
INVARIANT HandoverHasTicket
INVARIANT RatedOnce
PROPERTY EndedStaysEnded
CHECK_DEADLOCK FALSE
