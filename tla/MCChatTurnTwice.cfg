CONSTANTS
    ReadIntents = {}
    WriteIntents = {"REFUND"}
    Slots = {"order_id"}
    StrictSlots = {"order_id"}
    Values = {v1}
    NoValue = NoValue
    NoTask = NoTask
    Rows = {r1, r2}
    NoRow = NoRow
    StackMax = 1
    AsksMax = 2
    Required <- MCRequired
    Requests = {}
    Turns = {t1, t2}
    Retention = {TRUE}
    Failures = FALSE
    Identity = {TRUE}
    Vocabulary <- Labels
    TurnBound = 4
SYMMETRY Symmetry
SPECIFICATION Spec
INVARIANT AtMostOnce
