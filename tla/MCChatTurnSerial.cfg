CONSTANTS
    ReadIntents = {"LOGISTICS"}
    WriteIntents = {"REFUND"}
    Slots = {"order_id"}
    StrictSlots = {"order_id"}
    Values = {v1}
    NoValue = NoValue
    NoTask = NoTask
    Rows = {r1, r2, r3}
    NoRow = NoRow
    StackMax = 1
    AsksMax = 2
    Required <- MCRequired
    Requests = {}
    Turns = {t1}
    Retention = {FALSE}
    Failures = FALSE
    Identity = {TRUE, FALSE}
    Vocabulary <- Labels
    TurnBound = 8
SYMMETRY Symmetry
SPECIFICATION Spec
INVARIANT AtMostOnce
INVARIANT ConfirmExecutes
INVARIANT RowsFollowDialog
PROPERTY OutcomesStay
