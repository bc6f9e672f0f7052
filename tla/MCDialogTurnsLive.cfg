CONSTANTS
    ReadIntents = {"LOGISTICS"}
    WriteIntents = {"REFUND"}
    Slots = {"order_id", "time"}
    StrictSlots = {"order_id"}
    Values = {v1}
    NoValue = NoValue
    NoTask = NoTask
    Rows = {r1, r2, r3}
    NoRow = NoRow
    StackMax = 1
    AsksMax = 2
    Required <- MCRequired
    Requests = {}
SPECIFICATION FairSpec
PROPERTY StubbornUserReleased
