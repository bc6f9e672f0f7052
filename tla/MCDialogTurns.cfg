CONSTANTS
    ReadIntents = {"LOGISTICS"}
    WriteIntents = {"REFUND"}
    Slots = {"order_id", "time"}
    StrictSlots = {"order_id"}
    Values = {v1}
    NoValue = NoValue
    NoTask = NoTask
    Rows = {r1, r2, r3, r4}
    NoRow = NoRow
    StackMax = 2
    AsksMax = 1
    Required <- MCRequired
    Requests <- MCRequests
SYMMETRY RowSymmetry
SPECIFICATION Spec
INVARIANT WaitingHasTask
INVARIANT GateArmed
INVARIANT OneTaskPerRow
INVARIANT ResumeIsRecursion
PROPERTY NewestResumedFirst
PROPERTY GateSpec
