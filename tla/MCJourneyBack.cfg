CONSTANTS
    Turns = {t1, t2}
    Signals <- MCSignals
    NoRow = NoRow
SPECIFICATION Spec
PROPERTY StageNeverBack
CHECK_DEADLOCK FALSE
