SPECIFICATION InputFairSpec
CONSTANTS
    Text = {a, b}
    Control = {enter}
    Unmapped = {eacute}
    NoKey = NoKey
    BatchMax = 2
    MaxPressed = 4
    Conn = 2
    MaxFingers = 2
    MaxSent = 4
INVARIANTS
    InputTypeOK
    InOrder
    LiftFollows
PROPERTIES
    InputGetsThrough
CHECK_DEADLOCK FALSE
