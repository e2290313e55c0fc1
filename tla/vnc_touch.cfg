SPECIFICATION Spec
CONSTANTS
    Host = {h1}
    NoHost = NoHost
    Usable = {g1}
    MaxRects = 1
    MaxFrames = 1
INVARIANT TouchIsPointerEvent
