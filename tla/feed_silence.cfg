SPECIFICATION Spec
CONSTANTS
    Content = {c1, c2}
    Garbage = garbage
    NoFrame = none
    Streamers = {s1}
    Pollers = {p1}
    MaxEvents = 2
PROPERTIES
    TimeoutMeansDead
