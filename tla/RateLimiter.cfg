SPECIFICATION Spec
CONSTANTS
    Client = {c1, c2}
    Limit = 2
    Window = 2
    MaxTime = 5
    MaxRequests = 5
INVARIANTS
    TypeOK
    WindowBound
PROPERTIES
    ImplementsSlidingWindow
