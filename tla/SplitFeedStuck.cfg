SPECIFICATION Spec
CONSTANTS
    own = own
    shared = shared
    o1 = o1
    o2 = o2
    o3 = o3
    Contexts = {own, shared}
    Items = {1}
    Ops = {o1, o2, o3}
    Command <- Friend
    NoOp = NoOp
    PageLimit = 2
    Window = 2
    MaxLog = 3
    NoEvent = NoEvent
    NoRow = NoRow
    NoTransaction = NoTransaction
    Idle = Idle
INVARIANT PagesAreTaken
CHECK_DEADLOCK FALSE
CONSTRAINT Bound
