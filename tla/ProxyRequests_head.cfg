SPECIFICATION Spec
CONSTANTS
    a = a
    b = b
    c = c
    d = d
    w1 = w1
    w2 = w2
    x = x
    y = y
    None = None
    Requests <- Three
    Workers <- TwoWorkers
    Keys <- TwoKeys
    WorkerOf <- WorkerMap
    KeyOf <- AllX
    MethodOf <- OneHead
INVARIANTS
    GetHasBody
CHECK_DEADLOCK FALSE
