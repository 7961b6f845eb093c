SPECIFICATION SpecLed
CONSTANTS
    n1 = n1  n2 = n2  n3 = n3
    c1 = c1  c2 = c2
    Node = {n1, n2, n3}
    Cmd = {}
    Nil = Nil
    MaxTimeouts = 2
    MaxElections = 2
    MaxAppends = 1
    MaxCrashes = 1
INVARIANT SomeoneCanLead
CHECK_DEADLOCK FALSE
