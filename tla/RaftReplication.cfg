SPECIFICATION SpecSeeded
CONSTANTS
    n1 = n1  n2 = n2  n3 = n3
    c1 = c1  c2 = c2
    Node = {n1, n2, n3}
    Cmd = {c1, c2}
    Nil = Nil
    MaxTimeouts = 1
    MaxElections = 1
    MaxAppends = 3
    MaxCrashes = 0
INVARIANTS TypeOK AppendAllIsTheLoop LogContiguous LogMatching LeaderCompleteness StateMachineSafety MatchIsReplicated
PROPERTIES CommittedStable
CHECK_DEADLOCK FALSE
