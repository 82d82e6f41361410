SPECIFICATION SessionSpec
CONSTANTS
    p1 = p1
    p2 = p2
    p3 = p3
    Procs = {p1, p2, p3}
    Pids = {p1, p3}
    PidOf <- SharedPid
    Grace = 2
INVARIANTS
    SessionInv
PROPERTIES
    FullGrace
    DeadSessionEnds
