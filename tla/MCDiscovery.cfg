SPECIFICATION Spec
CONSTANTS
    Servers = {1, 2}
    Minute = 2
    Timeout = 5
    heartRate = 0
    Latency = 1
    Horizon = 8
    Callers = {g1, g2}
    UpdateTimeout = 1
    StartIndexes = {3}
SYMMETRY CallerSymmetry
INVARIANT TypeOK
INVARIANT BeatingServerListed
INVARIANT DeadServerDropped
INVARIANT RoundRobinFair
