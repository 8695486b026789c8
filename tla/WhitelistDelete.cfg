SPECIFICATION Spec
CONSTANTS
    Fps = {f1}
    Ips = {i1}
    Cases <- BothCases
    Threads = {t1}
    MaxWorks = 2
    MaxRestarts = 0
INVARIANT DeletedIsGone
CHECK_DEADLOCK FALSE
