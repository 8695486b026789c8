SPECIFICATION Spec
CONSTANTS
    Fps = {f1}
    Ips = {i1, i2}
    Cases <- UpperCase
    Threads = {t1, t2}
    MaxWorks = 4
    MaxRestarts = 1
SYMMETRY Symmetric
INVARIANTS TypeOK RevokedStaysOut AddedStaysIn NoticeOncePerRun 
CHECK_DEADLOCK FALSE
