SPECIFICATION Spec
CONSTANTS
    Sessions <- OneSession
    Transfers <- OneSession
    Limit <- NoMonthLimit
    Dates <- ThreeDates
    MaxAdds = 2
INVARIANTS TypeOK AllCounted LimitNoticed
CHECK_DEADLOCK FALSE
