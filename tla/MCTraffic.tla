------------------------------ MODULE MCTraffic ------------------------------
(* A session with a transfer, limits and dates for the run of Traffic. *)
EXTENDS Traffic

OneSession == {"s1"}
NoMonthLimit == [day |-> 1, week |-> 2, month |-> 0]

\* a Sunday, a Monday that begins a month, a Tuesday
ThreeDates == <<[day |-> "Sun", week |-> 31, month |-> "Aug"],
                [day |-> "Mon", week |-> 1, month |-> "Sep"],
                [day |-> "Tue", week |-> 2, month |-> "Sep"]>>
=============================================================================
