------------------------------ MODULE Traffic ------------------------------
(***************************************************************************)
(* The traffic counters (CCounter): what the control thread and the data   *)
(* thread of a session add to them, the limits that main and the sessions  *)
(* check, and trafficthread, which resets them when the day, the week or   *)
(* the month changes.                                                      *)
(*                                                                         *)
(* Each counter has a lock of its own and nothing holds two of them: five  *)
(* additions, three resets and three tests are so many steps, and any      *)
(* other thread may be between them.  An addition is a load and a store,   *)
(* so that it is the lock that makes it one.  The control thread stands    *)
(* for whoever holds rwlock, the data thread when it writes a reply, too.  *)
(***************************************************************************)
EXTENDS Integers, Sequences

CONSTANTS
    Sessions,     \* control threads
    Transfers,    \* the sessions that have a data thread
    Limit,        \* day_limit, week_limit, month_limit, 0 if there is none
    Dates,        \* the calendar, what asctime says of each date
    MaxAdds       \* reads and writes, each of one unit

Periods  == {"day", "week", "month"}
Counters == Sessions \cup {"total"} \cup Periods
Threads  == ({"control"} \X Sessions) \cup ({"data"} \X Transfers)
Main     == <<"main", "main">>
Free     == <<"free", "free">>
Checkers == ({"control"} \X Sessions) \cup {Main}

Date == [day : STRING, week : Nat \ {0}, month : STRING]

ASSUME SessionsAssumption ==
    Transfers \subseteq Sessions /\ Sessions \cap (Periods \cup {"total"}) = {}
ASSUME LimitAssumption == Limit \in [Periods -> Nat] /\ MaxAdds \in Nat
ASSUME DatesAssumption ==
    /\ Dates \in Seq(Date) /\ Len(Dates) > 0
    /\ \A i \in DOMAIN Dates : Dates[i].day # "" /\ Dates[i].month # ""
    /\ \A i \in 1 .. Len(Dates) - 1 : Dates[i].day # Dates[i + 1].day
    /\ \A i, j \in DOMAIN Dates :
          /\ i < j /\ Dates[i].day = "Mon" /\ Dates[j].day = "Mon"
          /\ \A d \in i + 1 .. j - 1 : Dates[d].day # "Mon"
          => Dates[i].week # Dates[j].week

VARIABLES
    send, recvd,        \* the two numbers of each counter
    lock,               \* and its lock
    todo, loaded, way,  \* of a thread that adds: the counters left, what it loaded
    check, refused,     \* of a thread in trafficcheck; the limit was reached
    adds,
    today,              \* index in Dates
    round, ti,          \* trafficthread: where it is, the date it looks at
    lastday, lastweek, lastmonth,
    seen, timely, fresh, missed, hist, over

adding   == <<todo, loaded, way>>
checking == <<check, refused>>
last     == <<lastday, lastweek, lastmonth>>
thread   == <<round, ti, last>>
history  == <<seen, timely, fresh, missed, hist>>
vars     == <<send, recvd, lock, adding, checking, adds, today, thread, history, over>>

(* History: hist, what was added to a counter in its current period, a     *)
(* calendar's period; seen, a round of trafficthread began today; timely,  *)
(* the periods that are still those of the round; fresh, those a round of  *)
(* them has dealt with, and missed, what it took away; over, the limits    *)
(* that were passed when a check began and were not reset since.           *)
Total(k) == send[k] + recvd[k]

-----------------------------------------------------------------------------
(* Adding: CControlThread::Read and Write, CDataThread::Read and Write     *)

Order(s) == <<s, "total", "day", "week", "month">>

\* Mutant: the lock is not looked at
LockFreeMutant(k) == TRUE

LockFree(k) == lock[k] = Free

\* something was read from or written to the client
Transferred(t, dir) ==
    /\ todo[t] = <<>> /\ adds < MaxAdds
    /\ t \in Checkers => check[t] = "no" /\ ~refused[t]
    /\ adds' = adds + 1
    /\ todo' = [todo EXCEPT ![t] = Order(t[2])]
    /\ way' = [way EXCEPT ![t] = dir]
    /\ UNCHANGED <<send, recvd, lock, loaded, checking, today, thread, history, over>>

\* addsend and addrecvd: lock, and the old value is loaded
Load(t) ==
    /\ todo[t] # <<>> /\ loaded[t] = -1
    /\ LET k == Head(todo[t])
       IN  /\ LockFree(k)
           /\ lock' = [lock EXCEPT ![k] = t]
           /\ loaded' = [loaded EXCEPT ![t] = IF way[t] = "send" THEN send[k] ELSE recvd[k]]
    /\ UNCHANGED <<send, recvd, todo, way, checking, adds, today, thread, history, over>>

\* the new value is stored, unlock; only CControlThread::Write then looks at
\* the limits
Store(t) ==
    /\ todo[t] # <<>> /\ loaded[t] # -1
    /\ LET k == Head(todo[t])
       IN  /\ IF way[t] = "send"
              THEN send' = [send EXCEPT ![k] = loaded[t] + 1] /\ UNCHANGED recvd
              ELSE recvd' = [recvd EXCEPT ![k] = loaded[t] + 1] /\ UNCHANGED send
           /\ lock' = [lock EXCEPT ![k] = Free]
           /\ hist' = [hist EXCEPT ![k] = @ + 1]
    /\ todo' = [todo EXCEPT ![t] = Tail(@)]
    /\ loaded' = [loaded EXCEPT ![t] = -1]
    /\ check' = IF t \in Checkers /\ Len(todo[t]) = 1 /\ way[t] = "send"
                THEN [check EXCEPT ![t] = "begin"] ELSE check
    /\ UNCHANGED <<way, refused, adds, today, thread, seen, timely, fresh, missed, over>>

-----------------------------------------------------------------------------
(* trafficcheck                                                            *)

Passed(k) == Limit[k] # 0 /\ Total(k) >= Limit[k]

\* Mutant: one limit that is not configured turns all of them off
UnlimitedMutant == \E k \in Periods : Limit[k] = 0

Unlimited == \A k \in Periods : Limit[k] = 0

\* Accept has returned to main, or a Write to the client has been counted
BeginCheck(t) ==
    /\ check[t] = IF t = Main THEN "no" ELSE "begin"
    /\ check' = [check EXCEPT ![t] = IF Unlimited THEN "passed" ELSE "day"]
    /\ over' = [over EXCEPT ![t] = {k \in Periods : Passed(k)}]
    /\ UNCHANGED <<send, recvd, lock, adding, refused, adds, today, thread, history>>

After(k) == CASE k = "day" -> "week" [] k = "week" -> "month" [] k = "month" -> "passed"

\* one limit; main closes the new connection, a session is over: its Write has
\* failed
Test(t) ==
    /\ check[t] \in Periods
    /\ lock[check[t]] = Free \/ Limit[check[t]] = 0
    /\ LET over_limit == Passed(check[t])
       IN  /\ check' = [check EXCEPT ![t] = IF over_limit THEN "no" ELSE After(@)]
           /\ refused' = [refused EXCEPT ![t] = over_limit /\ t # Main]
    /\ UNCHANGED <<send, recvd, lock, adding, adds, today, thread, history, over>>

\* trafficcheck has returned 1
GoOn(t) ==
    /\ check[t] = "passed"
    /\ check' = [check EXCEPT ![t] = "no"]
    /\ UNCHANGED <<send, recvd, lock, adding, refused, adds, today, thread, history, over>>

-----------------------------------------------------------------------------
(* trafficthread                                                           *)

\* the periods that change with the next date
Changed ==
    {"day"} \cup {k \in {"week"} : Dates[today + 1].day = "Mon"}
            \cup {k \in {"month"} : Dates[today + 1].month # Dates[today].month}

\* A round begins once a minute, so on every date.
Tomorrow ==
    /\ seen /\ today < Len(Dates)
    /\ today' = today + 1
    /\ seen' = FALSE
    /\ timely' = timely \ Changed
    /\ fresh' = fresh \ Changed
    /\ hist' = [k \in Counters |-> IF k \in Changed THEN 0 ELSE hist[k]]
    /\ missed' = [k \in Periods |-> IF k \in Changed THEN 0 ELSE missed[k]]
    /\ UNCHANGED <<send, recvd, lock, adding, checking, adds, thread, over>>

\* sleep returns, time and localtime
Wake ==
    /\ round = "sleep"
    /\ round' = "day" /\ ti' = today
    /\ seen' = TRUE /\ timely' = Periods
    /\ UNCHANGED <<send, recvd, lock, adding, checking, adds, today, last, fresh, missed,
                   hist, over>>

\* Mutant: every day begins a week
IsNewMutant(k, date) ==
    CASE k = "day"   -> lastday # date.day
      [] k = "week"  -> lastweek # date.week
      [] k = "month" -> lastmonth # date.month

\* the three conditions of a round
IsNew(k, date) ==
    CASE k = "day"   -> lastday # date.day
      [] k = "week"  -> lastweek # date.week /\ date.day = "Mon"
      [] k = "month" -> lastmonth # date.month

\* Mutant: what was sent is kept
ResetMutant(k) == recvd' = [recvd EXCEPT ![k] = 0] /\ UNCHANGED send

\* CCounter::reset
Reset(k) ==
    /\ recvd' = [recvd EXCEPT ![k] = 0]
    /\ send'  = [send EXCEPT ![k] = 0]

\* the condition and the reset of one counter
Renew(k) ==
    /\ round = k
    /\ LET date == Dates[ti]
           new  == IsNew(k, date)
       IN  /\ IF new
              THEN LockFree(k) /\ Reset(k)
              ELSE UNCHANGED <<send, recvd>>
           /\ lastday'   = IF new /\ k = "day" THEN date.day ELSE lastday
           /\ lastweek'  = IF new /\ k = "week" THEN date.week ELSE lastweek
           /\ lastmonth' = IF new /\ k = "month" THEN date.month ELSE lastmonth
           /\ over' = [t \in Checkers |-> IF new THEN over[t] \ {k} ELSE over[t]]
           /\ fresh' = IF k \in timely THEN fresh \cup {k} ELSE fresh
           /\ missed' = IF new /\ k \in timely \ fresh THEN [missed EXCEPT ![k] = hist[k]]
                        ELSE missed
    /\ round' = IF k = "month" THEN "sleep" ELSE After(k)
    /\ UNCHANGED <<lock, adding, checking, adds, today, ti, seen, timely, hist>>

-----------------------------------------------------------------------------
Init ==
    /\ send = [k \in Counters |-> 0] /\ recvd = [k \in Counters |-> 0]
    /\ lock = [k \in Counters |-> Free]
    /\ todo = [t \in Threads |-> <<>>]
    /\ loaded = [t \in Threads |-> -1]
    /\ way = [t \in Threads |-> "send"]
    /\ check = [t \in Checkers |-> "no"] /\ refused = [t \in Checkers |-> FALSE]
    /\ adds = 0
    /\ today \in DOMAIN Dates
    /\ round = "sleep" /\ ti = today
    /\ lastday = "" /\ lastweek = 0 /\ lastmonth = ""
    /\ seen = FALSE /\ timely = {} /\ fresh = {}
    /\ missed = [k \in Periods |-> 0] /\ hist = [k \in Counters |-> 0]
    /\ over = [t \in Checkers |-> {}]

Next ==
    \/ \E t \in Threads : \/ \E dir \in {"send", "recvd"} : Transferred(t, dir)
                          \/ Load(t) \/ Store(t)
    \/ \E t \in Checkers : BeginCheck(t) \/ Test(t) \/ GoOn(t)
    \/ Tomorrow \/ Wake
    \/ \E k \in Periods : Renew(k)

Spec == Init /\ [][Next]_vars

-----------------------------------------------------------------------------
(* Properties                                                              *)

\* A lock is held by the thread between the load and the store of its counter.
LockHeld ==
    /\ \A t \in Threads : loaded[t] # -1 => todo[t] # <<>> /\ lock[Head(todo[t])] = t
    /\ \A k \in Counters : lock[k] # Free =>
          loaded[lock[k]] # -1 /\ k = Head(todo[lock[k]])

Days   == {""} \cup {Dates[i].day : i \in DOMAIN Dates}
Months == {""} \cup {Dates[i].month : i \in DOMAIN Dates}

\* The counters, locks and threads have the values the code gives them.
TypeOK ==
    /\ LockHeld
    /\ send \in [Counters -> Nat] /\ recvd \in [Counters -> Nat]
    /\ lock \in [Counters -> Threads \cup {Free}]
    /\ todo \in [Threads -> Seq(Counters)]
    /\ loaded \in [Threads -> Nat \cup {-1}]
    /\ way \in [Threads -> {"send", "recvd"}]
    /\ check \in [Checkers -> {"no", "begin", "passed"} \cup Periods]
    /\ refused \in [Checkers -> BOOLEAN]
    /\ adds \in Nat
    /\ today \in DOMAIN Dates /\ ti \in DOMAIN Dates
    /\ round \in {"sleep"} \cup Periods
    /\ lastday \in Days /\ lastweek \in Nat /\ lastmonth \in Months
    /\ seen \in BOOLEAN /\ timely \subseteq Periods /\ fresh \subseteq Periods
    /\ missed \in [Periods -> Nat] /\ hist \in [Counters -> Nat]
    /\ over \in [Checkers -> SUBSET Periods]

\* No addition is lost between the threads of all the sessions: the total of the
\* server and of each session is what was added to it.
NothingLost == \A k \in Sessions \cup {"total"} : Total(k) = hist[k]

\* From the first round of trafficthread in a day, week or month on, its counter
\* holds what was added in it, all of it but what came before that round, and
\* nothing older.
PeriodCounted == \A k \in fresh : Total(k) + missed[k] = hist[k]

\* The additions of five counters and the resets of three come in any order,
\* but no counter loses an addition or keeps one of an earlier period.
AllCounted == NothingLost /\ PeriodCounted

\* What has passed a limit when trafficcheck begins is not let through, unless
\* it is reset meanwhile.
LimitNoticed == \A t \in Checkers : check[t] = "passed" => over[t] = {}

=============================================================================
