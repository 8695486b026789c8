--------------------------- MODULE Traffic_proofs ---------------------------
(***************************************************************************)
(* Traffic loses no addition, counts each period from its first round on,  *)
(* and lets nothing through that had passed a limit: for any sessions,     *)
(* limits and calendar.                                                    *)
(*                                                                         *)
(* The additions and the limits are an induction over the counters         *)
(* (CountInv, LimitInv).  That a reset comes exactly once in each period   *)
(* is one over the calendar (CalendarInv): it knows at which date a round  *)
(* is, which periods it may still deal with, and what the last dates mean. *)
(***************************************************************************)
EXTENDS Traffic, TLAPS

LEMMA Names ==
    /\ Free \notin Threads /\ Main \notin Threads
    /\ Periods \subseteq Counters /\ Sessions \subseteq Counters /\ "total" \in Counters
    /\ (Sessions \cup {"total"}) \cap Periods = {}
    /\ \A t \in Threads : Order(t[2]) \in Seq(Counters) /\ Len(Order(t[2])) = 5
  <1>1. Free \notin Threads /\ Main \notin Threads
    BY DEF Free, Main, Threads
  <1>2. \A t \in Threads : t[2] \in Counters
    BY SessionsAssumption DEF Threads, Counters
  <1>3. \A s \in Counters : Order(s) \in Seq(Counters) /\ Len(Order(s)) = 5
    BY DEF Order, Counters, Periods
  <1> QED
    BY <1>1, <1>2, <1>3, SessionsAssumption DEF Periods, Counters

LEMMA DatesLen == Len(Dates) \in Nat /\ DOMAIN Dates = 1 .. Len(Dates)
  <1>1. Dates \in Seq(Date)
    BY DatesAssumption
  <1> QED
    BY <1>1

LEMMA DatesFacts ==
    \A i \in DOMAIN Dates :
       Dates[i].day # "" /\ Dates[i].month # "" /\ Dates[i].week \in Nat \ {0}
  <1>1. Dates \in Seq(Date)
    BY DatesAssumption
  <1>3. \A i \in DOMAIN Dates : Dates[i] \in Date
    BY <1>1, DatesLen
  <1>4. \A d \in Date : d.week \in Nat \ {0}
    BY DEF Date
  <1> QED
    BY <1>3, <1>4, DatesAssumption

\* A thread that has loaded a counter holds what is in it.
Loaded ==
    \A t \in Threads : loaded[t] # -1 =>
        loaded[t] = IF way[t] = "send" THEN send[Head(todo[t])] ELSE recvd[Head(todo[t])]

CountInv == TypeOK /\ Loaded

\* What a step may do to a counter: nothing, count one unit, or reset it.
Same(k)    == send'[k] = send[k] /\ recvd'[k] = recvd[k] /\ hist'[k] = hist[k]
Counted(k) ==
    /\ send'[k] + recvd'[k] = send[k] + recvd[k] + 1
    /\ hist'[k] = hist[k] + 1

-----------------------------------------------------------------------------
(* Additions *)

LEMMA InitCount == Init => CountInv
  <1> SUFFICES ASSUME Init PROVE CountInv
    OBVIOUS
  <1>1. Dates \in Seq(Date) /\ today \in DOMAIN Dates
    BY DatesAssumption DEF Init
  <1>2. TypeOK
    <2>1. LockHeld
      BY DEF Init, LockHeld
    <2>2. /\ send \in [Counters -> Nat] /\ recvd \in [Counters -> Nat] /\ hist \in [Counters -> Nat]
          /\ lock \in [Counters -> Threads \cup {Free}]
          /\ missed \in [Periods -> Nat]
      BY DEF Init
    <2>3. todo \in [Threads -> Seq(Counters)] /\ loaded \in [Threads -> Nat \cup {-1}]
      <3>1. <<>> \in Seq(Counters) /\ -1 \in Nat \cup {-1}
        OBVIOUS
      <3>2. todo = [t \in Threads |-> <<>>] /\ loaded = [t \in Threads |-> -1]
        BY DEF Init
      <3> QED
        BY <3>1, <3>2
    <2>4. /\ way \in [Threads -> {"send", "recvd"}]
          /\ check \in [Checkers -> {"no", "begin", "passed"} \cup Periods]
          /\ refused \in [Checkers -> BOOLEAN] /\ over \in [Checkers -> SUBSET Periods]
      BY DEF Init
    <2>5. ti \in DOMAIN Dates
      BY <1>1 DEF Init
    <2>6. /\ adds \in Nat /\ round \in {"sleep"} \cup Periods
          /\ lastweek \in Nat /\ timely \subseteq Periods /\ fresh \subseteq Periods
      BY DEF Init
    <2>7. seen \in BOOLEAN /\ lastday \in Days /\ lastmonth \in Months
      BY Zenon DEF Init, Days, Months
    <2> QED
      BY <2>1, <2>2, <2>3, <2>4, <2>5, <2>6, <2>7, <1>1 DEF TypeOK
  <1> QED
    BY <1>2 DEF Init, CountInv, Loaded

LEMMA TransferredInv ==
    ASSUME CountInv, NEW t \in Threads, NEW dir \in {"send", "recvd"}, Transferred(t, dir)
    PROVE  CountInv' /\ \A k \in Counters : Same(k)
  <1>1. todo'[t] \in Seq(Counters) /\ \A u \in Threads \ {t} : todo'[u] = todo[u]
    BY Names DEF Transferred, CountInv, TypeOK
  <1>2. todo' \in [Threads -> Seq(Counters)]
    BY <1>1 DEF Transferred, CountInv, TypeOK
  <1>3. loaded[t] = -1
    BY DEF Transferred, CountInv, TypeOK, LockHeld
  <1>4. LockHeld'
    BY <1>1, <1>3 DEF Transferred, CountInv, TypeOK, LockHeld
  <1>5. way' \in [Threads -> {"send", "recvd"}] /\ adds' \in Nat
    BY DEF Transferred, CountInv, TypeOK
  <1>6. TypeOK'
    BY <1>2, <1>4, <1>5 DEF Transferred, CountInv, TypeOK, checking, thread, last, history
  <1>7. Loaded'
    BY <1>1, <1>3 DEF Transferred, CountInv, TypeOK, Loaded
  <1> QED
    BY <1>6, <1>7 DEF CountInv, Transferred, history, Same

LEMMA LoadInv ==
    ASSUME CountInv, NEW t \in Threads, Load(t)
    PROVE  CountInv' /\ \A k \in Counters : Same(k)
  <1>1. PICK k \in Counters : /\ k = Head(todo[t]) /\ lock[k] = Free
                              /\ lock' = [lock EXCEPT ![k] = t]
                              /\ loaded' = [loaded EXCEPT ![t] =
                                     IF way[t] = "send" THEN send[k] ELSE recvd[k]]
    <2>1. todo[t] # <<>> /\ todo[t] \in Seq(Counters)
      BY DEF Load, CountInv, TypeOK
    <2>2. Head(todo[t]) \in Counters
      BY <2>1
    <2> QED
      BY <2>2 DEF Load, LockFree
  <1>2. /\ lock' \in [Counters -> Threads \cup {Free}]
        /\ loaded' \in [Threads -> Nat \cup {-1}] /\ loaded'[t] \in Nat
    BY <1>1 DEF CountInv, TypeOK
  <1>3. \A u \in Threads \ {t} : loaded[u] # -1 => Head(todo[u]) # k
    <2> SUFFICES ASSUME NEW u \in Threads \ {t}, loaded[u] # -1, Head(todo[u]) = k
                 PROVE  FALSE
      OBVIOUS
    <2>1. lock[Head(todo[u])] = u
      BY DEF CountInv, TypeOK, LockHeld
    <2>2. u = Free
      BY <2>1, <1>1
    <2> QED
      BY <2>2, Names
  <1>4. LockHeld'
    <2>1. \A u \in Threads : loaded'[u] # -1 => todo'[u] # <<>> /\ lock'[Head(todo'[u])] = u
      <3> SUFFICES ASSUME NEW u \in Threads, loaded'[u] # -1
                   PROVE  todo'[u] # <<>> /\ lock'[Head(todo'[u])] = u
        OBVIOUS
      <3>1. CASE u = t
        BY <3>1, <1>1 DEF Load, CountInv, TypeOK
      <3>2. CASE u # t
        <4>1. loaded[u] # -1
          BY <3>2, <1>1 DEF CountInv, TypeOK
        <4>2. todo[u] # <<>> /\ lock[Head(todo[u])] = u /\ Head(todo[u]) # k
          BY <4>1, <3>2, <1>3 DEF CountInv, TypeOK, LockHeld
        <4> QED
          BY <4>2, <1>1 DEF Load, CountInv, TypeOK
      <3> QED
        BY <3>1, <3>2
    <2>2. \A c \in Counters : lock'[c] # Free =>
              loaded'[lock'[c]] # -1 /\ c = Head(todo'[lock'[c]])
      <3> SUFFICES ASSUME NEW c \in Counters, lock'[c] # Free
                   PROVE  loaded'[lock'[c]] # -1 /\ c = Head(todo'[lock'[c]])
        OBVIOUS
      <3>1. CASE c = k
        BY <3>1, <1>1, <1>2 DEF Load, CountInv, TypeOK
      <3>2. CASE c # k
        BY <3>2, <1>1 DEF Load, CountInv, TypeOK, LockHeld
      <3> QED
        BY <3>1, <3>2
    <2> QED
      BY <2>1, <2>2 DEF LockHeld
  <1>5. TypeOK'
    BY <1>2, <1>4 DEF Load, CountInv, TypeOK, checking, thread, last, history
  <1>6. Loaded'
    BY <1>1 DEF Load, CountInv, TypeOK, Loaded
  <1> QED
    BY <1>5, <1>6 DEF CountInv, Load, history, Same

LEMMA StoreInv ==
    ASSUME CountInv, NEW t \in Threads, Store(t)
    PROVE  CountInv' /\ \A k \in Counters : Same(k) \/ Counted(k)
  <1>1. PICK k \in Counters :
            /\ k = Head(todo[t])
            /\ IF way[t] = "send"
               THEN send' = [send EXCEPT ![k] = loaded[t] + 1] /\ UNCHANGED recvd
               ELSE recvd' = [recvd EXCEPT ![k] = loaded[t] + 1] /\ UNCHANGED send
            /\ lock' = [lock EXCEPT ![k] = Free]
            /\ hist' = [hist EXCEPT ![k] = @ + 1]
    <2>1. todo[t] # <<>> /\ todo[t] \in Seq(Counters)
      BY DEF Store, CountInv, TypeOK
    <2>2. Head(todo[t]) \in Counters
      BY <2>1
    <2> QED
      BY <2>2 DEF Store
  <1>2. /\ todo[t] # <<>> /\ loaded[t] \in Nat
        /\ loaded[t] = IF way[t] = "send" THEN send[k] ELSE recvd[k]
    BY <1>1 DEF Store, CountInv, TypeOK, Loaded
  <1>3. /\ send' \in [Counters -> Nat] /\ recvd' \in [Counters -> Nat]
        /\ hist' \in [Counters -> Nat] /\ lock' \in [Counters -> Threads \cup {Free}]
    <2>1. loaded[t] + 1 \in Nat /\ hist[k] + 1 \in Nat
      BY <1>2 DEF CountInv, TypeOK
    <2>2. CASE way[t] = "send"
      BY <2>1, <2>2, <1>1 DEF CountInv, TypeOK
    <2>3. CASE way[t] # "send"
      BY <2>1, <2>3, <1>1 DEF CountInv, TypeOK
    <2> QED
      BY <2>2, <2>3
  <1>4. todo' \in [Threads -> Seq(Counters)] /\ loaded' \in [Threads -> Nat \cup {-1}]
    <2>1. Tail(todo[t]) \in Seq(Counters)
      BY <1>2 DEF CountInv, TypeOK
    <2> QED
      BY <2>1 DEF Store, CountInv, TypeOK
  <1>5. check' \in [Checkers -> {"no", "begin", "passed"} \cup Periods]
    BY DEF Store, CountInv, TypeOK
  <1>6. \A u \in Threads \ {t} : loaded[u] # -1 => Head(todo[u]) # k
    <2>1. lock[k] = t
      BY <1>1 DEF Store, CountInv, TypeOK, LockHeld
    <2> QED
      BY <2>1 DEF CountInv, TypeOK, LockHeld
  <1>7. \A u \in Threads \ {t} : todo'[u] = todo[u] /\ loaded'[u] = loaded[u]
    BY DEF Store, CountInv, TypeOK
  <1>8. loaded'[t] = -1
    BY DEF Store, CountInv, TypeOK
  <1>9. LockHeld'
    <2>1. \A u \in Threads : loaded'[u] # -1 => todo'[u] # <<>> /\ lock'[Head(todo'[u])] = u
      <3> SUFFICES ASSUME NEW u \in Threads, loaded'[u] # -1
                   PROVE  todo'[u] # <<>> /\ lock'[Head(todo'[u])] = u
        OBVIOUS
      <3>1. u # t /\ loaded[u] # -1 /\ todo'[u] = todo[u]
        BY <1>7, <1>8
      <3>2. todo[u] # <<>> /\ todo[u] \in Seq(Counters) /\ lock[Head(todo[u])] = u /\ Head(todo[u]) # k
        BY <3>1, <1>6 DEF CountInv, TypeOK, LockHeld
      <3>3. Head(todo[u]) \in Counters
        BY <3>2
      <3> QED
        BY <3>1, <3>2, <3>3, <1>1 DEF CountInv, TypeOK
    <2>2. \A c \in Counters : lock'[c] # Free =>
              loaded'[lock'[c]] # -1 /\ c = Head(todo'[lock'[c]])
      <3> SUFFICES ASSUME NEW c \in Counters, lock'[c] # Free
                   PROVE  loaded'[lock'[c]] # -1 /\ c = Head(todo'[lock'[c]])
        OBVIOUS
      <3>1. c # k /\ lock'[c] = lock[c]
        BY <1>1 DEF CountInv, TypeOK
      <3>2. lock[c] \in Threads /\ loaded[lock[c]] # -1 /\ c = Head(todo[lock[c]])
        BY <3>1 DEF CountInv, TypeOK, LockHeld
      <3>3. lock[c] # t
        BY <3>1, <3>2, <1>1
      <3> QED
        BY <3>1, <3>2, <3>3, <1>7
    <2> QED
      BY <2>1, <2>2 DEF LockHeld
  <1>10. TypeOK'
    BY <1>3, <1>4, <1>5, <1>9 DEF Store, CountInv, TypeOK, thread, last
  <1>11. Loaded'
    <2> SUFFICES ASSUME NEW u \in Threads, loaded'[u] # -1
                 PROVE  loaded'[u] = IF way'[u] = "send" THEN send'[Head(todo'[u])]
                                     ELSE recvd'[Head(todo'[u])]
      BY DEF Loaded
    <2>1. u # t /\ way' = way
      BY <1>8 DEF Store
    <2>2. Head(todo[u]) # k /\ todo'[u] = todo[u] /\ loaded'[u] = loaded[u] /\ Head(todo[u]) \in Counters
      BY <2>1, <1>6, <1>7 DEF CountInv, TypeOK, LockHeld
    <2>3. send'[Head(todo[u])] = send[Head(todo[u])] /\ recvd'[Head(todo[u])] = recvd[Head(todo[u])]
      BY <2>2, <1>1 DEF CountInv, TypeOK
    <2> QED
      BY <2>1, <2>2, <2>3 DEF CountInv, Loaded
  <1>12. \A c \in Counters : Same(c) \/ Counted(c)
    <2> SUFFICES ASSUME NEW c \in Counters PROVE Same(c) \/ Counted(c)
      OBVIOUS
    <2>1. send[c] \in Nat /\ recvd[c] \in Nat /\ hist[c] \in Nat
      BY DEF CountInv, TypeOK
    <2>2. CASE c # k
      BY <2>2, <1>1 DEF CountInv, TypeOK, Same
    <2>3. CASE c = k /\ way[t] = "send"
      BY <2>1, <2>3, <1>1, <1>2 DEF CountInv, TypeOK, Counted
    <2>4. CASE c = k /\ way[t] # "send"
      BY <2>1, <2>4, <1>1, <1>2 DEF CountInv, TypeOK, Counted
    <2> QED
      BY <2>2, <2>3, <2>4
  <1> QED
    BY <1>10, <1>11, <1>12 DEF CountInv

-----------------------------------------------------------------------------
(* Checks, the calendar and resets *)

LEMMA CheckInv ==
    ASSUME CountInv, NEW t \in Checkers, BeginCheck(t) \/ Test(t) \/ GoOn(t)
    PROVE  CountInv' /\ \A k \in Counters : Same(k)
  <1>1. /\ UNCHANGED <<send, recvd, lock, adding, adds, today, thread, history>>
        /\ check' \in [Checkers -> {"no", "begin", "passed"} \cup Periods]
        /\ over' \in [Checkers -> SUBSET Periods]
    <2>1. CASE BeginCheck(t)
      BY <2>1 DEF BeginCheck, CountInv, TypeOK, Periods
    <2>2. CASE Test(t)
      BY <2>2 DEF Test, After, CountInv, TypeOK, Periods
    <2>3. CASE GoOn(t)
      BY <2>3 DEF GoOn, CountInv, TypeOK
    <2> QED
      BY <2>1, <2>2, <2>3
  <1>2. refused' \in [Checkers -> BOOLEAN]
    <2>1. CASE BeginCheck(t) \/ GoOn(t)
      BY <2>1 DEF BeginCheck, GoOn, CountInv, TypeOK
    <2>2. CASE Test(t)
      <3>1. PICK b \in BOOLEAN : refused' = [refused EXCEPT ![t] = b]
        BY <2>2, Zenon DEF Test, Passed
      <3> QED
        BY <3>1 DEF CountInv, TypeOK
    <2> QED
      BY <2>1, <2>2
  <1>3. TypeOK' /\ Loaded'
    BY <1>1, <1>2 DEF CountInv, TypeOK, Loaded, LockHeld, adding, thread, last, history
  <1> QED
    BY <1>1, <1>3 DEF CountInv, Same, history

LEMMA TomorrowCount ==
    ASSUME CountInv, Tomorrow
    PROVE  /\ CountInv' /\ UNCHANGED <<send, recvd, over, check>>
           /\ \A k \in Counters \ Periods : Same(k)
  <1>1. today' \in DOMAIN Dates
    BY DatesLen DEF Tomorrow, CountInv, TypeOK
  <1>2. Changed \subseteq Periods
    BY DEF Changed, Periods
  <1>3. /\ timely' \subseteq Periods /\ fresh' \subseteq Periods
        /\ hist' \in [Counters -> Nat] /\ missed' \in [Periods -> Nat]
    BY DEF Tomorrow, CountInv, TypeOK
  <1>4. seen' \in BOOLEAN
    BY Zenon DEF Tomorrow
  <1>5. TypeOK' /\ Loaded'
    BY <1>1, <1>3, <1>4 DEF Tomorrow, CountInv, TypeOK, Loaded, LockHeld, adding, checking, thread, last
  <1> QED
    BY <1>2, <1>5 DEF Tomorrow, CountInv, Same, checking

LEMMA WakeCount ==
    ASSUME CountInv, Wake
    PROVE  CountInv' /\ UNCHANGED <<over, check>> /\ \A k \in Counters : Same(k)
  <1>1. seen' \in BOOLEAN
    BY Zenon DEF Wake
  <1>2. TypeOK' /\ Loaded'
    BY <1>1 DEF Wake, CountInv, TypeOK, Loaded, LockHeld, adding, checking, last, Periods
  <1> QED
    BY <1>2 DEF Wake, CountInv, Same, checking

\* What Renew does, with its local definitions expanded.
LEMMA RenewStep ==
    ASSUME CountInv, NEW k \in Periods, Renew(k)
    PROVE  /\ round = k /\ round' = IF k = "month" THEN "sleep" ELSE After(k)
           /\ UNCHANGED <<lock, adding, check, refused, adds, today, ti, seen, timely, hist>>
           /\ k # "day" => lastday' = lastday
           /\ k # "week" => lastweek' = lastweek
           /\ k # "month" => lastmonth' = lastmonth
           /\ fresh' = IF k \in timely THEN fresh \cup {k} ELSE fresh
           /\ \/ /\ ~IsNew(k, Dates[ti])
                 /\ UNCHANGED <<send, recvd, last, over, missed>>
              \/ /\ IsNew(k, Dates[ti]) /\ lock[k] = Free
                 /\ recvd' = [recvd EXCEPT ![k] = 0] /\ send' = [send EXCEPT ![k] = 0]
                 /\ over' = [t \in Checkers |-> over[t] \ {k}]
                 /\ missed' = IF k \in timely \ fresh THEN [missed EXCEPT ![k] = hist[k]] ELSE missed
                 /\ k = "day" => lastday' = Dates[ti].day
                 /\ k = "week" => lastweek' = Dates[ti].week
                 /\ k = "month" => lastmonth' = Dates[ti].month
  <1>1. CASE IsNew(k, Dates[ti])
    BY <1>1 DEF Renew, Reset, LockFree, checking, CountInv, TypeOK
  <1>2. CASE ~IsNew(k, Dates[ti])
    <2>1. over' = over
      BY <1>2 DEF Renew, CountInv, TypeOK
    <2> QED
      BY <1>2, <2>1 DEF Renew, checking, last
  <1> QED
    BY <1>1, <1>2

LEMMA RenewCount ==
    ASSUME CountInv, NEW k \in Periods, Renew(k)
    PROVE  CountInv' /\ \A c \in Counters \ {k} : Same(c)
  <1>1. /\ Dates[ti].week \in Nat \ {0}
        /\ Dates[ti].day \in Days /\ Dates[ti].month \in Months
    BY DatesFacts DEF CountInv, TypeOK, Days, Months
  <1>2. lastday' \in Days /\ lastweek' \in Nat /\ lastmonth' \in Months
    BY <1>1, RenewStep DEF CountInv, TypeOK, last
  <1>3. /\ send' \in [Counters -> Nat] /\ recvd' \in [Counters -> Nat]
        /\ missed' \in [Periods -> Nat] /\ over' \in [Checkers -> SUBSET Periods]
        /\ round' \in {"sleep"} \cup Periods /\ fresh' \subseteq Periods
    <2>1. hist[k] \in Nat
      BY Names DEF CountInv, TypeOK
    <2>2. missed' \in [Periods -> Nat]
      BY <2>1, RenewStep DEF CountInv, TypeOK
    <2>3. send' \in [Counters -> Nat] /\ recvd' \in [Counters -> Nat]
      <3>1. \/ UNCHANGED <<send, recvd>>
            \/ send' = [send EXCEPT ![k] = 0] /\ recvd' = [recvd EXCEPT ![k] = 0]
        BY RenewStep
      <3>2. send \in [Counters -> Nat] /\ recvd \in [Counters -> Nat]
        BY DEF CountInv, TypeOK
      <3> QED
        BY <3>1, <3>2
    <2>4. over' \in [Checkers -> SUBSET Periods]
      <3>1. over' = over \/ over' = [t \in Checkers |-> over[t] \ {k}]
        BY RenewStep
      <3> QED
        BY <3>1 DEF CountInv, TypeOK
    <2>5. round' \in {"sleep"} \cup Periods /\ fresh' \subseteq Periods
      BY RenewStep DEF CountInv, TypeOK, After, Periods
    <2> QED
      BY <2>2, <2>3, <2>4, <2>5
  <1>4. UNCHANGED <<lock, todo, loaded, way, check, refused, adds, today, ti, seen, timely, hist>>
    BY RenewStep DEF adding
  <1>5. TypeOK'
    BY <1>2, <1>3, <1>4 DEF CountInv, TypeOK, LockHeld
  <1>6. \A c \in Counters \ {k} : Same(c)
    <2>1. \/ UNCHANGED <<send, recvd>>
          \/ send' = [send EXCEPT ![k] = 0] /\ recvd' = [recvd EXCEPT ![k] = 0]
      BY RenewStep
    <2>2. send \in [Counters -> Nat] /\ recvd \in [Counters -> Nat]
      BY DEF CountInv, TypeOK
    <2> QED
      BY <2>1, <2>2, <1>4 DEF Same
  <1>7. Loaded'
    <2> SUFFICES ASSUME NEW t \in Threads, loaded[t] # -1
                 PROVE  loaded[t] = IF way[t] = "send" THEN send'[Head(todo[t])]
                                    ELSE recvd'[Head(todo[t])]
      BY <1>4 DEF Loaded
    <2>1. lock[Head(todo[t])] = t /\ Head(todo[t]) \in Counters
      BY DEF CountInv, TypeOK, LockHeld
    <2>2. CASE UNCHANGED <<send, recvd>>
      BY <2>2 DEF CountInv, Loaded
    <2>3. CASE lock[k] = Free
      BY <2>1, <2>3, <1>6, Names DEF CountInv, Loaded, Same
    <2> QED
      BY <2>2, <2>3, RenewStep
  <1> QED
    BY <1>5, <1>6, <1>7 DEF CountInv

-----------------------------------------------------------------------------
(* The calendar *)

\* the periods that change between two dates
Since(i) ==
    {"day"} \cup {k \in {"week"} : Dates[i + 1].day = "Mon"}
            \cup {k \in {"month"} : Dates[i + 1].month # Dates[i].month}

\* the round has not dealt with the period yet
Behind(k) == round # "sleep" /\ (k = "month" \/ round = "day" \/ round = k)

Monday(i)   == Dates[i].day = "Mon"
Balanced(k) == Total(k) = hist[k] /\ missed[k] = 0

\* before the first round
Never ==
    /\ ~seen /\ round = "sleep" /\ ti = today
    /\ lastday = "" /\ lastweek = 0 /\ lastmonth = ""
    /\ timely = {} /\ fresh = {}
    /\ \A k \in Periods : Balanced(k)

\* A round is of today, or of the date before if none of today has begun.
PhaseInv ==
    \/ Never
    \/ seen /\ ti = today /\ timely = Periods
    \/ ~seen /\ today = ti + 1 /\ timely = Periods \ Since(ti)

FreshInv == fresh \subseteq timely /\ \A k \in timely : ~Behind(k) => k \in fresh

\* The last date a round dealt with is that of this round or, while it is
\* behind, another one.
DayInv ==
    /\ "day" \in fresh => lastday = Dates[ti].day
    /\ ~Behind("day") /\ ~Never => lastday = Dates[ti].day
    /\ Behind("day") /\ "day" \in timely \ fresh => lastday # Dates[ti].day

MonthInv ==
    /\ "month" \in fresh => lastmonth = Dates[ti].month
    /\ ~Behind("month") /\ ~Never => lastmonth = Dates[ti].month
    /\ Behind("month") /\ "month" \in timely \ fresh => lastmonth # Dates[ti].month

\* A week is dealt with on Mondays only: lastweek is of the last Monday, and a
\* week that began before the first round was never reset.
LastMonday ==
    \/ lastweek = 0
    \/ \E j \in 1 .. ti :
          /\ Monday(j) /\ lastweek = Dates[j].week
          /\ \A d \in j + 1 .. ti : Monday(d) => d = ti /\ Behind("week") /\ "week" \notin fresh

WeekInv ==
    /\ "week" \in fresh /\ Monday(ti) => lastweek = Dates[ti].week
    /\ ~Behind("week") /\ ~Never /\ Monday(ti) => lastweek = Dates[ti].week
    /\ Behind("week") /\ "week" \in timely \ fresh =>
          IF Monday(ti) THEN lastweek # Dates[ti].week ELSE Balanced("week")
    /\ LastMonday

CalendarInv == PhaseInv /\ FreshInv /\ DayInv /\ MonthInv /\ WeekInv /\ PeriodCounted

LEMMA InitCalendar == Init => CalendarInv
  <1> SUFFICES ASSUME Init PROVE CalendarInv
    OBVIOUS
  <1>1. \A k \in Periods : Balanced(k)
    <2>1. \A k \in Periods : send[k] = 0 /\ recvd[k] = 0 /\ hist[k] = 0 /\ missed[k] = 0
      BY Names DEF Init
    <2> QED
      BY <2>1 DEF Balanced, Total
  <1>2. Never
    BY <1>1, Zenon DEF Init, Never
  <1>3. lastweek = 0 /\ fresh = {} /\ timely = {} /\ round = "sleep"
    BY DEF Init
  <1> QED
    BY <1>2, <1>3 DEF CalendarInv, PhaseInv, FreshInv, DayInv, MonthInv, WeekInv, LastMonday,
       PeriodCounted, Behind

\* Additions and checks do not touch the calendar, and keep what is balanced.
LEMMA QuietCalendar ==
    ASSUME CountInv, CalendarInv,
           UNCHANGED <<today, round, ti, last, seen, timely, fresh, missed>>,
           \A k \in Counters : Same(k) \/ Counted(k)
    PROVE  CalendarInv'
  <1>1. \A k \in Periods : Total(k)' - hist'[k] = Total(k) - hist[k]
    <2> SUFFICES ASSUME NEW k \in Periods PROVE Total(k)' - hist'[k] = Total(k) - hist[k]
      OBVIOUS
    <2>1. /\ send[k] \in Nat /\ recvd[k] \in Nat /\ hist[k] \in Nat
          /\ Same(k) \/ Counted(k)
      BY Names DEF CountInv, TypeOK
    <2> QED
      BY <2>1 DEF Same, Counted, Total
  <1>2. \A k \in Periods : /\ Total(k) \in Nat /\ Total(k)' \in Nat /\ hist[k] \in Nat
                           /\ hist'[k] \in Nat /\ missed[k] \in Nat
    <2> SUFFICES ASSUME NEW k \in Periods
                 PROVE  /\ Total(k) \in Nat /\ Total(k)' \in Nat /\ hist[k] \in Nat
                        /\ hist'[k] \in Nat /\ missed[k] \in Nat
      OBVIOUS
    <2>1. /\ send[k] \in Nat /\ recvd[k] \in Nat /\ hist[k] \in Nat /\ missed[k] \in Nat
          /\ Same(k) \/ Counted(k)
      BY Names DEF CountInv, TypeOK
    <2> QED
      BY <2>1 DEF Same, Counted, Total
  <1>3. \A k \in Periods : Balanced(k) => Balanced(k)'
    BY <1>1, <1>2 DEF Balanced
  <1>4. Never => Never'
    BY <1>3 DEF Never, last
  <1>5. PhaseInv'
    BY <1>4 DEF CalendarInv, PhaseInv
  <1>6. FreshInv' /\ DayInv' /\ MonthInv'
    BY <1>4 DEF CalendarInv, FreshInv, DayInv, MonthInv, Behind, last
  <1>7. WeekInv'
    <2>1. "week" \in Periods
      BY DEF Periods
    <2>2. LastMonday'
      BY DEF CalendarInv, WeekInv, LastMonday, Behind, Monday, last
    <2> QED
      BY <1>3, <1>4, <2>1, <2>2 DEF CalendarInv, WeekInv, Behind, Monday, last
  <1>8. PeriodCounted'
    <2>1. fresh \subseteq Periods
      BY DEF CountInv, TypeOK
    <2> QED
      BY <1>1, <1>2, <2>1 DEF CalendarInv, PeriodCounted
  <1> QED
    BY <1>5, <1>6, <1>7, <1>8 DEF CalendarInv

LEMMA TomorrowCalendar ==
    ASSUME CountInv, CalendarInv, Tomorrow
    PROVE  CalendarInv'
  <1>1. /\ seen /\ ti = today /\ timely = Periods /\ ~Never
    BY DEF Tomorrow, CalendarInv, PhaseInv, Never
  <1>2. /\ ~seen' /\ today' = ti + 1 /\ ti' = ti /\ round' = round
        /\ lastday' = lastday /\ lastweek' = lastweek /\ lastmonth' = lastmonth
        /\ timely' = Periods \ Since(ti) /\ fresh' = fresh \ Since(ti)
    BY <1>1 DEF Tomorrow, Changed, Since, thread, last
  <1>3. ti \in Int
    BY DatesLen DEF CountInv, TypeOK
  <1>4. ~Never'
    <2>1. ti' # today'
      BY <1>2, <1>3
    <2> QED
      BY <2>1, Zenon DEF Never
  <1>5. \A k \in Periods \ Since(ti) :
            Total(k)' = Total(k) /\ hist'[k] = hist[k] /\ missed'[k] = missed[k]
    <2>1. \A k \in Periods \ Since(ti) : hist'[k] = hist[k] /\ missed'[k] = missed[k]
      BY <1>1, Names DEF Tomorrow, Changed, Since
    <2> QED
      BY <2>1 DEF Tomorrow, Total
  <1>6. PhaseInv'
    BY <1>2 DEF PhaseInv
  <1>7. FreshInv' /\ fresh' \subseteq Periods \ Since(ti)
    BY <1>1, <1>2 DEF CalendarInv, FreshInv, Behind
  <1>8. DayInv' /\ MonthInv'
    BY <1>1, <1>2 DEF CalendarInv, DayInv, MonthInv, Behind, Since
  <1>9. WeekInv'
    <2>1. LastMonday'
      BY <1>2 DEF CalendarInv, WeekInv, LastMonday, Behind, Monday
    <2>2. Balanced("week") /\ "week" \notin Since(ti) => Balanced("week")'
      BY <1>5 DEF Balanced, Periods
    <2> QED
      BY <1>1, <1>2, <2>1, <2>2 DEF CalendarInv, WeekInv, Behind, Monday
  <1>10. PeriodCounted'
    BY <1>2, <1>5, <1>7 DEF CalendarInv, PeriodCounted
  <1> QED
    BY <1>6, <1>7, <1>8, <1>9, <1>10 DEF CalendarInv

\* When a round begins everything of today is behind it.
LEMMA WakeCalendar ==
    ASSUME CountInv, CalendarInv, Wake
    PROVE  CalendarInv'
  <1>1. /\ round = "sleep" /\ round' = "day" /\ ti' = today /\ today' = today
        /\ timely' = Periods /\ fresh' = fresh /\ seen'
        /\ lastday' = lastday /\ lastweek' = lastweek /\ lastmonth' = lastmonth
        /\ \A k \in Periods : Total(k)' = Total(k) /\ hist' = hist /\ missed' = missed
    BY DEF Wake, last, Total
  <1>2. \A k \in Periods : ~Behind(k) /\ Behind(k)'
    BY <1>1 DEF Behind, Periods
  <1>3. fresh = timely
    BY <1>2 DEF CalendarInv, FreshInv, CountInv, TypeOK
  <1>4. ~Never'
    BY <1>1 DEF Never
  <1>5. PhaseInv' /\ FreshInv'
    BY <1>1, <1>2, <1>3 DEF PhaseInv, FreshInv, CountInv, TypeOK
  <1>6. /\ ti \in DOMAIN Dates /\ today \in DOMAIN Dates /\ ti \in Int /\ today \in Int
    BY DatesLen DEF CountInv, TypeOK
  <1>7. DayInv'
    <2>1. CASE Never
      BY <2>1, <1>1, <1>2, <1>6, DatesFacts DEF DayInv, Never, Periods
    <2>2. CASE ti = today /\ timely = Periods /\ ~Never
      BY <2>2, <1>1, <1>3, <1>2, <1>4 DEF CalendarInv, DayInv, Periods
    <2>3. CASE today = ti + 1 /\ timely = Periods \ Since(ti) /\ ~Never
      <3>1. "day" \notin fresh /\ lastday = Dates[ti].day
        BY <2>3, <1>2, <1>3 DEF CalendarInv, DayInv, Since, Periods
      <3>2. Dates[ti].day # Dates[today].day
        <4>1. ti \in 1 .. Len(Dates) - 1
          BY <2>3, <1>6, DatesLen
        <4> QED
          BY <2>3, <4>1, DatesAssumption
      <3> QED
        BY <3>1, <3>2, <1>1, <1>2, <1>4 DEF DayInv, Periods
    <2> QED
      BY <2>1, <2>2, <2>3 DEF CalendarInv, PhaseInv
  <1>8. MonthInv'
    <2>1. CASE Never
      BY <2>1, <1>1, <1>2, <1>6, DatesFacts DEF MonthInv, Never, Periods
    <2>2. CASE ti = today /\ timely = Periods /\ ~Never
      BY <2>2, <1>1, <1>3, <1>2, <1>4 DEF CalendarInv, MonthInv, Periods
    <2>3. CASE today = ti + 1 /\ timely = Periods \ Since(ti) /\ ~Never
      <3>1. lastmonth = Dates[ti].month
        BY <2>3, <1>2 DEF CalendarInv, MonthInv, Periods
      <3>2. "month" \in fresh <=> Dates[today].month = Dates[ti].month
        BY <2>3, <1>3 DEF Since, Periods
      <3> QED
        BY <3>1, <3>2, <1>1, <1>2, <1>4 DEF MonthInv, Periods
    <2> QED
      BY <2>1, <2>2, <2>3 DEF CalendarInv, PhaseInv
  <1>9. PeriodCounted'
    BY <1>1, <1>3 DEF CalendarInv, PeriodCounted, CountInv, TypeOK
  <1>10. WeekInv'
    <2>1. "week" \in Periods
      BY DEF Periods
    <2>2. lastweek = 0 \/ \E j \in 1 .. ti :
              /\ Monday(j) /\ lastweek = Dates[j].week /\ \A d \in j + 1 .. ti : ~Monday(d)
      BY <2>1, <1>2 DEF CalendarInv, WeekInv, LastMonday
    <2>3. CASE Never
      <3>1. Balanced("week")'
        BY <2>1, <2>3, <1>1 DEF Never, Balanced
      <3>2. lastweek = 0 /\ fresh = {} /\ Dates[today].week # 0
        BY <2>3, <1>6, DatesFacts DEF Never
      <3> QED
        BY <3>1, <3>2, <2>1, <1>1, <1>2, <1>4 DEF WeekInv, LastMonday, Monday
    <2>4. CASE ti = today /\ timely = Periods /\ ~Never
      <3>1. "week" \in fresh
        BY <2>1, <2>4, <1>3
      <3>2. LastMonday'
        BY <2>2, <2>4, <1>1 DEF LastMonday, Monday
      <3> QED
        BY <3>1, <3>2, <2>1, <2>4, <1>1, <1>2, <1>4 DEF CalendarInv, WeekInv, Monday
    <2>5. CASE today = ti + 1 /\ timely = Periods \ Since(ti) /\ ~Never
      <3>1. "week" \in fresh <=> ~Monday(today)
        BY <2>1, <2>5, <1>3 DEF Since, Monday
      <3>2. Monday(today) => lastweek # Dates[today].week
        <4> SUFFICES ASSUME Monday(today) PROVE lastweek # Dates[today].week
          OBVIOUS
        <4>1. CASE lastweek = 0
          BY <4>1, <1>6, DatesFacts
        <4>2. CASE lastweek # 0
          <5>1. PICK j \in 1 .. ti : /\ Monday(j) /\ lastweek = Dates[j].week
                                    /\ \A d \in j + 1 .. ti : ~Monday(d)
            BY <4>2, <2>2
          <5>2. j \in DOMAIN Dates /\ j < today /\ today - 1 = ti
            BY <2>5, <1>6, DatesLen
          <5> QED
            BY <5>1, <5>2, <1>6, DatesAssumption DEF Monday
        <4> QED
          BY <4>1, <4>2
      <3>3. LastMonday'
        <4>1. CASE lastweek = 0
          BY <4>1, <1>1 DEF LastMonday
        <4>2. CASE lastweek # 0
          <5>1. PICK j \in 1 .. ti : /\ Monday(j) /\ lastweek = Dates[j].week
                                    /\ \A d \in j + 1 .. ti : ~Monday(d)
            BY <4>2, <2>2
          <5>2. j \in 1 .. today
            BY <2>5, <1>6
          <5>3. \A d \in j + 1 .. today : Monday(d) => d = today /\ "week" \notin fresh
            BY <5>1, <2>5, <1>6, <3>1
          <5> QED
            BY <5>1, <5>2, <5>3, <2>1, <1>1, <1>2 DEF LastMonday, Monday
        <4> QED
          BY <4>1, <4>2
      <3> QED
        BY <3>1, <3>2, <3>3, <1>1, <1>2, <1>4, <2>1 DEF WeekInv, Monday
    <2> QED
      BY <2>3, <2>4, <2>5 DEF CalendarInv, PhaseInv
  <1> QED
    BY <1>5, <1>7, <1>8, <1>9, <1>10 DEF CalendarInv

\* What a round has dealt with it has reset if it was time, and only then.
LEMMA RenewPeriod ==
    ASSUME CountInv, CalendarInv, NEW k \in Periods, Renew(k)
    PROVE  PeriodCounted'
  <1> SUFFICES ASSUME NEW p \in fresh'
               PROVE  Total(p)' + missed'[p] = hist'[p]
    BY DEF PeriodCounted
  <1>1. /\ p \in Periods /\ (p \in fresh \/ (p = k /\ k \in timely))
        /\ hist' = hist /\ Behind(k) /\ ~Never
    <2>1. round = k /\ k # "sleep"
      BY RenewStep DEF Periods
    <2>2. hist' = hist /\ (p \in fresh \/ (p = k /\ k \in timely))
      BY RenewStep
    <2>3. fresh \subseteq Periods
      BY DEF CountInv, TypeOK
    <2>4. Behind(k)
      BY <2>1 DEF Behind
    <2>5. ~Never
      BY <2>1, Zenon DEF Never
    <2> QED
      BY <2>2, <2>3, <2>4, <2>5
  <1>2. send[p] \in Nat /\ recvd[p] \in Nat /\ hist[p] \in Nat /\ missed[p] \in Nat
    BY <1>1, Names DEF CountInv, TypeOK
  <1>3. CASE p # k
    <2>1. p \in fresh /\ Total(p) + missed[p] = hist[p]
      BY <1>1, <1>3 DEF CalendarInv, PeriodCounted
    <2>2. send'[p] = send[p] /\ recvd'[p] = recvd[p]
      BY <1>1, <1>3, RenewCount, Names DEF Same
    <2>3. missed'[p] = missed[p]
      BY <1>1, <1>3, RenewStep DEF CountInv, TypeOK
    <2> QED
      BY <1>1, <2>1, <2>2, <2>3 DEF Total
  <1>4. CASE p = k /\ k \in fresh
    <2>1. ~IsNew(k, Dates[ti])
      BY <1>4 DEF CalendarInv, DayInv, WeekInv, MonthInv, IsNew, Monday, Periods
    <2>2. UNCHANGED <<send, recvd, missed>>
      BY <2>1, RenewStep
    <2> QED
      BY <1>1, <1>4, <2>2 DEF CalendarInv, PeriodCounted, Total
  <1>5. CASE p = k /\ k \notin fresh
    <2>1. k \in timely \ fresh
      BY <1>1, <1>5
    <2>2. CASE IsNew(k, Dates[ti])
      <3>1. send'[k] = 0 /\ recvd'[k] = 0 /\ missed'[k] = hist[k]
        BY <2>1, <2>2, RenewStep, Names DEF CountInv, TypeOK
      <3> QED
        BY <1>1, <1>2, <1>5, <3>1 DEF Total
    <2>3. CASE ~IsNew(k, Dates[ti])
      <3>1. k = "week" /\ ~Monday(ti) /\ Balanced("week")
        BY <2>1, <2>3, <1>1 DEF CalendarInv, DayInv, WeekInv, MonthInv, IsNew, Monday, Periods
      <3>2. UNCHANGED <<send, recvd, missed>>
        BY <2>3, RenewStep
      <3> QED
        BY <1>1, <1>2, <1>5, <3>1, <3>2 DEF Balanced, Total
    <2> QED
      BY <2>2, <2>3
  <1> QED
    BY <1>3, <1>4, <1>5

LEMMA RenewCalendar ==
    ASSUME CountInv, CalendarInv, NEW k \in Periods, Renew(k)
    PROVE  CalendarInv'
  <1>1. /\ round = k /\ k # "sleep"
        /\ round' = IF k = "day" THEN "week" ELSE IF k = "week" THEN "month" ELSE "sleep"
        /\ UNCHANGED <<today, ti, seen, timely, hist>>
        /\ fresh' = IF k \in timely THEN fresh \cup {k} ELSE fresh
    BY RenewStep DEF After, Periods
  <1>2. /\ \A p \in Periods : Behind(p)' <=> (Behind(p) /\ p # k)
        /\ Behind(k)
    BY <1>1 DEF Behind, Periods
  <1>3. ~Never
    BY <1>1, Zenon DEF Never
  <1>4. ti \in DOMAIN Dates /\ ti \in Int /\ Dates[ti].day # "" /\ Dates[ti].week # 0
    <2>1. ti \in DOMAIN Dates
      BY DEF CountInv, TypeOK
    <2>2. ti \in Int
      BY <2>1, DatesLen
    <2>3. Dates[ti].day # "" /\ Dates[ti].week \in Nat \ {0}
      BY <2>1, DatesFacts
    <2> QED
      BY <2>1, <2>2, <2>3
  <1>5. /\ lastday' = IF k = "day" THEN Dates[ti].day ELSE lastday
        /\ lastmonth' = IF k = "month" THEN Dates[ti].month ELSE lastmonth
        /\ lastweek' = IF k = "week" /\ Monday(ti) THEN Dates[ti].week ELSE lastweek
    BY RenewStep DEF IsNew, last, Monday, Periods
  <1>6. ~Never'
    <2>1. CASE k = "month"
      <3>1. lastday' # ""
        BY <2>1, <1>1, <1>3, <1>4, <1>5 DEF CalendarInv, DayInv, Behind
      <3> QED
        BY <3>1, Zenon DEF Never
    <2>2. CASE k # "month"
      <3>1. round' # "sleep"
        BY <2>2, <1>1 DEF Periods
      <3> QED
        BY <3>1, Zenon DEF Never
    <2> QED
      BY <2>1, <2>2
  <1>7. PhaseInv'
    BY <1>1, <1>3 DEF CalendarInv, PhaseInv
  <1>8. FreshInv'
    BY <1>1, <1>2 DEF CalendarInv, FreshInv, CountInv, TypeOK
  <1>9. DayInv'
    BY <1>1, <1>2, <1>3, <1>5 DEF CalendarInv, DayInv, Periods
  <1>10. MonthInv'
    BY <1>1, <1>2, <1>3, <1>5 DEF CalendarInv, MonthInv, Periods
  <1>11. WeekInv'
    <2>1. "week" \in Periods
      BY DEF Periods
    <2>2. LastMonday'
      <3>1. CASE k = "week" /\ Monday(ti)
        <4>1. ti \in 1 .. ti' /\ \A d \in ti + 1 .. ti' : FALSE
          <5>1. ti \in 1 .. Len(Dates)
            BY <1>4, DatesLen
          <5>2. ti' = ti
            BY <1>1
          <5> QED
            BY <5>1, <5>2
        <4> QED
          BY <3>1, <4>1, <1>1, <1>5 DEF LastMonday, Monday
      <3>2. CASE k = "week" /\ ~Monday(ti)
        BY <3>2, <1>1, <1>5 DEF CalendarInv, WeekInv, LastMonday, Monday
      <3>3. CASE k # "week"
        <4>1. (Behind("week") <=> Behind("week")') /\ ("week" \in fresh <=> "week" \in fresh')
          BY <3>3, <2>1, <1>1, <1>2
        <4> QED
          BY <3>3, <4>1, <1>1, <1>5 DEF CalendarInv, WeekInv, LastMonday, Monday
      <3> QED
        BY <3>1, <3>2, <3>3
    <2>3. k # "week" /\ Balanced("week") => Balanced("week")'
      <3> SUFFICES ASSUME k # "week", Balanced("week") PROVE Balanced("week")'
        OBVIOUS
      <3>1. send'["week"] = send["week"] /\ recvd'["week"] = recvd["week"]
        BY <2>1, RenewCount, Names DEF Same
      <3>2. missed'["week"] = missed["week"]
        <4>1. missed \in [Periods -> Nat]
          BY DEF CountInv, TypeOK
        <4>2. missed' = missed \/ missed' = [missed EXCEPT ![k] = hist[k]]
          BY RenewStep
        <4> QED
          BY <2>1, <4>1, <4>2
      <3> QED
        BY <3>1, <3>2, <1>1 DEF Balanced, Total
    <2>4. CASE k = "week"
      BY <2>1, <2>2, <2>4, <1>1, <1>2, <1>3, <1>5 DEF WeekInv, Monday
    <2>5. CASE k # "week"
      BY <2>1, <2>2, <2>3, <2>5, <1>1, <1>2, <1>3, <1>5, <1>6 DEF CalendarInv, WeekInv, Monday
    <2> QED
      BY <2>4, <2>5
  <1> QED
    BY <1>7, <1>8, <1>9, <1>10, <1>11, RenewPeriod DEF CalendarInv

-----------------------------------------------------------------------------
(* Limits *)

\* What has passed a limit when a check begins stays past it until a reset, and
\* the check has not gone by it.
LimitInv ==
    \A t \in Checkers :
       /\ \A k \in over[t] : Passed(k)
       /\ check[t] \in {"week", "month"} => "day" \notin over[t]
       /\ check[t] = "month" => "week" \notin over[t]
       /\ check[t] = "passed" => over[t] = {}

\* A counter that is not reset stays past its limit.
LEMMA StaysPassed ==
    ASSUME CountInv, NEW k \in Periods, Same(k) \/ Counted(k), Passed(k)
    PROVE  Passed(k)'
  <1>1. /\ send[k] \in Nat /\ recvd[k] \in Nat /\ Limit[k] \in Nat
    BY Names, LimitAssumption DEF CountInv, TypeOK
  <1> QED
    BY <1>1 DEF Same, Counted, Passed, Total

LEMMA StoreLimit ==
    ASSUME CountInv, LimitInv, NEW t \in Threads, Store(t)
    PROVE  LimitInv'
  <1>1. \A c \in Checkers : check'[c] = check[c] \/ check'[c] = "begin"
    BY DEF Store, CountInv, TypeOK
  <1>2. \A k \in Periods : Passed(k) => Passed(k)'
    BY StaysPassed, StoreInv, Names
  <1>3. over' = over /\ \A c \in Checkers : over[c] \subseteq Periods
    BY DEF Store, CountInv, TypeOK
  <1> QED
    BY <1>1, <1>2, <1>3 DEF LimitInv

LEMMA CheckLimit ==
    ASSUME CountInv, LimitInv, NEW t \in Checkers, BeginCheck(t) \/ Test(t) \/ GoOn(t)
    PROVE  LimitInv'
  <1>1. \A k \in Periods : Passed(k) <=> Passed(k)'
    BY DEF BeginCheck, Test, GoOn, Passed, Total
  <1>2. \A u \in Checkers \ {t} : check'[u] = check[u] /\ over'[u] = over[u]
    BY DEF BeginCheck, Test, GoOn, CountInv, TypeOK
  <1>3. /\ \A u \in Checkers : over[u] \subseteq Periods
        /\ check' \in [Checkers -> {"no", "begin", "passed"} \cup Periods]
    BY CheckInv DEF CountInv, TypeOK
  <1>4. /\ over'[t] \subseteq Periods /\ \A k \in over'[t] : Passed(k)
        /\ check'[t] \in {"week", "month"} => "day" \notin over'[t]
        /\ check'[t] = "month" => "week" \notin over'[t]
        /\ check'[t] = "passed" => over'[t] = {}
    <2>1. CASE BeginCheck(t)
      <3>1. /\ check'[t] = IF Unlimited THEN "passed" ELSE "day"
            /\ over'[t] = {k \in Periods : Passed(k)}
        BY <2>1 DEF BeginCheck, CountInv, TypeOK
      <3>2. Unlimited => over'[t] = {}
        BY <3>1 DEF Unlimited, Passed
      <3> QED
        BY <3>1, <3>2
    <2>2. CASE Test(t)
      <3>1. /\ over'[t] = over[t] /\ check[t] \in Periods
            /\ Passed(check[t]) => check'[t] = "no"
            /\ ~Passed(check[t]) => check'[t] = After(check[t])
        BY <2>2 DEF Test, CountInv, TypeOK
      <3>2. CASE Passed(check[t])
        BY <3>1, <3>2, <1>3 DEF LimitInv
      <3>3. CASE ~Passed(check[t])
        <4>1. check[t] \notin over[t]
          BY <3>3 DEF LimitInv
        <4>2. /\ check[t] = "day" => check'[t] = "week"
              /\ check[t] = "week" => check'[t] = "month"
              /\ check[t] = "month" => check'[t] = "passed"
          BY <3>1, <3>3 DEF After
        <4> QED
          BY <3>1, <4>1, <4>2, <1>3 DEF LimitInv, Periods
      <3> QED
        BY <3>2, <3>3
    <2>3. CASE GoOn(t)
      <3>1. over'[t] = over[t] /\ check'[t] = "no"
        BY <2>3 DEF GoOn, CountInv, TypeOK
      <3> QED
        BY <3>1, <1>3 DEF LimitInv
    <2> QED
      BY <2>1, <2>2, <2>3
  <1> QED
    BY <1>1, <1>2, <1>3, <1>4 DEF LimitInv

LEMMA RenewLimit ==
    ASSUME CountInv, LimitInv, NEW k \in Periods, Renew(k)
    PROVE  LimitInv'
  <1>1. check' = check /\ \A t \in Checkers : over[t] \subseteq Periods
    BY RenewStep DEF CountInv, TypeOK
  <1>2. \A p \in Periods \ {k} : Passed(p) => Passed(p)'
    BY RenewCount, StaysPassed, Names
  <1>3. CASE over' = [t \in Checkers |-> over[t] \ {k}]
    BY <1>1, <1>2, <1>3 DEF LimitInv
  <1>4. CASE UNCHANGED <<send, recvd, over>>
    BY <1>1, <1>4 DEF LimitInv, Passed, Total
  <1> QED
    BY <1>3, <1>4, RenewStep

-----------------------------------------------------------------------------
(* The theorems *)

IInv == CountInv /\ NothingLost /\ CalendarInv /\ LimitInv

LEMMA InitInv == Init => IInv
  <1> SUFFICES ASSUME Init PROVE IInv
    OBVIOUS
  <1>1. NothingLost
    <2>1. \A k \in Counters : send[k] = 0 /\ recvd[k] = 0 /\ hist[k] = 0
      BY DEF Init
    <2> QED
      BY <2>1, Names DEF NothingLost, Total
  <1>2. LimitInv
    BY DEF Init, LimitInv
  <1> QED
    BY <1>1, <1>2, InitCount, InitCalendar DEF IInv

\* Nothing but an addition changes the counters that are never reset.
LEMMA KeepsAll ==
    ASSUME CountInv, NothingLost, \A k \in Counters \ Periods : Same(k) \/ Counted(k)
    PROVE  NothingLost'
  <1> SUFFICES ASSUME NEW k \in Sessions \cup {"total"} PROVE Total(k)' = hist'[k]
    BY DEF NothingLost
  <1>1. k \in Counters \ Periods
    BY Names
  <1>2. send[k] \in Nat /\ recvd[k] \in Nat /\ send[k] + recvd[k] = hist[k]
    BY <1>1 DEF CountInv, TypeOK, NothingLost, Total
  <1> QED
    BY <1>1, <1>2 DEF Same, Counted, Total

LEMMA NextInv == IInv /\ [Next]_vars => IInv'
  <1> SUFFICES ASSUME IInv, [Next]_vars PROVE IInv'
    OBVIOUS
  <1> USE DEF IInv
  <1>1. CASE UNCHANGED vars
    <2>1. /\ UNCHANGED <<today, round, ti, last, seen, timely, fresh, missed, over, check>>
          /\ \A k \in Counters : Same(k)
      BY <1>1 DEF vars, thread, last, history, checking, Same
    <2>2. CountInv'
      BY <1>1 DEF vars, adding, checking, thread, last, history, CountInv, TypeOK, Loaded, LockHeld
    <2>3. LimitInv'
      BY <1>1 DEF vars, checking, LimitInv, Passed, Total
    <2> QED
      BY <2>1, <2>2, <2>3, QuietCalendar, KeepsAll
  <1>2. CASE \E t \in Threads : (\E dir \in {"send", "recvd"} : Transferred(t, dir)) \/ Load(t)
    <2>1. /\ UNCHANGED <<today, round, ti, last, seen, timely, fresh, missed, over, check>>
      BY <1>2 DEF Transferred, Load, thread, history, checking
    <2>2. CountInv' /\ \A k \in Counters : Same(k)
      BY <1>2, TransferredInv, LoadInv
    <2>3. LimitInv'
      <3>1. \A k \in Periods : Passed(k) => Passed(k)'
        BY <2>2, StaysPassed, Names
      <3>2. \A t \in Checkers : over[t] \subseteq Periods
        BY DEF CountInv, TypeOK
      <3> QED
        BY <2>1, <3>1, <3>2 DEF LimitInv
    <2> QED
      BY <2>1, <2>2, <2>3, QuietCalendar, KeepsAll
  <1>3. CASE \E t \in Threads : Store(t)
    <2>1. UNCHANGED <<today, round, ti, last, seen, timely, fresh, missed>>
      BY <1>3 DEF Store, thread
    <2> QED
      BY <1>3, <2>1, StoreInv, StoreLimit, QuietCalendar, KeepsAll
  <1>4. CASE \E t \in Checkers : BeginCheck(t) \/ Test(t) \/ GoOn(t)
    <2>1. UNCHANGED <<today, round, ti, last, seen, timely, fresh, missed>>
      BY <1>4 DEF BeginCheck, Test, GoOn, thread, history
    <2> QED
      BY <1>4, <2>1, CheckInv, CheckLimit, QuietCalendar, KeepsAll
  <1>5. CASE Tomorrow
    <2>1. LimitInv'
      BY <1>5, TomorrowCount DEF LimitInv, Passed, Total
    <2> QED
      BY <1>5, <2>1, TomorrowCount, TomorrowCalendar, KeepsAll
  <1>6. CASE Wake
    <2>1. LimitInv'
      BY <1>6 DEF Wake, checking, LimitInv, Passed, Total
    <2> QED
      BY <1>6, <2>1, WakeCount, WakeCalendar, KeepsAll
  <1>7. CASE \E k \in Periods : Renew(k)
    BY <1>7, RenewCount, RenewCalendar, RenewLimit, KeepsAll
  <1> QED
    BY <1>1, <1>2, <1>3, <1>4, <1>5, <1>6, <1>7 DEF Next

LEMMA Inductive == Spec => []IInv
  BY InitInv, NextInv, PTL DEF Spec

\* Every variable has its type, and every lock is held by the thread that is
\* between the load and the store of its counter.
THEOREM TypeCorrect == Spec => []TypeOK
  <1>1. IInv => TypeOK
    BY DEF IInv, CountInv
  <1> QED
    BY <1>1, Inductive, PTL

\* For any number of sessions and any calendar no counter loses an addition,
\* and the counters of the day, week and month hold what was added since their
\* period began, but for what came before its first round.
THEOREM Accounted == Spec => []AllCounted
  <1>1. IInv => AllCounted
    BY DEF IInv, CalendarInv, AllCounted
  <1> QED
    BY <1>1, Inductive, PTL

\* For any limits trafficcheck lets nobody through who had passed one when it
\* began, unless that limit was reset meanwhile.
THEOREM LimitsHold == Spec => []LimitNoticed
  <1>1. IInv => LimitNoticed
    BY DEF IInv, LimitInv, LimitNoticed
  <1> QED
    BY <1>1, Inductive, PTL
=============================================================================
