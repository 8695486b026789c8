---------------------------- MODULE Server_proofs ----------------------------
(***************************************************************************)
(* The index of the next site is inside the list of sites, a name that was *)
(* removed from a list of users stays out of it, conlist holds the         *)
(* sessions that there are, and SITE info shows them all, for any          *)
(* connections, names, files and numbers of commands and signals.          *)
(***************************************************************************)
EXTENDS Server, TLAPS, WellFoundedInduction, FiniteSetTheorems

-----------------------------------------------------------------------------
(* Lists *)

LEMMA Smallest ==
    ASSUME NEW S, S \subseteq Nat, S # {}
    PROVE  Min(S) \in S /\ \A y \in S : Min(S) <= y
  <1>1. PICK x \in S : \A y \in S : ~ (<<y, x>> \in OpToRel(<, Nat))
    BY NatLessThanWellFounded, WFMin, Zenon
  <1>2. \A y \in S : x <= y
    <2> TAKE y \in S
    <2>1. x \in Nat /\ y \in Nat
      OBVIOUS
    <2>2. ~ (y < x)
      BY <1>1, <2>1, Zenon DEF OpToRel
    <2> QED
      BY <2>1, <2>2
  <1> QED
    BY <1>2 DEF Min

\* A list that held nothing twice is without the element afterwards.
LEMMA FirstErased ==
    ASSUME NEW S, NEW s \in Seq(S), NEW n
    PROVE  LET r == RemoveFirst(s, n)
           IN  /\ r \in Seq(S)
               /\ IsInjective(s) => IsInjective(r) /\ ToSet(r) = ToSet(s) \ {n}
  <1> DEFINE I == {i \in 1 .. Len(s) : s[i] = n}
  <1>1. CASE I = {}
    <2>1. RemoveFirst(s, n) = s /\ n \notin ToSet(s)
      BY <1>1 DEF RemoveFirst, ToSet
    <2> QED
      BY <2>1
  <1>2. CASE I # {}
    <2> DEFINE k == Min(I)
               r == SubSeq(s, 1, k - 1) \o SubSeq(s, k + 1, Len(s))
    <2>1. k \in I
      <3>1. I \subseteq Nat
        OBVIOUS
      <3> QED
        BY <1>2, <3>1, Smallest, Zenon
    <2>2. RemoveFirst(s, n) = r
      BY <1>2 DEF RemoveFirst, RemoveAt, SelectInSeq
    <2>3. k \in 1 .. Len(s) /\ s[k] = n
      BY <2>1
    <2> HIDE DEF k
    <2>4. /\ r \in Seq(S) /\ Len(r) = Len(s) - 1
          /\ \A i \in 1 .. Len(r) : r[i] = IF i < k THEN s[i] ELSE s[i + 1]
      <3> DEFINE a == SubSeq(s, 1, k - 1)
                 b == SubSeq(s, k + 1, Len(s))
      <3>1. /\ a \in Seq(S) /\ Len(a) = k - 1
            /\ \A i \in 1 .. k - 1 : a[i] = s[i]
        BY <2>3
      <3>2. /\ b \in Seq(S) /\ Len(b) = Len(s) - k
            /\ \A i \in 1 .. Len(s) - k : b[i] = s[k + i]
        BY <2>3
      <3> HIDE DEF a, b
      <3>3. a \o b \in Seq(S) /\ Len(a \o b) = Len(s) - 1
        <4>1. a \o b \in Seq(S) /\ Len(a \o b) = Len(a) + Len(b)
          BY <3>1, <3>2
        <4>2. Len(s) \in Nat /\ k \in Nat
          BY <2>3
        <4> QED
          BY <3>1, <3>2, <4>1, <4>2
      <3>4. \A i \in 1 .. Len(s) - 1 : (a \o b)[i] = IF i < k THEN s[i] ELSE s[i + 1]
        <4> TAKE i \in 1 .. Len(s) - 1
        <4>0. i \in Nat /\ k \in Nat /\ Len(s) \in Nat
          BY <2>3
        <4>1. i < k => (a \o b)[i] = s[i]
          BY <3>1, <3>2, <4>0
        <4>2. ASSUME ~ (i < k) PROVE (a \o b)[i] = s[i + 1]
          <5> DEFINE j == i - k + 1
          <5>1. j \in 1 .. Len(s) - k /\ i = Len(a) + j /\ k + j = i + 1
            BY <3>1, <4>0, <4>2
          <5>2. (a \o b)[i] = b[j]
            BY <3>1, <3>2, <4>0, <4>2
          <5>3. b[j] = s[k + j]
            BY <3>2, <5>1
          <5> QED
            BY <5>1, <5>2, <5>3
        <4> QED
          BY <4>1, <4>2
      <3> QED
        BY <3>3, <3>4 DEF a, b
    <2> HIDE DEF r
    <2>5. ASSUME IsInjective(s)
          PROVE  IsInjective(r) /\ ToSet(r) = ToSet(s) \ {n}
      <3>1. DOMAIN s = 1 .. Len(s) /\ DOMAIN r = 1 .. Len(r)
        BY <2>4
      <3>2. IsInjective(r)
        <4> SUFFICES ASSUME NEW i \in 1 .. Len(r), NEW j \in 1 .. Len(r), r[i] = r[j]
                     PROVE  i = j
          BY <3>1 DEF IsInjective
        <4> DEFINE old(x) == IF x < k THEN x ELSE x + 1
        <4>1. old(i) \in 1 .. Len(s) /\ old(j) \in 1 .. Len(s)
          BY <2>3, <2>4
        <4>2. s[old(i)] = s[old(j)]
          BY <2>4
        <4>3. old(i) = old(j)
          <5> HIDE DEF old
          <5> QED
            BY <2>5, <3>1, <4>1, <4>2 DEF IsInjective
        <4> QED
          BY <2>3, <2>4, <4>3
      <3>3. \A i \in 1 .. Len(r) : r[i] \in ToSet(s) /\ r[i] # n
        <4> TAKE i \in 1 .. Len(r)
        <4> DEFINE j == IF i < k THEN i ELSE i + 1
        <4>1. j \in 1 .. Len(s) /\ j # k
          BY <2>3, <2>4
        <4>2. r[i] = s[j]
          BY <2>4
        <4> HIDE DEF j
        <4>3. s[j] # s[k]
          BY <2>3, <2>5, <3>1, <4>1 DEF IsInjective
        <4> QED
          BY <2>3, <3>1, <4>1, <4>2, <4>3 DEF ToSet
      <3>4. \A i \in 1 .. Len(s) : s[i] # n => s[i] \in ToSet(r)
        <4> TAKE i \in 1 .. Len(s)
        <4> DEFINE j == IF i < k THEN i ELSE i - 1
        <4>1. SUFFICES ASSUME i # k PROVE s[i] \in ToSet(r)
          BY <2>3
        <4>2. j \in 1 .. Len(r) /\ r[j] = s[i]
          BY <2>3, <2>4, <4>1
        <4> HIDE DEF j
        <4> QED
          BY <3>1, <4>2 DEF ToSet
      <3> QED
        BY <3>1, <3>2, <3>3, <3>4 DEF ToSet
    <2> QED
      BY <2>2, <2>4, <2>5
  <1> QED
    BY <1>1, <1>2

LEMMA Appended ==
    ASSUME NEW S, NEW s \in Seq(S), NEW n \in S
    PROVE  /\ Append(s, n) \in Seq(S)
           /\ ToSet(Append(s, n)) = ToSet(s) \cup {n}
           /\ IsInjective(s) /\ n \notin ToSet(s) => IsInjective(Append(s, n))
  <1> DEFINE r == Append(s, n)
  <1>1. /\ r \in Seq(S) /\ DOMAIN r = 1 .. Len(s) + 1 /\ DOMAIN s = 1 .. Len(s)
        /\ r[Len(s) + 1] = n /\ \A i \in 1 .. Len(s) : r[i] = s[i]
    OBVIOUS
  <1> HIDE DEF r
  <1>2. ToSet(r) = ToSet(s) \cup {n}
    BY <1>1 DEF ToSet
  <1>3. IsInjective(s) /\ n \notin ToSet(s) => IsInjective(r)
    BY <1>1 DEF ToSet, IsInjective
  <1> QED
    BY <1>1, <1>2, <1>3 DEF r

\* The first list is an enumeration of the names of the file.
LEMMA Enumerated ==
    ASSUME NEW S, S \subseteq Names
    PROVE  SetToSeq(S) \in Seq(Names) /\ IsInjective(SetToSeq(S))
  <1>1. IsFiniteSet(S)
    BY ServerAssumption, FS_Subset
  <1>2. Cardinality(S) \in Nat /\ ExistsBijection(1 .. Cardinality(S), S)
    BY <1>1, FS_CardinalityType
  <1>3. \E f \in [1 .. Cardinality(S) -> S] : IsInjective(f)
    BY <1>2 DEF ExistsBijection, Bijection, Injection, IsInjective
  <1>4. SetToSeq(S) \in [1 .. Cardinality(S) -> S] /\ IsInjective(SetToSeq(S))
    BY <1>3 DEF SetToSeq
  <1> QED
    BY <1>2, <1>4
-----------------------------------------------------------------------------
(* Invariants *)

Places  == {"accept", "lock", "getip", "take", "new", "push", "create", "relock", "drop", None,
            "run", "walk", "log", "insert", "unlist", "remove", "close", "closing", "delete"}
Reloads == [at : {None, "log", "conf", "lock", "read", "names", "insert"},
            name : Names \cup {None}]

Inserts(t) == at[t] = "insert" \/ frame[t].at = "insert"

\* The variables the proofs read have their types; main inserts nothing, except
\* in a reload.
Typed ==
    /\ at \in [Threads -> Places] /\ at[Main] # "insert"
    /\ name \in [Conns -> Names \cup {None}]
    /\ frame \in [Threads -> Reloads]
    /\ \A c \in Conns : at[c] = "insert" => name[c] \in Names
    /\ \A t \in Threads : frame[t].at = "insert" => frame[t].name \in Names
    /\ config \in Files /\ sites \in Nat /\ counter \in Nat
    /\ list \in Seq(Names) /\ removed \subseteq Names /\ raced \in BOOLEAN

\* The index is inside the list even while the lock is held.
IndexInv == sites > 0 => counter < sites

\* A name that may be appended: nobody removed it and it is not in the list.
Insertable(n) == n \notin ToSet(list) /\ n \notin removed

\* As long as no two threads were at the list at once it holds no name twice and
\* none that was removed, and there is one thread between the two steps of an
\* insertion, with a name that may still be appended.
NamesInv ==
    ~raced =>
       /\ IsInjective(list)
       /\ removed \cap ToSet(list) = {}
       /\ \A c \in Conns : at[c] = "insert" => Insertable(name[c])
       /\ \A t \in Threads : frame[t].at = "insert" => Insertable(frame[t].name)
       /\ \A t, u \in Threads : Inserts(t) /\ Inserts(u) => t = u
       /\ \A t \in Threads : ~ (at[t] = "insert" /\ frame[t].at = "insert")

ListInv == Typed /\ NamesInv

IInv == ListInv /\ IndexInv

LEMMA Threadnames == Main \in Threads /\ Conns \subseteq Threads /\ Main \notin Conns
  BY ServerAssumption DEF Threads

-----------------------------------------------------------------------------
(* Steps away from the list of users *)

\* Nothing of the list changes and nobody begins to insert.
Elsewhere ==
    /\ at' \in [Threads -> Places] /\ frame' \in [Threads -> Reloads]
    /\ UNCHANGED <<name, list, removed, raced>>
    /\ \A t \in Threads :
          /\ at'[t] = "insert" => at[t] = "insert"
          /\ frame'[t].at = "insert" => frame[t] = frame'[t]

LEMMA ElsewhereInv ==
    ASSUME ListInv, Elsewhere, config' \in Files, sites' \in Nat, counter' \in Nat
    PROVE  ListInv'
  <1>1. Typed'
    BY Threadnames DEF ListInv, Typed, Elsewhere
  <1>2. NamesInv'
    <2> SUFFICES ASSUME ~raced PROVE NamesInv'
      BY DEF NamesInv, Elsewhere
    <2>1. \A t \in Threads : Inserts(t)' => Inserts(t)
      BY DEF Inserts, Elsewhere
    <2> QED
      BY <2>1, Threadnames DEF ListInv, NamesInv, Elsewhere, Insertable
  <1> QED
    BY <1>1, <1>2 DEF ListInv

\* A thread goes from one place to another, or a reload does.
Moved(t, to) ==
    /\ at' = [at EXCEPT ![t] = to]
    /\ UNCHANGED <<frame, name, list, removed, raced>>
ReloadMoved(t, to) ==
    /\ frame' = [frame EXCEPT ![t].at = to]
    /\ UNCHANGED <<at, name, list, removed, raced>>

LEMMA MovedElsewhere ==
    ASSUME ListInv, NEW t \in Threads, NEW to, to # "insert",
           \/ to \in Places /\ Moved(t, to)
           \/ to \in {None, "log", "conf", "lock", "read", "names"} /\ ReloadMoved(t, to)
    PROVE  Elsewhere
  BY DEF Elsewhere, ListInv, Typed, Moved, ReloadMoved, Reloads

\* Only readlist, getip and readconf change anything else the proofs read.
Configured == UNCHANGED <<config, sites, counter>>

LEMMA Kept ==
    ASSUME ListInv, Elsewhere, Configured
    PROVE  ListInv'
  BY ElsewhereInv DEF ListInv, Typed, Configured

LEMMA AcceptInv ==
    ASSUME ListInv, NEW c \in Conns, AcceptConn(c)
    PROVE  ListInv'
  <1>1. Moved(Main, "lock") /\ Configured
    BY DEF AcceptConn, Step, iplist, history, Moved, Configured
  <1> QED
    BY <1>1, MovedElsewhere, Kept, Threadnames DEF Places, None

LEMMA MainInv ==
    ASSUME ListInv, MainStep
    PROVE  ListInv'
  <1>1. CASE LockList
    <2>1. Moved(Main, "getip") /\ Configured
      BY <1>1 DEF LockList, Step, iplist, history, Moved, Configured
    <2> QED
      BY <2>1, MovedElsewhere, Kept, Threadnames DEF Places, None
  <1>2. CASE LockSites
    <2>1. Moved(Main, "take") /\ Configured
      BY <1>2 DEF LockSites, Step, iplist, history, Moved, Configured
    <2> QED
      BY <2>1, MovedElsewhere, Kept, Threadnames DEF Places, None
  <1>3. CASE NewConn
    <2>1. Moved(Main, "push") /\ Configured
      BY <1>3 DEF NewConn, Step, iplist, history, Moved, Configured
    <2> QED
      BY <2>1, MovedElsewhere, Kept, Threadnames DEF Places, None
  <1>4. CASE PushConn
    <2>1. Moved(Main, "create") /\ Configured
      BY <1>4 DEF PushConn, Step, iplist, history, Moved, Configured
    <2> QED
      BY <2>1, MovedElsewhere, Kept, Threadnames DEF Places, None
  <1>5. CASE LockAgain
    <2>1. Moved(Main, "drop") /\ Configured
      BY <1>5 DEF LockAgain, Step, iplist, history, Moved, Configured
    <2> QED
      BY <2>1, MovedElsewhere, Kept, Threadnames DEF Places, None
  <1>6. CASE DropConn
    <2>1. Moved(Main, "accept") /\ Configured
      BY <1>6 DEF DropConn, Step, iplist, history, Moved, Configured
    <2> QED
      BY <2>1, MovedElsewhere, Kept, Threadnames DEF Places, None
  <1>7. CASE TakeSite
    <2>1. Moved(Main, "new")
      BY <1>7 DEF TakeSite, Step, history, Moved
    <2>2. sites' \in Nat /\ counter' \in Nat /\ config' \in Files
      BY <1>7 DEF TakeSite, Advanced, ListInv, Typed
    <2> QED
      BY <2>1, <2>2, MovedElsewhere, ElsewhereInv, Threadnames DEF Places, None
  <1>8. CASE CreateConn
    <2>1. UNCHANGED <<frame, name, list, removed, raced>> /\ Configured
      BY <1>8 DEF CreateConn, iplist, history, Configured
    <2>2. \/ at' = [at EXCEPT ![Main] = "accept", ![tmp] = "run"]
          \/ at' = [at EXCEPT ![Main] = "relock"]
      BY <1>8 DEF CreateConn, NotCreated
    <2>3. at' \in [Threads -> Places] /\ \A t \in Threads : at'[t] = "insert" => at[t] = "insert"
      <3>1. at \in [Threads -> Places]
        BY DEF ListInv, Typed
      <3>2. {"accept", "run", "relock"} \subseteq Places \ {"insert"}
        BY DEF Places, None
      <3> QED
        BY <2>2, <3>1, <3>2
    <2>4. Elsewhere
      BY <2>1, <2>3 DEF Elsewhere, ListInv, Typed
    <2> QED
      BY <2>1, <2>4, Kept
  <1> QED
    BY <1>1, <1>2, <1>3, <1>4, <1>5, <1>6, <1>7, <1>8 DEF MainStep

\* What a session goes on with, insertions aside.
LEMMA WorkingInv ==
    ASSUME ListInv, NEW c \in Conns, Working(c), ~Insert(c)
    PROVE  ListInv'
  <1>1. CASE InfoStep(c)
    <2>1. Moved(c, "walk") /\ Configured
      BY <1>1 DEF InfoStep, Step, iplist, history, Moved, Configured
    <2> QED
      BY <2>1, MovedElsewhere, Kept, Threadnames DEF Places, None
  <1>2. CASE InfoEnd(c)
    <2>1. Moved(c, "run") /\ Configured
      BY <1>2 DEF InfoEnd, Step, iplist, history, Moved, Configured
    <2> QED
      BY <2>1, MovedElsewhere, Kept, Threadnames DEF Places, None
  <1>3. CASE LockUnlist(c)
    <2>1. Moved(c, "remove") /\ Configured
      BY <1>3 DEF LockUnlist, Step, iplist, history, Moved, Configured
    <2> QED
      BY <2>1, MovedElsewhere, Kept, Threadnames DEF Places, None
  <1>4. CASE RemoveConn(c)
    <2>1. Moved(c, "close") /\ Configured
      BY <1>4 DEF RemoveConn, Step, iplist, history, Moved, Configured
    <2> QED
      BY <2>1, MovedElsewhere, Kept, Threadnames DEF Places, None
  <1>5. CASE LockClose(c)
    <2>1. Moved(c, "closing") /\ Configured
      BY <1>5 DEF LockClose, Step, iplist, history, Moved, Configured
    <2> QED
      BY <2>1, MovedElsewhere, Kept, Threadnames DEF Places, None
  <1>6. CASE CloseConn(c)
    <2>1. Moved(c, "delete") /\ Configured
      BY <1>6 DEF CloseConn, Step, iplist, history, Moved, Configured
    <2> QED
      BY <2>1, MovedElsewhere, Kept, Threadnames DEF Places, None
  <1>7. CASE DeleteConn(c)
    <2>1. Moved(c, "none") /\ Configured
      BY <1>7 DEF DeleteConn, Step, None, iplist, history, Moved, Configured
    <2> QED
      BY <2>1, MovedElsewhere, Kept, Threadnames DEF Places, None
  <1>8. CASE Log(c)
    <2>1. (Moved(c, "log") \/ Moved(c, "run")) /\ Configured
      BY <1>8 DEF Log, Command, Step, iplist, history, Moved, Configured
    <2> QED
      BY <2>1, MovedElsewhere, Kept, Threadnames DEF Places, None
  <1> QED
    BY <1>1, <1>2, <1>3, <1>4, <1>5, <1>6, <1>7, <1>8 DEF Working

\* The commands that leave the list alone, and the end of the session.
LEMMA OtherCommandInv ==
    ASSUME ListInv, NEW c \in Conns,
           InfoLock(c) \/ Kill(c) \/ Log(c) \/ ReloadCommand(c) \/ Leave(c)
    PROVE  ListInv'
  <1>1. CASE InfoLock(c)
    <2>1. Moved(c, "walk") /\ Configured
      BY <1>1 DEF InfoLock, Step, Command, iplist, history, Moved, Configured
    <2> QED
      BY <2>1, MovedElsewhere, Kept, Threadnames DEF Places, None
  <1>2. CASE Kill(c)
    <2>1. Moved(c, "run") /\ Configured
      BY <1>2 DEF Kill, Step, Command, iplist, history, Moved, Configured
    <2> QED
      BY <2>1, MovedElsewhere, Kept, Threadnames DEF Places, None
  <1>3. CASE Leave(c)
    <2>1. Moved(c, "unlist") /\ Configured
      BY <1>3 DEF Leave, Step, Command, iplist, history, Moved, Configured
    <2> QED
      BY <2>1, MovedElsewhere, Kept, Threadnames DEF Places, None
  <1>4. CASE Log(c)
    <2>1. (Moved(c, "log") \/ Moved(c, "run")) /\ Configured
      BY <1>4 DEF Log, Command, Step, iplist, history, Moved, Configured
    <2> QED
      BY <2>1, MovedElsewhere, Kept, Threadnames DEF Places, None
  <1>5. CASE ReloadCommand(c)
    <2>1. /\ at' = [at EXCEPT ![c] = "run"]
          /\ frame' = [frame EXCEPT ![c] = [at |-> "conf", name |-> None]]
          /\ UNCHANGED <<name, list, removed, raced>> /\ Configured
      BY <1>5 DEF ReloadCommand, Command, Step, iplist, history, Configured
    <2>2. Elsewhere
      BY <2>1, Threadnames DEF Elsewhere, ListInv, Typed, Places, Reloads, None
    <2> QED
      BY <2>1, <2>2, Kept
  <1> QED
    BY <1>1, <1>2, <1>3, <1>4, <1>5

LEMMA SignalInv ==
    ASSUME ListInv, NEW t \in Threads, Signal(t)
    PROVE  ListInv'
  <1>1. ReloadMoved(t, "log") /\ Configured
    BY DEF Signal, Frame, iplist, history, ReloadMoved, Configured
  <1> QED
    BY <1>1, MovedElsewhere, Kept DEF None

\* A reload, the list of users aside.
LEMMA ReloadInv ==
    ASSUME ListInv, NEW t \in Threads,
           ReloadLog(t) \/ ReadConf(t) \/ LockReadlist(t) \/ Readlist(t)
    PROVE  ListInv'
  <1>1. CASE ReloadLog(t)
    <2>1. ReloadMoved(t, "conf") /\ Configured
      BY <1>1 DEF ReloadLog, Frame, iplist, history, ReloadMoved, Configured
    <2> QED
      BY <2>1, MovedElsewhere, Kept, Threadnames DEF Places, None
  <1>2. CASE LockReadlist(t)
    <2>1. ReloadMoved(t, "read") /\ Configured
      BY <1>2 DEF LockReadlist, Frame, iplist, history, ReloadMoved, Configured
    <2> QED
      BY <2>1, MovedElsewhere, Kept, Threadnames DEF Places, None
  <1>3. CASE ReadConf(t)
    <2>1. ReloadMoved(t, "none") \/ ReloadMoved(t, "lock")
      BY <1>3 DEF ReadConf, Frame, history, None, ReloadMoved
    <2>2. sites' \in Nat /\ counter' \in Nat /\ config' \in Files
      BY <1>3 DEF ReadConf, ListInv, Typed, iplist
    <2> QED
      BY <2>1, <2>2, MovedElsewhere, ElsewhereInv DEF None
  <1>4. CASE Readlist(t)
    <2>1. ReloadMoved(t, "names")
      BY <1>4 DEF Readlist, Frame, history, ReloadMoved
    <2>2. sites' \in Nat /\ counter' \in Nat /\ config' \in Files
      BY <1>4, ServerAssumption DEF Readlist, Restarted, ListInv, Typed, File
    <2> QED
      BY <2>1, <2>2, MovedElsewhere, ElsewhereInv DEF None
  <1> QED
    BY <1>1, <1>2, <1>3, <1>4

-----------------------------------------------------------------------------
(* Steps at the list of users *)

\* Ins appends the one name that may be appended, by a command or a reload.
LEMMA InsertInv ==
    ASSUME ListInv, NEW c \in Conns, Insert(c)
    PROVE  ListInv'
  <1>1. /\ at[c] = "insert" /\ at' = [at EXCEPT ![c] = "run"]
        /\ list' = Append(list, name[c]) /\ name' = [name EXCEPT ![c] = None]
        /\ UNCHANGED <<frame, config, sites, counter, removed, raced>>
    BY DEF Insert, Step, iplist, history
  <1>2. name[c] \in Names /\ list \in Seq(Names) /\ c \in Threads
    BY <1>1, Threadnames DEF ListInv, Typed
  <1>3. Typed'
    <2>1. list' \in Seq(Names) /\ name' \in [Conns -> Names \cup {None}]
      BY <1>1, <1>2, Appended DEF ListInv, Typed
    <2>2. "run" \in Places
      BY DEF Places
    <2> QED
      BY <1>1, <1>2, <2>1, <2>2, Threadnames DEF ListInv, Typed
  <1>4. NamesInv'
    <2> SUFFICES ASSUME ~raced PROVE NamesInv'
      BY <1>1 DEF NamesInv
    <2>1. Insertable(name[c]) /\ IsInjective(list) /\ removed \cap ToSet(list) = {}
      BY <1>1 DEF ListInv, NamesInv
    <2>2. IsInjective(list') /\ removed' \cap ToSet(list') = {}
      BY <1>1, <1>2, <2>1, Appended DEF Insertable
    <2>3. \A t \in Threads : ~Inserts(t)'
      BY <1>1, <1>2 DEF ListInv, Typed, NamesInv, Inserts
    <2> QED
      BY <2>2, <2>3, Threadnames DEF NamesInv, Inserts
  <1> QED
    BY <1>3, <1>4 DEF ListInv

LEMMA InsertNameInv ==
    ASSUME ListInv, NEW t \in Threads, InsertName(t)
    PROVE  ListInv'
  <1>1. /\ frame[t].at = "insert" /\ frame' = [frame EXCEPT ![t].at = "names"]
        /\ list' = Append(list, frame[t].name)
        /\ UNCHANGED <<at, name, config, sites, counter, removed, raced>>
    BY DEF InsertName, InFrame, Frame, iplist, history
  <1>2. frame[t].name \in Names /\ list \in Seq(Names)
    BY <1>1 DEF ListInv, Typed
  <1>3. Typed'
    <2>1. list' \in Seq(Names)
      BY <1>1, <1>2, Appended
    <2>2. frame' \in [Threads -> Reloads] /\ frame'[t].at = "names"
      BY <1>1 DEF ListInv, Typed, Reloads
    <2> QED
      BY <1>1, <2>1, <2>2 DEF ListInv, Typed
  <1>4. NamesInv'
    <2> SUFFICES ASSUME ~raced PROVE NamesInv'
      BY <1>1 DEF NamesInv
    <2>1. Insertable(frame[t].name) /\ IsInjective(list) /\ removed \cap ToSet(list) = {}
      BY <1>1 DEF ListInv, NamesInv
    <2>2. IsInjective(list') /\ removed' \cap ToSet(list') = {}
      BY <1>1, <1>2, <2>1, Appended DEF Insertable
    <2>3. \A u \in Threads : ~Inserts(u)'
      BY <1>1 DEF ListInv, Typed, NamesInv, Inserts, Reloads
    <2> QED
      BY <2>2, <2>3, Threadnames DEF NamesInv, Inserts
  <1> QED
    BY <1>3, <1>4 DEF ListInv

\* A command that adds a name finds it missing, and goes on to insert it.
LEMMA AddNameInv ==
    ASSUME ListInv, NEW c \in Conns, NEW n \in Names, AddName(c, n)
    PROVE  ListInv'
  <1>1. /\ at[c] = "run" /\ at' = [at EXCEPT ![c] = IF Missing(n) THEN "insert" ELSE "run"]
        /\ frame[c].at = None
        /\ name' = [name EXCEPT ![c] = IF Missing(n) THEN n ELSE None]
        /\ removed' = removed \ {n} /\ raced' = (raced \/ Others(c))
        /\ UNCHANGED <<frame, list, config, sites, counter>>
    BY DEF AddName, Command, Step, Quiet, iplist
  <1>2. c \in Threads /\ c # Main
    BY Threadnames
  <1>3. Typed'
    <2>1. "run" \in Places /\ "insert" \in Places
      BY DEF Places
    <2>2. at' \in [Threads -> Places] /\ name' \in [Conns -> Names \cup {None}]
      BY <1>1, <2>1 DEF ListInv, Typed
    <2>3. raced' \in BOOLEAN
      BY <1>1, Zenon DEF Others
    <2> QED
      BY <1>1, <1>2, <2>2, <2>3, Threadnames DEF ListInv, Typed
  <1>4. NamesInv'
    <2> SUFFICES ASSUME ~raced' PROVE NamesInv'
      BY DEF NamesInv
    <2>1. ~raced /\ \A u \in Threads \ {c} : ~Inserts(u)
      BY <1>1 DEF Others, Inserts
    <2>2. \A u \in Threads \ {c} : ~Inserts(u)'
      BY <1>1, <1>2, <2>1 DEF ListInv, Typed, Inserts
    <2>3. frame'[c].at # "insert"
      BY <1>1 DEF None
    <2>4. at'[c] = "insert" => Missing(n) /\ name'[c] = n
      BY <1>1, <1>2 DEF ListInv, Typed
    <2>5. at'[c] = "insert" => Insertable(name[c])'
      BY <1>1, <2>4 DEF Insertable, Missing
    <2>6. IsInjective(list') /\ removed' \cap ToSet(list') = {}
      BY <1>1, <2>1 DEF ListInv, NamesInv
    <2> QED
      BY <1>2, <2>2, <2>3, <2>5, <2>6, Threadnames DEF NamesInv, Inserts
  <1> QED
    BY <1>3, <1>4 DEF ListInv

LEMMA DelNameInv ==
    ASSUME ListInv, NEW c \in Conns, NEW n \in Names, DelName(c, n)
    PROVE  ListInv'
  <1>1. /\ at[c] = "run" /\ at' = [at EXCEPT ![c] = "run"] /\ frame[c].at = None
        /\ list' = RemoveFirst(list, n)
        /\ removed' = removed \cup {n} /\ raced' = (raced \/ Others(c))
        /\ UNCHANGED <<frame, name, config, sites, counter>>
    BY DEF DelName, Command, Step, Quiet, iplist, Erased
  <1>2. c \in Threads /\ at' = at /\ list \in Seq(Names)
    BY <1>1, Threadnames DEF ListInv, Typed
  <1>3. Typed'
    <2>1. list' \in Seq(Names)
      BY <1>1, <1>2, FirstErased
    <2>2. raced' \in BOOLEAN
      BY <1>1, Zenon DEF Others
    <2> QED
      BY <1>1, <1>2, <2>1, <2>2 DEF ListInv, Typed
  <1>4. NamesInv'
    <2> SUFFICES ASSUME ~raced' PROVE NamesInv'
      BY DEF NamesInv
    <2>1. ~raced /\ \A u \in Threads : ~Inserts(u)
      BY <1>1 DEF Others, Inserts, None
    <2>2. \A u \in Threads : ~Inserts(u)'
      BY <1>1, <1>2, <2>1 DEF Inserts
    <2>3. IsInjective(list) /\ removed \cap ToSet(list) = {}
      BY <2>1 DEF ListInv, NamesInv
    <2>4. IsInjective(list') /\ ToSet(list') \subseteq ToSet(list) \ {n}
      BY <1>1, <1>2, <2>3, FirstErased
    <2> QED
      BY <1>1, <2>2, <2>3, <2>4, Threadnames DEF NamesInv, Inserts
  <1> QED
    BY <1>3, <1>4 DEF ListInv

\* A reload looks for a name of the file that is missing.
LEMMA NextNameInv ==
    ASSUME ListInv, NEW t \in Threads, NextName(t)
    PROVE  ListInv'
  <1>1. /\ frame[t].at = "names"
        /\ removed' = removed \ config.names
        /\ raced' = (raced \/ Others(t) \/ at[t] = "insert")
        /\ UNCHANGED <<at, name, list, config, sites, counter>>
    BY DEF NextName, InFrame, iplist
  <1>2. \/ frame' = [frame EXCEPT ![t] = NoFrame]
        \/ \E n \in config.names :
              Missing(n) /\ frame' = [frame EXCEPT ![t] = [at |-> "insert", name |-> n]]
    BY DEF NextName
  <1>3. config.names \subseteq Names
    BY ServerAssumption DEF ListInv, Typed, File
  <1>4. /\ frame' \in [Threads -> Reloads]
        /\ \A u \in Threads \ {t} : frame'[u] = frame[u]
        /\ frame'[t].at = "insert" => frame'[t].name \in config.names /\ Missing(frame'[t].name)
    <2>1. frame \in [Threads -> Reloads]
      BY DEF ListInv, Typed
    <2>2. CASE frame' = [frame EXCEPT ![t] = NoFrame]
      <3>1. NoFrame \in Reloads /\ NoFrame.at # "insert"
        BY DEF NoFrame, Reloads, None
      <3> QED
        BY <2>1, <2>2, <3>1
    <2>3. ASSUME NEW n \in config.names, Missing(n),
                 frame' = [frame EXCEPT ![t] = [at |-> "insert", name |-> n]]
          PROVE  /\ frame' \in [Threads -> Reloads]
                 /\ \A u \in Threads \ {t} : frame'[u] = frame[u]
                 /\ frame'[t].name \in config.names /\ Missing(frame'[t].name)
      <3>1. [at |-> "insert", name |-> n] \in Reloads
        BY <1>3 DEF Reloads
      <3>2. frame'[t] = [at |-> "insert", name |-> n]
        BY <2>1, <2>3
      <3> QED
        BY <2>1, <2>3, <3>1, <3>2
    <2> QED
      BY <1>2, <2>2, <2>3
  <1>5. Typed'
    <2>1. raced' \in BOOLEAN
      BY <1>1, Zenon DEF Others
    <2> QED
      BY <1>1, <1>3, <1>4, <2>1 DEF ListInv, Typed
  <1>6. NamesInv'
    <2> SUFFICES ASSUME ~raced' PROVE NamesInv'
      BY DEF NamesInv
    <2>1. ~raced /\ at[t] # "insert" /\ \A u \in Threads \ {t} : ~Inserts(u)
      BY <1>1 DEF Others, Inserts
    <2>2. at'[t] # "insert" /\ \A u \in Threads \ {t} : ~Inserts(u)'
      BY <1>1, <1>4, <2>1 DEF Inserts
    <2>3. frame'[t].at = "insert" => Insertable(frame[t].name)'
      BY <1>1, <1>4 DEF Insertable, Missing
    <2>4. IsInjective(list') /\ removed' \cap ToSet(list') = {}
      BY <1>1, <2>1 DEF ListInv, NamesInv
    <2> QED
      BY <2>2, <2>3, <2>4, Threadnames DEF NamesInv, Inserts
  <1> QED
    BY <1>5, <1>6 DEF ListInv

-----------------------------------------------------------------------------
(* The theorems *)

LEMMA InitInv == Init => IInv
  <1> SUFFICES ASSUME Init PROVE IInv
    OBVIOUS
  <1>1. config \in Files /\ config \in File /\ config.names \subseteq Names /\ config.sites \in Nat
    BY ServerAssumption DEF Init, File
  <1>2. list \in Seq(Names) /\ IsInjective(list)
    BY <1>1, Enumerated DEF Init
  <1>3. \A t \in Threads : at[t] # "insert" /\ frame[t].at # "insert"
    BY DEF Init, None, NoFrame
  <1>4. at \in [Threads -> Places] /\ frame \in [Threads -> Reloads]
    BY DEF Init, Places, Reloads, NoFrame
  <1>5. Typed
    BY <1>1, <1>2, <1>3, <1>4, Threadnames DEF Init, Typed
  <1>6. NamesInv
    BY <1>2, <1>3, Threadnames DEF Init, NamesInv, Inserts
  <1> QED
    BY <1>5, <1>6 DEF IInv, ListInv, Init, IndexInv

\* The index moves inside the list, and a new list begins with 0.
LEMMA IndexStep ==
    ASSUME ListInv, IndexInv, [Next]_vars
    PROVE  IndexInv'
  <1>1. CASE TakeSite
    BY <1>1 DEF TakeSite, Advanced, ListInv, Typed, IndexInv
  <1>2. ASSUME NEW t \in Threads, Readlist(t) PROVE IndexInv'
    <2>1. config.sites \in Nat
      BY ServerAssumption DEF ListInv, Typed, File
    <2> QED
      BY <1>2, <2>1 DEF Readlist, Restarted, ListInv, Typed, IndexInv
  <1>3. CASE UNCHANGED iplist
    BY <1>3 DEF iplist, IndexInv
  <1>4. CASE UNCHANGED vars
    BY <1>4, <1>3 DEF vars
  <1>5. ASSUME MainStep PROVE TakeSite \/ UNCHANGED iplist
    BY <1>5 DEF MainStep, LockList, LockSites, NewConn, PushConn, CreateConn, LockAgain, DropConn
  <1>6. ASSUME NEW c \in Conns, AcceptConn(c) \/ Working(c) PROVE UNCHANGED iplist
    BY <1>6 DEF AcceptConn, Working, InfoStep, InfoEnd, Log, Insert, LockUnlist, RemoveConn,
                LockClose, CloseConn, DeleteConn
  <1>7. ASSUME NEW c \in Conns, Commanded(c) PROVE UNCHANGED iplist
    BY <1>7 DEF Commanded, InfoLock, Kill, Log, ReloadCommand, Leave, AddName, DelName
  <1>8. ASSUME NEW t \in Threads, Reload(t) \/ Signal(t) PROVE Readlist(t) \/ UNCHANGED iplist
    BY <1>8 DEF Reload, ReloadLog, ReadConf, LockReadlist, NextName, InsertName, Signal
  <1> QED
    BY <1>1, <1>2, <1>3, <1>4, <1>5, <1>6, <1>7, <1>8 DEF Next

LEMMA ListStep ==
    ASSUME ListInv, [Next]_vars
    PROVE  ListInv'
  <1>1. CASE UNCHANGED vars
    BY <1>1 DEF vars, threads, iplist, history, ListInv, Typed, NamesInv, Insertable, Inserts
  <1>2. CASE MainStep
    BY <1>2, MainInv
  <1>3. ASSUME NEW c \in Conns, AcceptConn(c) \/ Working(c) PROVE ListInv'
    BY <1>3, AcceptInv, WorkingInv, InsertInv
  <1>4. ASSUME NEW c \in Conns, Commanded(c) PROVE ListInv'
    BY <1>4, OtherCommandInv, AddNameInv, DelNameInv DEF Commanded
  <1>5. ASSUME NEW t \in Threads, Reload(t) PROVE ListInv'
    BY <1>5, ReloadInv, NextNameInv, InsertNameInv DEF Reload
  <1>6. ASSUME NEW t \in Threads, Signal(t) PROVE ListInv'
    BY <1>6, SignalInv
  <1> QED
    BY <1>1, <1>2, <1>3, <1>4, <1>5, <1>6 DEF Next

LEMMA Invariant == Spec => []IInv
  <1>1. IInv /\ [Next]_vars => IInv'
    BY IndexStep, ListStep DEF IInv
  <1> QED
    BY <1>1, InitInv, PTL DEF Spec

\* The next index of getip is inside the list, over reloads that make it shorter,
\* with any number of sites and threads that accept, reload or are interrupted.
THEOREM IndexInside == Spec => []SiteIndexed
  <1>1. IInv => SiteIndexed
    BY DEF IInv, IndexInv, SiteIndexed
  <1> QED
    BY <1>1, Invariant, PTL

\* Whatever admins and reloads do one after the other, a removed name is not in
\* the list of users until somebody inserts it again.
THEOREM RemovedStaysOut == Spec => []RemovedIsOut
  <1>1. IInv => RemovedIsOut
    BY DEF IInv, ListInv, NamesInv, RemovedIsOut
  <1> QED
    BY <1>1, Invariant, PTL

-----------------------------------------------------------------------------
(* The sessions and conlist *)

MainPlaces == {"accept", "lock", "getip", "take", "new", "push", "create", "relock", "drop"}
ConnPlaces == {None, "run", "walk", "log", "insert", "unlist", "remove", "close", "closing",
               "delete"}

\* What main has put on the list and no thread serves yet
Given == {"create", "relock", "drop"}

\* The object at an address is on the list while a thread serves it or main is
\* about to start one, it is open until Close, and nobody uses an object that
\* was leaked, or the one main is at.
ObjectInv(c) ==
    /\ c \in ToSet(conlist) <=> Serving(c) \/ (tmp = c /\ at[Main] \in Given)
    /\ object[c] = "open" <=>
          \/ Serving(c) \/ at[c] \in {"close", "closing"} \/ c \in leaked
          \/ tmp = c /\ at[Main] \in Given \cup {"push"}
    /\ object[c] = "closed" <=> at[c] = "delete"
    /\ tmp = c \/ c \in leaked => at[c] = None
    /\ ~ (tmp = c /\ c \in leaked)

ConnInv ==
    /\ at[Main] \in MainPlaces /\ \A c \in Conns : at[c] \in ConnPlaces
    /\ tmp = None <=> at[Main] = "accept"
    /\ IsInjective(conlist)
    /\ \A c \in Conns : ObjectInv(c)

\* The variables that Typed does not type
RestTyped ==
    /\ up \in BOOLEAN
    /\ lock \in [Locks -> Threads \cup {Free}]
    /\ tmp \in Conns \cup {None}
    /\ object \in [Conns -> {None, "open", "closed"}]
    /\ conlist \in Seq(Conns)
    /\ it \in Conns \cup {"end"} /\ shown \in Seq(Conns)
    /\ accepts \in 0 .. MaxAccepts /\ commands \in 0 .. MaxCommands /\ signals \in 0 .. MaxSignals
    /\ leaked \subseteq Conns /\ begun \subseteq Conns
    /\ changed \in BOOLEAN

LEMMA FollowingIs ==
    ASSUME conlist \in Seq(Conns), NEW d \in ToSet(conlist)
    PROVE  /\ Following(d) \in Conns \cup {"end"}
           /\ \A i \in 1 .. Len(conlist) : IsInjective(conlist) /\ conlist[i] = d =>
                 Following(d) = IF i = Len(conlist) THEN "end" ELSE conlist[i + 1]
  <1> DEFINE I == {i \in 1 .. Len(conlist) : conlist[i] = d}
             k == Min(I)
  <1>1. I # {} /\ I \subseteq Nat
    BY DEF ToSet
  <1>2. k \in I
    BY <1>1, Smallest, Zenon
  <1>3. Following(d) = IF k = Len(conlist) THEN "end" ELSE conlist[k + 1]
    BY <1>1 DEF Following, SelectInSeq
  <1>4. k \in 1 .. Len(conlist) /\ conlist[k] = d
    BY <1>2
  <1> HIDE DEF k
  <1>5. Following(d) \in Conns \cup {"end"}
    BY <1>3, <1>4
  <1>6. ASSUME NEW i \in 1 .. Len(conlist), IsInjective(conlist), conlist[i] = d PROVE i = k
    BY <1>4, <1>6 DEF IsInjective
  <1> QED
    BY <1>3, <1>5, <1>6

LEMMA WithoutIs ==
    ASSUME conlist \in Seq(Conns), NEW c
    PROVE  /\ Without(c) \in Seq(Conns)
           /\ IsInjective(conlist) =>
                IsInjective(Without(c)) /\ ToSet(Without(c)) = ToSet(conlist) \ {c}
  BY FirstErased DEF Without

LEMMA ObjectsKept ==
    ASSUME ConnInv, at' \in [Threads -> Places],
           UNCHANGED <<tmp, object, conlist, leaked>>,
           at'[Main] \in MainPlaces, \A c \in Conns : at'[c] \in ConnPlaces,
           at'[Main] = "accept" <=> at[Main] = "accept",
           at'[Main] = "push" <=> at[Main] = "push",
           at'[Main] \in Given <=> at[Main] \in Given,
           \A c \in Conns :
              /\ Serving(c)' <=> Serving(c)
              /\ at'[c] \in {"close", "closing"} <=> at[c] \in {"close", "closing"}
              /\ at'[c] = "delete" <=> at[c] = "delete"
    PROVE  ConnInv'
  <1>1. \A c \in Conns : at'[c] = None <=> at[c] = None
    BY DEF ConnInv, ConnPlaces, Serving, None
  <1>2. \A c \in Conns : ObjectInv(c)'
    BY <1>1 DEF ConnInv, ObjectInv
  <1> QED
    BY <1>2 DEF ConnInv

\* main goes on
LEMMA MainMoves ==
    ASSUME Typed, ConnInv, UNCHANGED <<tmp, object, conlist, leaked>>, NEW to,
           at' = [at EXCEPT ![Main] = to],
           \/ /\ at[Main] \in {"lock", "getip", "take", "new"}
              /\ to \in {"lock", "getip", "take", "new"}
           \/ at[Main] \in Given /\ to \in Given
    PROVE  ConnInv'
  <1>1. at'[Main] = to /\ \A c \in Conns : at'[c] = at[c]
    BY Threadnames DEF Typed
  <1>2. at' \in [Threads -> Places]
    BY DEF Typed, Places, Given
  <1> QED
    BY <1>1, <1>2, ObjectsKept DEF ConnInv, MainPlaces, Given, Serving

\* a session goes on
LEMMA SessionMoves ==
    ASSUME Typed, ConnInv, UNCHANGED <<tmp, object, conlist, leaked>>, NEW c \in Conns, NEW to,
           at' = [at EXCEPT ![c] = to],
           \/ /\ at[c] \in {"run", "walk", "log", "insert", "unlist", "remove"}
              /\ to \in {"run", "walk", "log", "insert", "unlist", "remove"}
           \/ at[c] = "close" /\ to = "closing"
    PROVE  ConnInv'
  <1>1. at'[Main] = at[Main] /\ \A d \in Conns : at'[d] = IF d = c THEN to ELSE at[d]
    BY Threadnames DEF Typed
  <1>2. at' \in [Threads -> Places]
    BY DEF Typed, Places
  <1> QED
    BY <1>1, <1>2, ObjectsKept DEF ConnInv, ConnPlaces, Serving, None

LEMMA AcceptConns ==
    ASSUME Typed, RestTyped, ConnInv, NEW c \in Conns, AcceptConn(c) PROVE ConnInv'
  <1>1. /\ at[Main] = "accept" /\ object[c] = None /\ tmp' = c
        /\ at' = [at EXCEPT ![Main] = "lock"] /\ UNCHANGED <<object, conlist, leaked>>
    BY DEF AcceptConn, Step, history
  <1>2. at'[Main] = "lock" /\ \A d \in Conns : at'[d] = at[d]
    BY <1>1, Threadnames DEF Typed
  <1>3. c # None /\ tmp = None
    BY <1>1, ServerAssumption DEF ConnInv
  <1>4. at[c] = None /\ c \notin leaked /\ c \notin ToSet(conlist)
    BY <1>1, <1>3 DEF ConnInv, ObjectInv, ConnPlaces, Serving, None
  <1>5. ASSUME NEW d \in Conns PROVE ObjectInv(d)'
    <2>1. ObjectInv(d) /\ tmp # d
      BY <1>3, ServerAssumption DEF ConnInv
    <2> QED
      BY <1>1, <1>2, <1>4, <2>1 DEF ObjectInv, Serving, Given
  <1> QED
    BY <1>1, <1>2, <1>3, <1>5 DEF ConnInv, MainPlaces

LEMMA NewConns ==
    ASSUME Typed, RestTyped, ConnInv, NewConn PROVE ConnInv'
  <1>1. /\ at[Main] = "new" /\ object' = [object EXCEPT ![tmp] = "open"]
        /\ at' = [at EXCEPT ![Main] = "push"] /\ UNCHANGED <<tmp, conlist, leaked>>
    BY DEF NewConn, Step, history
  <1>2. at'[Main] = "push" /\ \A d \in Conns : at'[d] = at[d]
    BY <1>1, Threadnames DEF Typed
  <1>3. tmp \in Conns
    BY <1>1 DEF ConnInv, RestTyped
  <1>4. \A d \in Conns : object'[d] = IF d = tmp THEN "open" ELSE object[d]
    BY <1>1 DEF RestTyped
  <1>5. ASSUME NEW d \in Conns PROVE ObjectInv(d)'
    <2>1. ObjectInv(d)
      BY DEF ConnInv
    <2>2. CASE d = tmp
      BY <1>1, <1>2, <1>4, <2>1, <2>2 DEF ObjectInv, Serving, Given, None
    <2>3. CASE d # tmp
      BY <1>1, <1>2, <1>4, <2>1, <2>3 DEF ObjectInv, Serving
    <2> QED
      BY <2>2, <2>3
  <1> QED
    BY <1>1, <1>2, <1>5 DEF ConnInv, MainPlaces

LEMMA PushConns ==
    ASSUME Typed, RestTyped, ConnInv, PushConn PROVE ConnInv'
  <1>1. /\ at[Main] = "push" /\ conlist' = Append(conlist, tmp)
        /\ at' = [at EXCEPT ![Main] = "create"] /\ UNCHANGED <<tmp, object, leaked>>
    BY DEF PushConn, Step, history
  <1>2. at'[Main] = "create" /\ \A d \in Conns : at'[d] = at[d]
    BY <1>1, Threadnames DEF Typed
  <1>3. tmp \in Conns
    BY <1>1 DEF ConnInv, RestTyped
  <1>4. tmp \notin ToSet(conlist)
    BY <1>1, <1>3 DEF ConnInv, ObjectInv, Serving, Given, None
  <1>5. ToSet(conlist') = ToSet(conlist) \cup {tmp} /\ IsInjective(conlist')
    BY <1>1, <1>3, <1>4, Appended DEF RestTyped, ConnInv
  <1>6. ASSUME NEW d \in Conns PROVE ObjectInv(d)'
    <2>1. ObjectInv(d)
      BY DEF ConnInv
    <2> QED
      BY <1>1, <1>2, <1>5, <2>1 DEF ObjectInv, Serving, Given
  <1> QED
    BY <1>1, <1>2, <1>5, <1>6 DEF ConnInv, MainPlaces

LEMMA CreateConns ==
    ASSUME Typed, RestTyped, ConnInv, CreateConn PROVE ConnInv'
  <1>1. at[Main] = "create" /\ UNCHANGED <<object, conlist, leaked>>
    BY DEF CreateConn, history
  <1>2. tmp \in Conns /\ tmp # Main
    BY <1>1, Threadnames DEF ConnInv, RestTyped
  <1>3. CASE NotCreated
    BY <1>1, <1>3, MainMoves DEF NotCreated, Given
  <1>4. CASE at' = [at EXCEPT ![Main] = "accept", ![tmp] = "run"] /\ tmp' = None
    <2>1. at'[Main] = "accept" /\ \A d \in Conns : at'[d] = IF d = tmp THEN "run" ELSE at[d]
      BY <1>2, <1>4, Threadnames DEF Typed
    <2>2. ASSUME NEW d \in Conns PROVE ObjectInv(d)'
      <3>1. ObjectInv(d) /\ d # None
        BY ServerAssumption DEF ConnInv
      <3>2. CASE d = tmp
        <4>1. /\ d \in ToSet(conlist) /\ object[d] = "open" /\ d \notin leaked
              /\ at'[d] = "run" /\ tmp' # d
          BY <1>1, <1>4, <2>1, <3>1, <3>2 DEF ObjectInv, Given
        <4> QED
          BY <1>1, <4>1 DEF ObjectInv, Serving, None
      <3>3. CASE d # tmp
        BY <1>1, <1>4, <2>1, <3>1, <3>3 DEF ObjectInv, Serving
      <3> QED
        BY <3>2, <3>3
    <2> QED
      BY <1>1, <1>4, <2>1, <2>2 DEF ConnInv, MainPlaces, ConnPlaces
  <1> QED
    BY <1>3, <1>4 DEF CreateConn

LEMMA DropConns ==
    ASSUME Typed, RestTyped, ConnInv, DropConn PROVE ConnInv'
  <1>1. /\ at[Main] = "drop" /\ conlist' = Without(tmp) /\ leaked' = leaked \cup {tmp}
        /\ tmp' = None /\ at' = [at EXCEPT ![Main] = "accept"] /\ object' = object
    BY DEF DropConn, Step
  <1>2. at'[Main] = "accept" /\ \A d \in Conns : at'[d] = at[d]
    BY <1>1, Threadnames DEF Typed
  <1>3. ToSet(conlist') = ToSet(conlist) \ {tmp} /\ IsInjective(conlist')
    BY <1>1, WithoutIs DEF RestTyped, ConnInv
  <1>4. ASSUME NEW d \in Conns PROVE ObjectInv(d)'
    <2>1. ObjectInv(d) /\ d # None
      BY ServerAssumption DEF ConnInv
    <2>2. CASE d = tmp
      BY <1>1, <1>2, <1>3, <2>1, <2>2 DEF ObjectInv, Serving, Given, None
    <2>3. CASE d # tmp
      BY <1>1, <1>2, <1>3, <2>1, <2>3 DEF ObjectInv, Serving
    <2> QED
      BY <2>2, <2>3
  <1> QED
    BY <1>1, <1>2, <1>3, <1>4 DEF ConnInv, MainPlaces

LEMMA RemoveConns ==
    ASSUME Typed, RestTyped, ConnInv, NEW c \in Conns, RemoveConn(c) PROVE ConnInv'
  <1>1. /\ at[c] = "remove" /\ conlist' = Without(c)
        /\ at' = [at EXCEPT ![c] = "close"] /\ UNCHANGED <<tmp, object, leaked>>
    BY DEF RemoveConn, Step
  <1>2. at'[Main] = at[Main] /\ \A d \in Conns : at'[d] = IF d = c THEN "close" ELSE at[d]
    BY <1>1, Threadnames DEF Typed
  <1>3. ToSet(conlist') = ToSet(conlist) \ {c} /\ IsInjective(conlist')
    BY <1>1, WithoutIs DEF RestTyped, ConnInv
  <1>4. ASSUME NEW d \in Conns PROVE ObjectInv(d)'
    <2>1. ObjectInv(d)
      BY DEF ConnInv
    <2>2. CASE d = c
      BY <1>1, <1>2, <1>3, <2>1, <2>2 DEF ObjectInv, Serving, None
    <2>3. CASE d # c
      BY <1>1, <1>2, <1>3, <2>1, <2>3 DEF ObjectInv, Serving
    <2> QED
      BY <2>2, <2>3
  <1> QED
    BY <1>1, <1>2, <1>3, <1>4 DEF ConnInv, ConnPlaces

LEMMA CloseConns ==
    ASSUME Typed, RestTyped, ConnInv, NEW c \in Conns, CloseConn(c) \/ DeleteConn(c) PROVE ConnInv'
  <1>1. UNCHANGED <<tmp, conlist, leaked>>
    BY DEF CloseConn, DeleteConn, history
  <1>2. \/ /\ at[c] = "closing" /\ at' = [at EXCEPT ![c] = "delete"]
           /\ object' = [object EXCEPT ![c] = "closed"]
        \/ /\ at[c] = "delete" /\ at' = [at EXCEPT ![c] = None]
           /\ object' = [object EXCEPT ![c] = None]
    BY DEF CloseConn, DeleteConn, Step
  <1>3. at'[Main] = at[Main] /\ \A d \in Conns : d # c => at'[d] = at[d] /\ object'[d] = object[d]
    BY <1>2, Threadnames DEF Typed, RestTyped
  <1>4. \/ at[c] = "closing" /\ at'[c] = "delete" /\ object'[c] = "closed"
        \/ at[c] = "delete" /\ at'[c] = None /\ object'[c] = None
    BY <1>2, Threadnames DEF Typed, RestTyped
  <1>5. ASSUME NEW d \in Conns PROVE ObjectInv(d)'
    <2>1. ObjectInv(d)
      BY DEF ConnInv
    <2>2. CASE d = c
      BY <1>1, <1>3, <1>4, <2>1, <2>2 DEF ObjectInv, Serving, None
    <2>3. CASE d # c
      BY <1>1, <1>3, <2>1, <2>3 DEF ObjectInv, Serving
    <2> QED
      BY <2>2, <2>3
  <1>6. \A d \in Conns : at'[d] \in ConnPlaces
    BY <1>3, <1>4 DEF ConnInv, ConnPlaces
  <1> QED
    BY <1>1, <1>3, <1>5, <1>6 DEF ConnInv

\* What a session goes on with, and its commands
LEMMA WorkingConns ==
    ASSUME Typed, RestTyped, ConnInv, NEW c \in Conns, Working(c) \/ Commanded(c) PROVE ConnInv'
  <1>1. CASE InfoStep(c) \/ InfoEnd(c) \/ Log(c) \/ Insert(c)
    <2>1. /\ UNCHANGED <<tmp, object, conlist, leaked>>
          /\ \E to \in {"run", "walk", "log"} : at' = [at EXCEPT ![c] = to]
          /\ at[c] \in {"run", "walk", "log", "insert"}
      BY <1>1 DEF InfoStep, InfoEnd, Log, Command, Insert, Step, history
    <2> QED
      BY <2>1, SessionMoves
  <1>2. CASE LockUnlist(c)
    <2>1. /\ UNCHANGED <<tmp, object, conlist, leaked>>
          /\ at[c] = "unlist" /\ at' = [at EXCEPT ![c] = "remove"]
      BY <1>2 DEF LockUnlist, Step, history
    <2> QED
      BY <2>1, SessionMoves
  <1>3. CASE LockClose(c)
    <2>1. /\ UNCHANGED <<tmp, object, conlist, leaked>>
          /\ at[c] = "close" /\ at' = [at EXCEPT ![c] = "closing"]
      BY <1>3 DEF LockClose, Step, history
    <2> QED
      BY <2>1, SessionMoves
  <1>4. CASE RemoveConn(c) \/ CloseConn(c) \/ DeleteConn(c)
    BY <1>4, RemoveConns, CloseConns
  <1>5. CASE InfoLock(c) \/ Kill(c) \/ ReloadCommand(c) \/ Leave(c)
    <2>1. /\ UNCHANGED <<tmp, object, conlist, leaked>> /\ at[c] = "run"
          /\ \E to \in {"run", "walk", "unlist"} : at' = [at EXCEPT ![c] = to]
      BY <1>5 DEF InfoLock, Kill, ReloadCommand, Leave, Command, Step, history
    <2> QED
      BY <2>1, SessionMoves
  <1>6. ASSUME NEW n \in Names, AddName(c, n) \/ DelName(c, n) PROVE ConnInv'
    <2>1. /\ UNCHANGED <<tmp, object, conlist, leaked>> /\ at[c] = "run"
          /\ \E to \in {"run", "insert"} : at' = [at EXCEPT ![c] = to]
      BY <1>6 DEF AddName, DelName, Command, Step
    <2> QED
      BY <2>1, SessionMoves
  <1> QED
    BY <1>1, <1>2, <1>3, <1>4, <1>5, <1>6 DEF Working, Commanded

LEMMA MainConns ==
    ASSUME Typed, RestTyped, ConnInv, MainStep PROVE ConnInv'
  <1>1. CASE LockList \/ LockSites \/ TakeSite \/ LockAgain
    <2>1. /\ UNCHANGED <<tmp, object, conlist, leaked>>
          /\ \/ at[Main] = "lock" /\ at' = [at EXCEPT ![Main] = "getip"]
             \/ at[Main] = "getip" /\ at' = [at EXCEPT ![Main] = "take"]
             \/ at[Main] = "take" /\ at' = [at EXCEPT ![Main] = "new"]
             \/ at[Main] = "relock" /\ at' = [at EXCEPT ![Main] = "drop"]
      BY <1>1 DEF LockList, LockSites, TakeSite, LockAgain, Step, history
    <2> QED
      BY <2>1, MainMoves DEF Given
  <1>2. CASE NewConn \/ PushConn \/ CreateConn \/ DropConn
    BY <1>2, NewConns, PushConns, CreateConns, DropConns
  <1> QED
    BY <1>1, <1>2 DEF MainStep

LEMMA ReloadConns ==
    ASSUME Typed, ConnInv, NEW t \in Threads, Reload(t) \/ Signal(t) PROVE ConnInv'
  <1>1. UNCHANGED <<at, tmp, object, conlist, leaked>>
    BY DEF Reload, ReloadLog, ReadConf, LockReadlist, Readlist, NextName, InsertName, Signal,
           history
  <1> QED
    BY <1>1, ObjectsKept DEF ConnInv, Serving, Typed

LEMMA ConnStep ==
    ASSUME Typed, RestTyped, ConnInv, [Next]_vars PROVE ConnInv'
  <1>1. CASE UNCHANGED vars
    BY <1>1, ObjectsKept DEF vars, threads, history, ConnInv, Serving, Typed
  <1> QED
    BY <1>1, AcceptConns, WorkingConns, MainConns, ReloadConns DEF Next

\* The types that are left
LEMMA MainRest ==
    ASSUME Typed, RestTyped, ConnInv, MainStep PROVE RestTyped'
  <1>1. CASE LockList \/ LockSites \/ LockAgain
    BY <1>1, Threadnames DEF LockList, LockSites, LockAgain, Acquire, RestTyped, walks, bounds,
                             history, Step, Quiet, Locks
  <1>2. CASE TakeSite
    <2>1. up' \in BOOLEAN
      <3>1. (counter < sites) \in BOOLEAN
        BY DEF Typed
      <3> QED
        BY <1>2, <3>1, Zenon DEF TakeSite
    <2> QED
      BY <1>2, <2>1 DEF TakeSite, Release, RestTyped, walks, bounds, history
  <1>3. CASE NewConn
    BY <1>3 DEF NewConn, RestTyped, walks, bounds, history
  <1>4. CASE PushConn
    <2>1. tmp \in Conns
      BY <1>4 DEF PushConn, Step, ConnInv, RestTyped
    <2>2. conlist' \in Seq(Conns)
      BY <1>4, <2>1, Appended DEF PushConn, RestTyped
    <2> QED
      BY <1>4, <2>2 DEF PushConn, Release, RestTyped, walks, bounds, history
  <1>5. CASE CreateConn
    BY <1>5 DEF CreateConn, NotCreated, RestTyped, walks, bounds, history
  <1>6. CASE DropConn
    <2>1. tmp \in Conns
      BY <1>6 DEF DropConn, Step, ConnInv, RestTyped
    <2>2. conlist' \in Seq(Conns)
      BY <1>6, WithoutIs DEF DropConn, RestTyped
    <2> QED
      BY <1>6, <2>1, <2>2 DEF DropConn, Release, RestTyped, walks, bounds, Walking
  <1> QED
    BY <1>1, <1>2, <1>3, <1>4, <1>5, <1>6 DEF MainStep

LEMMA CommandBound ==
    ASSUME RestTyped, NEW c, NEW to, Command(c, to) PROVE commands' \in 0 .. MaxCommands
  BY ServerAssumption DEF RestTyped, Command

LEMMA WorkingRest ==
    ASSUME Typed, RestTyped, ConnInv, NEW c \in Conns, Working(c) \/ Commanded(c)
    PROVE  RestTyped'
  <1>1. CASE InfoStep(c)
    <2>1. it' \in Conns \cup {"end"} /\ up' \in BOOLEAN
      <3>1. CASE it \in ToSet(conlist)
        BY <1>1, <3>1, FollowingIs DEF InfoStep, RestTyped
      <3>2. CASE it \notin ToSet(conlist)
        <4>1. ToSet(conlist) \subseteq Conns
          BY DEF RestTyped, ToSet
        <4> QED
          BY <1>1, <3>2, <4>1 DEF InfoStep
      <3> QED
        BY <3>1, <3>2
    <2>2. shown' \in Seq(Conns)
      BY <1>1, Appended DEF InfoStep, RestTyped
    <2> QED
      BY <1>1, <2>1, <2>2 DEF InfoStep, RestTyped, bounds, history
  <1>2. CASE InfoEnd(c)
    <2>1. shown' = <<>> /\ <<>> \in Seq(Conns)
      BY <1>2 DEF InfoEnd
    <2>2. lock' \in [Locks -> Threads \cup {Free}]
      BY <1>2 DEF InfoEnd, Release, RestTyped
    <2> QED
      BY <1>2, <2>1, <2>2 DEF InfoEnd, RestTyped, bounds
  <1>3. CASE Log(c)
    BY <1>3, Threadnames, CommandBound
    DEF Log, Acquire, Release, RestTyped, walks, history, Locks
  <1>4. CASE Insert(c)
    BY <1>4 DEF Insert, RestTyped, walks, bounds, history
  <1>5. CASE LockUnlist(c) \/ LockClose(c)
    BY <1>5, Threadnames DEF LockUnlist, LockClose, Acquire, RestTyped, walks, bounds, history,
           Locks
  <1>6. CASE RemoveConn(c)
    <2>1. conlist' \in Seq(Conns)
      BY <1>6, WithoutIs DEF RemoveConn, RestTyped
    <2> QED
      BY <1>6, <2>1 DEF RemoveConn, RemoveUnlock, Release, RestTyped, walks, bounds, Walking
  <1>7. CASE CloseConn(c)
    BY <1>7 DEF CloseConn, Release, RestTyped, walks, bounds, history
  <1>8. CASE DeleteConn(c)
    BY <1>8 DEF DeleteConn, RestTyped, walks, bounds, history
  <1>9. CASE InfoLock(c)
    <2>1. it' \in Conns \cup {"end"}
      <3>1. conlist \in Seq(Conns)
        BY DEF RestTyped
      <3>2. conlist # <<>> => conlist[1] \in Conns
        BY <3>1
      <3> QED
        BY <1>9, <3>2 DEF InfoLock
    <2>2. begun' \subseteq Conns
      BY <1>9 DEF InfoLock, RestTyped, ToSet
    <2>3. commands' \in 0 .. MaxCommands
      BY <1>9, CommandBound DEF InfoLock
    <2>4. lock' \in [Locks -> Threads \cup {Free}]
      BY <1>9, Threadnames DEF InfoLock, Acquire, RestTyped, Locks
    <2> QED
      BY <1>9, <2>1, <2>2, <2>3, <2>4 DEF InfoLock, Command, Step, Quiet, RestTyped
  <1>10. CASE Kill(c) \/ ReloadCommand(c)
    BY <1>10, CommandBound DEF Kill, ReloadCommand, RestTyped, walks, history
  <1>11. CASE Leave(c)
    BY <1>11 DEF Leave, RestTyped, walks, bounds, history
  <1>12. ASSUME NEW n \in Names, AddName(c, n) \/ DelName(c, n) PROVE RestTyped'
    BY <1>12, CommandBound DEF AddName, DelName, RestTyped, walks
  <1> QED
    BY <1>1, <1>2, <1>3, <1>4, <1>5, <1>6, <1>7, <1>8, <1>9, <1>10, <1>11, <1>12
    DEF Working, Commanded

LEMMA ReloadRest ==
    ASSUME RestTyped, NEW t \in Threads, Reload(t) \/ Signal(t) PROVE RestTyped'
  <1>1. CASE Signal(t)
    BY <1>1, ServerAssumption DEF Signal, RestTyped, walks, history
  <1>2. CASE ReloadLog(t) \/ ReadConf(t)
    BY <1>2 DEF ReloadLog, ReadConf, RestTyped, walks, bounds, history
  <1>3. CASE LockReadlist(t)
    BY <1>3 DEF LockReadlist, Acquire, RestTyped, walks, bounds, history
  <1>4. CASE Readlist(t)
    BY <1>4 DEF Readlist, Release, RestTyped, walks, bounds, history
  <1>5. CASE NextName(t)
    BY <1>5 DEF NextName, RestTyped, walks, bounds
  <1>6. CASE InsertName(t)
    BY <1>6 DEF InsertName, RestTyped, walks, bounds, history
  <1> QED
    BY <1>1, <1>2, <1>3, <1>4, <1>5, <1>6 DEF Reload

LEMMA RestStep ==
    ASSUME Typed, RestTyped, ConnInv, [Next]_vars PROVE RestTyped'
  <1>1. CASE UNCHANGED vars
    BY <1>1 DEF vars, walks, bounds, history, RestTyped
  <1>2. ASSUME NEW c \in Conns, AcceptConn(c) PROVE RestTyped'
    BY <1>2, ServerAssumption DEF AcceptConn, RestTyped, walks, history
  <1> QED
    BY <1>1, <1>2, MainRest, WorkingRest, ReloadRest DEF Next

-----------------------------------------------------------------------------
(* SITE info *)

\* One walk at a time.  As long as nothing left the list it has shown the list up
\* to the iterator, and all of those that were there when it began are still on it.
Walked ==
    /\ begun \subseteq ToSet(conlist)
    /\ Len(shown) <= Len(conlist) /\ \A i \in 1 .. Len(shown) : shown[i] = conlist[i]
    /\ it = "end" => begun \subseteq ToSet(shown)
    /\ it # "end" => Len(shown) < Len(conlist) /\ it = conlist[Len(shown) + 1]

WalkInv ==
    /\ \A c \in Conns : at[c] = "walk" => lock["globals"] = c
    /\ ~Walking => shown = <<>>
    /\ Walking /\ ~changed => Walked

LEMMA WalkKept ==
    ASSUME WalkInv, UNCHANGED <<conlist, it, shown, begun, changed>>,
           lock'["globals"] = lock["globals"],
           \A c \in Conns : at'[c] = "walk" <=> at[c] = "walk"
    PROVE  WalkInv'
  BY DEF WalkInv, Walking, Walked

\* Something leaves the list.
LEMMA WalkChanged ==
    ASSUME WalkInv, shown' = shown, changed' = Walking, lock'["globals"] = lock["globals"],
           \A c \in Conns : at'[c] = "walk" <=> at[c] = "walk"
    PROVE  WalkInv'
  <1>1. Walking' <=> Walking
    BY DEF Walking
  <1>2. Walking => changed'
    OBVIOUS
  <1> QED
    BY <1>1, <1>2 DEF WalkInv

LEMMA GlobalsKept ==
    ASSUME RestTyped
    PROVE  /\ \A t, l : l # "globals" /\ Acquire(l, t) => lock'["globals"] = lock["globals"]
           /\ \A l : l # "globals" /\ Release(l) => lock'["globals"] = lock["globals"]
  BY DEF RestTyped, Locks, Acquire, Release

LEMMA MainWalks ==
    ASSUME Typed, RestTyped, ConnInv, WalkInv, MainStep PROVE WalkInv'
  <1>1. CASE LockList \/ LockSites \/ TakeSite \/ NewConn \/ LockAgain
    <2>1. \A c \in Conns : at'[c] = at[c]
      BY <1>1, Threadnames DEF LockList, LockSites, TakeSite, NewConn, LockAgain, Step, Typed
    <2>2. UNCHANGED <<conlist, it, shown, begun, changed>>
      BY <1>1 DEF LockList, LockSites, TakeSite, NewConn, LockAgain, walks, history
    <2>3. lock'["globals"] = lock["globals"]
      BY <1>1, GlobalsKept DEF LockList, LockSites, TakeSite, NewConn, LockAgain
    <2> QED
      BY <2>1, <2>2, <2>3, WalkKept
  <1>2. CASE CreateConn
    <2>1. UNCHANGED <<conlist, it, shown, begun, changed, lock>>
      BY <1>2 DEF CreateConn, walks, history
    <2>2. at[Main] = "create" /\ tmp \in Conns
      BY <1>2 DEF CreateConn, ConnInv, RestTyped
    <2>3. at[tmp] = None
      BY <2>2 DEF ConnInv, ObjectInv
    <2>4. \A c \in Conns : at'[c] = "walk" <=> at[c] = "walk"
      BY <1>2, <2>2, <2>3, Threadnames DEF CreateConn, NotCreated, Typed, None
    <2> QED
      BY <2>1, <2>4, WalkKept
  <1>3. CASE DropConn
    <2>1. \A c \in Conns : at'[c] = at[c]
      BY <1>3, Threadnames DEF DropConn, Step, Typed
    <2> QED
      BY <1>3, <2>1, GlobalsKept, WalkChanged DEF DropConn, walks
  <1>4. CASE PushConn
    <2>1. /\ tmp \in Conns /\ conlist' = Append(conlist, tmp) /\ conlist \in Seq(Conns)
          /\ UNCHANGED <<it, shown, begun, changed>>
      BY <1>4 DEF PushConn, Step, ConnInv, RestTyped, walks, history
    <2>2. lock'["globals"] = lock["globals"] /\ \A c \in Conns : at'[c] = at[c]
      BY <1>4, GlobalsKept, Threadnames DEF PushConn, Step, Typed
    <2>3. ToSet(conlist') = ToSet(conlist) \cup {tmp}
      BY <2>1, Appended
    <2>4. /\ Len(conlist') = Len(conlist) + 1 /\ Len(conlist) \in Nat
          /\ \A i \in 1 .. Len(conlist) : conlist'[i] = conlist[i]
      BY <2>1
    <2>5. Len(shown) \in Nat
      BY DEF RestTyped
    <2>6. Walked => Walked'
      BY <2>1, <2>3, <2>4, <2>5 DEF Walked
    <2>7. Walking' <=> Walking
      BY <2>2 DEF Walking
    <2> QED
      BY <2>1, <2>2, <2>6, <2>7 DEF WalkInv
  <1> QED
    BY <1>1, <1>2, <1>3, <1>4 DEF MainStep

\* A walk begins at the first element, or at the end of an empty list.
LEMMA InfoBegins ==
    ASSUME Typed, RestTyped, WalkInv, NEW c \in Conns, InfoLock(c) PROVE WalkInv'
  <1>1. /\ lock["globals"] = Free /\ lock' = [lock EXCEPT !["globals"] = c]
        /\ at' = [at EXCEPT ![c] = "walk"] /\ UNCHANGED <<conlist, shown, changed>>
        /\ it' = IF conlist = <<>> THEN "end" ELSE conlist[1]
        /\ begun' = ToSet(conlist)
    BY DEF InfoLock, Command, Step, Acquire
  <1>2. \A d \in Conns : at[d] # "walk"
    BY <1>1, ServerAssumption DEF WalkInv
  <1>3. \A d \in Conns : at'[d] = "walk" => d = c /\ lock'["globals"] = d
    BY <1>1, <1>2, Threadnames DEF Typed, RestTyped, Locks
  <1>4. shown = <<>> /\ Walking'
    <2>1. at'[c] = "walk"
      BY <1>1, Threadnames DEF Typed
    <2> QED
      BY <1>2, <2>1 DEF WalkInv, Walking
  <1>5. Walked'
    <2>1. conlist \in Seq(Conns) /\ Len(shown) = 0
      BY <1>4 DEF RestTyped
    <2>2. CASE conlist = <<>>
      <3>1. ToSet(conlist) = {}
        BY <2>2 DEF ToSet
      <3> QED
        BY <1>1, <2>1, <2>2, <3>1 DEF Walked
    <2>3. CASE conlist # <<>>
      <3>1. Len(conlist) \in Nat /\ Len(conlist) > 0 /\ conlist[1] \in Conns /\ "end" \notin Conns
        BY <2>1, <2>3, ServerAssumption
      <3> QED
        BY <1>1, <2>1, <2>3, <3>1 DEF Walked
    <2> QED
      BY <2>2, <2>3
  <1> QED
    BY <1>3, <1>4, <1>5 DEF WalkInv

LEMMA InfoGoesOn ==
    ASSUME Typed, RestTyped, ConnInv, WalkInv, NEW c \in Conns, InfoStep(c) PROVE WalkInv'
  <1>1. /\ it # "end" /\ at[c] = "walk" /\ at' = [at EXCEPT ![c] = "walk"]
        /\ shown' = Append(shown, it) /\ UNCHANGED <<lock, conlist, begun, changed>>
        /\ it \in ToSet(conlist) => it' = Following(it)
    BY DEF InfoStep, Step, history
  <1>2. at' = at /\ Walking /\ Walking'
    BY <1>1, Threadnames DEF Typed, Walking
  <1>3. ASSUME ~changed PROVE Walked'
    <2> DEFINE m == Len(shown)
               n == Len(conlist)
    <2>1. /\ m \in Nat /\ n \in Nat
          /\ shown \in Seq(Conns) /\ conlist \in Seq(Conns) /\ it \in Conns
      BY <1>1 DEF RestTyped
    <2>2. /\ begun \subseteq ToSet(conlist) /\ m < n /\ it = conlist[m + 1]
          /\ \A i \in 1 .. m : shown[i] = conlist[i]
      BY <1>1, <1>2, <1>3 DEF WalkInv, Walked
    <2>3. it \in ToSet(conlist)
      BY <2>1, <2>2 DEF ToSet
    <2>4. it' = IF m + 1 = n THEN "end" ELSE conlist[m + 1 + 1]
      BY <1>1, <2>1, <2>2, <2>3, FollowingIs DEF ConnInv
    <2>5. /\ Len(shown') = m + 1 /\ shown' \in Seq(Conns)
          /\ \A i \in 1 .. m + 1 : shown'[i] = IF i = m + 1 THEN it ELSE shown[i]
      BY <1>1, <2>1
    <2>6. \A i \in 1 .. m + 1 : shown'[i] = conlist[i]
      BY <2>1, <2>2, <2>5
    <2>7. CASE m + 1 = n
      <3>1. ToSet(conlist) \subseteq ToSet(shown')
        BY <2>1, <2>5, <2>6, <2>7 DEF ToSet
      <3>2. it' = "end"
        BY <2>4, <2>7
      <3> QED
        BY <1>1, <2>1, <2>2, <2>5, <2>6, <2>7, <3>1, <3>2 DEF Walked
    <2>8. CASE m + 1 # n
      <3>1. conlist[m + 1 + 1] \in Conns /\ "end" \notin Conns
        BY <2>1, <2>2, <2>8, ServerAssumption
      <3>2. it' = conlist[m + 1 + 1] /\ it' # "end"
        BY <2>4, <2>8, <3>1
      <3> QED
        BY <1>1, <2>1, <2>2, <2>5, <2>6, <2>8, <3>2 DEF Walked
    <2> QED
      BY <2>7, <2>8
  <1> QED
    BY <1>1, <1>2, <1>3 DEF WalkInv

LEMMA InfoEnds ==
    ASSUME Typed, RestTyped, WalkInv, NEW c \in Conns, InfoEnd(c) PROVE WalkInv'
  <1>1. /\ at[c] = "walk" /\ at' = [at EXCEPT ![c] = "run"] /\ shown' = <<>>
    BY DEF InfoEnd, Step
  <1>2. \A d \in Conns : at'[d] # "walk"
    BY <1>1, Threadnames DEF Typed, WalkInv
  <1> QED
    BY <1>1, <1>2 DEF WalkInv, Walking

LEMMA WorkingWalks ==
    ASSUME Typed, RestTyped, ConnInv, WalkInv, NEW c \in Conns, Working(c) \/ Commanded(c)
    PROVE  WalkInv'
  <1>1. CASE Log(c) \/ Insert(c) \/ LockUnlist(c) \/ LockClose(c) \/ CloseConn(c) \/ DeleteConn(c)
    <2>1. \A d \in Conns : at'[d] = "walk" <=> at[d] = "walk"
      BY <1>1, Threadnames
      DEF Log, Command, Insert, LockUnlist, LockClose, CloseConn, DeleteConn, Step, Typed, None
    <2>2. UNCHANGED <<conlist, it, shown, begun, changed>>
      BY <1>1 DEF Log, Insert, LockUnlist, LockClose, CloseConn, DeleteConn, walks, history
    <2>3. lock'["globals"] = lock["globals"]
      BY <1>1, GlobalsKept DEF Log, Insert, LockUnlist, LockClose, CloseConn, DeleteConn
    <2> QED
      BY <2>1, <2>2, <2>3, WalkKept
  <1>2. CASE RemoveConn(c)
    <2>1. \A d \in Conns : at'[d] = "walk" <=> at[d] = "walk"
      BY <1>2, Threadnames DEF RemoveConn, Step, Typed
    <2> QED
      BY <1>2, <2>1, GlobalsKept, WalkChanged DEF RemoveConn, RemoveUnlock, walks
  <1>3. CASE Kill(c) \/ ReloadCommand(c) \/ Leave(c)
    <2>1. \A d \in Conns : at'[d] = "walk" <=> at[d] = "walk"
      BY <1>3, Threadnames DEF Kill, ReloadCommand, Leave, Command, Step, Typed
    <2>2. UNCHANGED <<lock, conlist, it, shown, begun, changed>>
      BY <1>3 DEF Kill, ReloadCommand, Leave, walks, history
    <2> QED
      BY <2>1, <2>2, WalkKept
  <1>4. ASSUME NEW n \in Names, AddName(c, n) \/ DelName(c, n) PROVE WalkInv'
    <2>1. \A d \in Conns : at'[d] = "walk" <=> at[d] = "walk"
      BY <1>4, Threadnames DEF AddName, DelName, Command, Step, Typed
    <2>2. UNCHANGED <<lock, conlist, it, shown, begun, changed>>
      BY <1>4 DEF AddName, DelName, walks
    <2> QED
      BY <2>1, <2>2, WalkKept
  <1> QED
    BY <1>1, <1>2, <1>3, <1>4, InfoBegins, InfoGoesOn, InfoEnds DEF Working, Commanded

LEMMA ReloadWalks ==
    ASSUME RestTyped, WalkInv, NEW t \in Threads, Reload(t) \/ Signal(t) PROVE WalkInv'
  <1>1. UNCHANGED <<at, conlist, it, shown, begun, changed>>
    BY DEF Reload, ReloadLog, ReadConf, LockReadlist, Readlist, NextName, InsertName, Signal,
           walks, history
  <1>2. lock'["globals"] = lock["globals"]
    BY GlobalsKept
    DEF Reload, ReloadLog, ReadConf, LockReadlist, Readlist, NextName, InsertName, Signal
  <1> QED
    BY <1>1, <1>2, WalkKept

LEMMA WalkStep ==
    ASSUME Typed, RestTyped, ConnInv, WalkInv, [Next]_vars PROVE WalkInv'
  <1>1. CASE UNCHANGED vars
    BY <1>1, WalkKept DEF vars, threads, walks, history
  <1>2. ASSUME NEW c \in Conns, AcceptConn(c) PROVE WalkInv'
    <2>1. UNCHANGED <<lock, conlist, it, shown, begun, changed>>
      BY <1>2 DEF AcceptConn, walks, history
    <2>2. \A d \in Conns : at'[d] = at[d]
      BY <1>2, Threadnames DEF AcceptConn, Step, Typed
    <2> QED
      BY <2>1, <2>2, WalkKept
  <1> QED
    BY <1>1, <1>2, MainWalks, WorkingWalks, ReloadWalks DEF Next

-----------------------------------------------------------------------------
SessionInv == ListInv /\ RestTyped /\ ConnInv /\ WalkInv

LEMMA SessionInit == Init => SessionInv
  <1> SUFFICES ASSUME Init PROVE SessionInv
    OBVIOUS
  <1>1. ListInv
    BY InitInv DEF IInv
  <1>2. /\ at[Main] = "accept" /\ \A c \in Conns : at[c] = None
        /\ tmp = None /\ conlist = <<>> /\ shown = <<>> /\ it = "end" /\ leaked = {} /\ begun = {}
        /\ \A c \in Conns : object[c] = None
    BY Threadnames DEF Init
  <1>3. RestTyped
    <2>1. lock \in [Locks -> Threads \cup {Free}]
      BY DEF Init
    <2>2. object \in [Conns -> {None, "open", "closed"}]
      BY DEF Init, None
    <2>3. conlist \in Seq(Conns) /\ shown \in Seq(Conns)
      BY <1>2
    <2>4. up \in BOOLEAN /\ changed \in BOOLEAN
      BY Zenon DEF Init
    <2>5. /\ accepts \in 0 .. MaxAccepts /\ commands \in 0 .. MaxCommands
          /\ signals \in 0 .. MaxSignals
      BY ServerAssumption DEF Init
    <2> QED
      BY <1>2, <2>1, <2>2, <2>3, <2>4, <2>5 DEF RestTyped
  <1>4. ToSet(conlist) = {} /\ IsInjective(conlist)
    BY <1>2 DEF ToSet, IsInjective
  <1>5. ConnInv
    <2>1. \A c \in Conns : c # None
      BY ServerAssumption
    <2> QED
      BY <1>2, <1>4, <2>1 DEF ConnInv, ObjectInv, Serving, MainPlaces, ConnPlaces, Given, None
  <1>6. WalkInv
    BY <1>2 DEF WalkInv, Walking, None
  <1> QED
    BY <1>1, <1>3, <1>5, <1>6 DEF SessionInv

LEMMA SessionInvariant == Spec => []SessionInv
  <1>1. SessionInv /\ [Next]_vars => SessionInv'
    BY ListStep, RestStep, ConnStep, WalkStep DEF SessionInv, ListInv
  <1> QED
    BY <1>1, SessionInit, PTL DEF Spec

\* conlist holds every session once, from before its thread starts until its
\* destructor took it off, and nothing that does not exist; an open socket
\* belongs to somebody, unless pthread_create failed.  And all variables keep
\* their types.
THEOREM SessionsListed == Spec => []SessionListed
  <1>1. SessionInv => TypeOK
    BY DEF SessionInv, ListInv, Typed, RestTyped, TypeOK, Places, Reloads
  <1>2. ASSUME SessionInv, NEW c \in Conns
        PROVE  /\ object[c] = "open" => at[c] # None \/ c \in leaked \/ tmp = c
               /\ c \in ToSet(conlist) => object[c] = "open"
               /\ Serving(c) => c \in ToSet(conlist)
    BY <1>2 DEF SessionInv, ConnInv, ObjectInv, Serving, Given, None
  <1>3. ASSUME SessionInv, NEW c \in Conns
        PROVE  Cardinality({i \in DOMAIN conlist : conlist[i] = c}) <= 1
    <2> DEFINE I == {i \in DOMAIN conlist : conlist[i] = c}
    <2>1. \A i, j \in I : i = j
      BY <1>3 DEF SessionInv, ConnInv, IsInjective
    <2>2. I = {} \/ \E i : I = {i}
      BY <2>1
    <2>3. Cardinality(I) = 0 \/ Cardinality(I) = 1
      BY <2>2, FS_EmptySet, FS_Singleton
    <2> QED
      BY <2>3
  <1>4. SessionInv => SessionListed
    BY <1>1, <1>2, <1>3 DEF SessionListed
  <1> QED
    BY <1>4, SessionInvariant, PTL

\* SITE info shows every session that was there when it began, once, unless one
\* ended meanwhile, although main appends to conlist under a different lock.
THEOREM InfoIsComplete == Spec => []InfoComplete
  <1>1. SessionInv => InfoComplete
    <2> SUFFICES ASSUME SessionInv, Walking, it = "end", ~changed
                 PROVE  begun \subseteq ToSet(shown) /\ IsInjective(shown)
      BY DEF InfoComplete
    <2>1. Walked
      BY DEF SessionInv, WalkInv
    <2>2. /\ Len(shown) \in Nat /\ Len(conlist) \in Nat
          /\ DOMAIN shown = 1 .. Len(shown) /\ DOMAIN conlist = 1 .. Len(conlist)
      BY DEF SessionInv, RestTyped
    <2>3. IsInjective(shown)
      BY <2>1, <2>2 DEF Walked, IsInjective, SessionInv, ConnInv
    <2> QED
      BY <2>1, <2>3 DEF Walked
  <1> QED
    BY <1>1, SessionInvariant, PTL
=============================================================================
