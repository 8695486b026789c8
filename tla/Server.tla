------------------------------- MODULE Server -------------------------------
(***************************************************************************)
(* The process around the sessions: the accept loop of main, the life of   *)
(* the control objects and conlist, the list of sites (iplist), the lists  *)
(* of users, the commands of admins that use them, and the reload of the   *)
(* configuration by SITE reload and by SIGHUP, with the locks all of them  *)
(* share.  What a session does besides is in Login and Transfer.           *)
(*                                                                         *)
(* A step is what a thread does between two points where another thread,   *)
(* or the signal handler on the same thread, can see the difference.       *)
(***************************************************************************)
EXTENDS Naturals, Sequences, SequencesExt

CONSTANTS
    Conns,        \* control objects, by their addresses
    Names,        \* what a list of users may hold
    Files,        \* what the configuration file may say at a reload
    Debug,        \* config.debug: debugmsg takes config_lock
    MaxAccepts,   \* connections
    MaxCommands,  \* commands of admins
    MaxSignals    \* SIGHUPs

Main    == "main"
None    == "none"
Free    == "free"
Threads == Conns \cup {Main}
Locks   == {"list", "globals", "ip", "config", "sock"}

\* sites is the length of site_ip and site_port, 0 if they do not match
File == [sites : Nat, names : SUBSET Names]

ASSUME ServerAssumption ==
    /\ Main \notin Conns /\ Conns \cap {None, Free, "end"} = {} /\ None \notin Names
    /\ IsFiniteSet(Names)
    /\ Files \subseteq File
    /\ Debug \in BOOLEAN
    /\ MaxAccepts \in Nat /\ MaxCommands \in Nat /\ MaxSignals \in Nat

VARIABLES
    up,                       \* the process runs
    at, name,                 \* where each thread is, the name it inserts
    frame,                    \* the reload each thread is in, by command or signal
    lock,
    tmp,                      \* the connection main is at
    object,                   \* the control objects
    conlist,
    it, shown,                \* the iterator of SITE info, what it has shown
    config,
    sites, counter,           \* List and counter of iplist
    list,                     \* List of a CStringlist
    accepts, commands, signals,
    leaked, begun, changed, raced, removed

threads == <<at, name, frame>>
walks   == <<it, shown>>
iplist  == <<sites, counter>>
bounds  == <<accepts, commands, signals>>
history == <<leaked, begun, changed, raced, removed>>
vars    == <<up, threads, lock, tmp, object, conlist, walks, config, iplist, list,
             bounds, history>>

(* object: none, or new with an open client socket, or closed.             *)
(* History: leaked, the objects nobody deletes; begun, what conlist held   *)
(* when a walk began, and changed, whether something left it since; raced, *)
(* two threads were at the list of users at once; removed, the names whose *)
(* removal was the last thing asked for.                                   *)
NoFrame == [at |-> None, name |-> None]

Quiet(t)  == up /\ frame[t].at = None
Step(t, from, to) == Quiet(t) /\ at[t] = from /\ at' = [at EXCEPT ![t] = to]

Acquire(l, t) == lock[l] = Free /\ lock' = [lock EXCEPT ![l] = t]
Release(l)    == lock' = [lock EXCEPT ![l] = Free]

-----------------------------------------------------------------------------
(* The accept loop of main                                                 *)

\* Accept returns a socket and trafficcheck lets it in; otherwise the socket is
\* closed and nothing changes
AcceptConn(c) ==
    /\ Step(Main, "accept", "lock")
    /\ object[c] = None /\ accepts < MaxAccepts
    /\ tmp' = c /\ accepts' = accepts + 1
    /\ UNCHANGED <<up, name, frame, lock, object, conlist, walks, config, iplist, list,
                   commands, signals, history>>

LockList ==
    /\ Step(Main, "lock", "getip")
    /\ Acquire("list", Main)
    /\ UNCHANGED <<up, name, frame, tmp, object, conlist, walks, config, iplist, list,
                   bounds, history>>

\* getip locks the list of sites
LockSites ==
    /\ Step(Main, "getip", "take")
    /\ Acquire("ip", Main)
    /\ UNCHANGED <<up, name, frame, tmp, object, conlist, walks, config, iplist, list,
                   bounds, history>>

\* Mutant: the index may become the length
AdvancedMutant == IF counter = sites THEN 0 ELSE counter + 1

Advanced == IF counter + 1 = sites THEN 0 ELSE counter + 1

\* getip takes the next site; an index outside the list is undefined
\* behaviour: the process ends, or goes on with garbage
TakeSite ==
    /\ Step(Main, "take", "new")
    /\ Release("ip")
    /\ counter' = Advanced
    /\ up' \in {TRUE, counter < sites}
    /\ UNCHANGED <<name, frame, tmp, object, conlist, walks, config, sites, list,
                   bounds, history>>

\* the constructor of CControlThread, which logs under list_lock
NewConn ==
    /\ Step(Main, "new", "push")
    /\ Debug => lock["config"] = Free
    /\ object' = [object EXCEPT ![tmp] = "open"]
    /\ UNCHANGED <<up, name, frame, lock, tmp, conlist, walks, config, iplist, list,
                   bounds, history>>

PushConn ==
    /\ Step(Main, "push", "create")
    /\ conlist' = Append(conlist, tmp)
    /\ Release("list")
    /\ UNCHANGED <<up, name, frame, tmp, object, walks, config, iplist, list, bounds, history>>

\* Mutant: the object stays on the list
NotCreatedMutant == at' = [at EXCEPT ![Main] = "accept"] /\ tmp' = None

NotCreated == at' = [at EXCEPT ![Main] = "relock"] /\ UNCHANGED tmp

\* pthread_create succeeds or fails
CreateConn ==
    /\ Quiet(Main) /\ at[Main] = "create"
    /\ \/ at' = [at EXCEPT ![Main] = "accept", ![tmp] = "run"] /\ tmp' = None
       \/ NotCreated
    /\ UNCHANGED <<up, name, frame, lock, object, conlist, walks, config, iplist, list,
                   bounds, history>>

LockAgain ==
    /\ Step(Main, "relock", "drop")
    /\ Acquire("list", Main)
    /\ UNCHANGED <<up, name, frame, tmp, object, conlist, walks, config, iplist, list,
                   bounds, history>>

\* Mutant: only the first element is looked at
WithoutMutant(c) == IF Head(conlist) = c THEN Tail(conlist) ELSE conlist

\* conlist.remove takes out every occurrence: SessionListed says there is one
Without(c) == RemoveFirst(conlist, c)

Walking == \E c \in Conns : at[c] = "walk"

\* the object leaves the list; nobody deletes it or closes its socket
DropConn ==
    /\ Step(Main, "drop", "accept")
    /\ Release("list")
    /\ conlist' = Without(tmp)
    /\ changed' = Walking
    /\ leaked' = leaked \cup {tmp}
    /\ tmp' = None
    /\ UNCHANGED <<up, name, frame, object, walks, config, iplist, list, bounds,
                   begun, raced, removed>>

-----------------------------------------------------------------------------
(* A session: the commands of an admin, and its end                        *)

\* an admin's command is one of MaxCommands
Command(c, to) ==
    /\ Step(c, "run", to)
    /\ commands < MaxCommands /\ commands' = commands + 1

\* SITE info: globals_lock is taken, so that there is one walk at a time, but
\* what conlist is guarded by is list_lock
InfoLock(c) ==
    /\ Command(c, "walk")
    /\ Acquire("globals", c)
    /\ it' = IF conlist = <<>> THEN "end" ELSE conlist[1]
    /\ begun' = ToSet(conlist)
    /\ UNCHANGED <<up, name, frame, tmp, object, conlist, shown, config, iplist, list,
                   accepts, signals, leaked, changed, raced, removed>>

\* Mutant: the iterator is advanced twice
FollowingMutant(d) ==
    LET i == SelectInSeq(conlist, LAMBDA x : x = d)
    IN  IF i + 2 > Len(conlist) THEN "end" ELSE conlist[i + 2]

Following(d) ==
    LET i == SelectInSeq(conlist, LAMBDA x : x = d)
    IN  IF i = Len(conlist) THEN "end" ELSE conlist[i + 1]

\* a node that was removed under the iterator is undefined behaviour: the
\* process ends, or the walk goes on anywhere
InfoStep(c) ==
    /\ Step(c, "walk", "walk") /\ it # "end"
    /\ IF it \in ToSet(conlist)
       THEN it' = Following(it) /\ UNCHANGED up
       ELSE up' \in BOOLEAN /\ it' \in ToSet(conlist) \cup {"end"}
    /\ shown' = Append(shown, it)
    /\ UNCHANGED <<name, frame, lock, tmp, object, conlist, config, iplist, list, bounds,
                   history>>

InfoEnd(c) ==
    /\ Step(c, "walk", "run") /\ it = "end"
    /\ Release("globals")
    /\ shown' = <<>> /\ begun' = {} /\ changed' = FALSE
    /\ UNCHANGED <<up, name, frame, tmp, object, conlist, it, config, iplist, list,
                   bounds, leaked, raced, removed>>

\* SITE kill removes the files and exits
Kill(c) ==
    /\ Command(c, "run")
    /\ up' = FALSE
    /\ UNCHANGED <<name, frame, lock, tmp, object, conlist, walks, config, iplist, list,
                   accepts, signals, history>>

\* debugmsg
Log(c) ==
    /\ Debug
    /\ \/ Command(c, "log") /\ Acquire("config", c)
       \/ Step(c, "log", "run") /\ Release("config") /\ UNCHANGED commands
    /\ UNCHANGED <<up, name, frame, tmp, object, conlist, walks, config, iplist, list,
                   accepts, signals, history>>

\* somebody else is between the two steps of an insertion
Others(t) == \E u \in Threads \ {t} : at[u] = "insert" \/ frame[u].at = "insert"

Missing(n) == n \notin ToSet(list)

\* SITE admin add: Ins looks for the name
AddName(c, n) ==
    /\ Command(c, IF Missing(n) THEN "insert" ELSE "run")
    /\ name' = [name EXCEPT ![c] = IF Missing(n) THEN n ELSE None]
    /\ removed' = removed \ {n}
    /\ raced' = (raced \/ Others(c))
    /\ UNCHANGED <<up, frame, lock, tmp, object, conlist, walks, config, iplist, list,
                   accepts, signals, leaked, begun, changed>>

\* and appends it
Insert(c) ==
    /\ Step(c, "insert", "run")
    /\ list' = Append(list, name[c])
    /\ name' = [name EXCEPT ![c] = None]
    /\ UNCHANGED <<up, frame, lock, tmp, object, conlist, walks, config, iplist,
                   bounds, history>>

\* Mutant: Del does not look at the last name
ErasedMutant(n) == IF list = <<>> THEN list ELSE Append(RemoveFirst(Front(list), n), Last(list))

Erased(n) == RemoveFirst(list, n)

\* SITE admin del: Del erases the first one
DelName(c, n) ==
    /\ Command(c, "run")
    /\ list' = Erased(n)
    /\ removed' = removed \cup {n}
    /\ raced' = (raced \/ Others(c))
    /\ UNCHANGED <<up, name, frame, lock, tmp, object, conlist, walks, config, iplist,
                   accepts, signals, leaked, begun, changed>>

\* SITE reload
ReloadCommand(c) ==
    /\ Command(c, "run")
    /\ frame' = [frame EXCEPT ![c] = [at |-> "conf", name |-> None]]
    /\ UNCHANGED <<up, name, lock, tmp, object, conlist, walks, config, iplist, list,
                   accepts, signals, history>>

\* mainloop returns: the destructor deletes the data thread
Leave(c) ==
    /\ Step(c, "run", "unlist")
    /\ UNCHANGED <<up, name, frame, lock, tmp, object, conlist, walks, config, iplist, list,
                   bounds, history>>

LockUnlist(c) ==
    /\ Step(c, "unlist", "remove")
    /\ Acquire("list", c)
    /\ UNCHANGED <<up, name, frame, tmp, object, conlist, walks, config, iplist, list,
                   bounds, history>>

\* Mutant: list_lock is kept
RemoveUnlockMutant == UNCHANGED lock

RemoveUnlock == Release("list")

RemoveConn(c) ==
    /\ Step(c, "remove", "close")
    /\ conlist' = Without(c)
    /\ changed' = Walking
    /\ RemoveUnlock
    /\ UNCHANGED <<up, name, frame, tmp, object, walks, config, iplist, list, bounds,
                   leaked, begun, raced, removed>>

\* Close takes sock_lock and logs under it
LockClose(c) ==
    /\ Step(c, "close", "closing")
    /\ Acquire("sock", c)
    /\ UNCHANGED <<up, name, frame, tmp, object, conlist, walks, config, iplist, list,
                   bounds, history>>

CloseConn(c) ==
    /\ Step(c, "closing", "delete")
    /\ Debug => lock["config"] = Free
    /\ Release("sock")
    /\ object' = [object EXCEPT ![c] = "closed"]
    /\ UNCHANGED <<up, name, frame, tmp, conlist, walks, config, iplist, list, bounds, history>>

\* makethread: the object is gone, its address may be used again
DeleteConn(c) ==
    /\ Step(c, "delete", None)
    /\ object' = [object EXCEPT ![c] = None]
    /\ UNCHANGED <<up, name, frame, lock, tmp, conlist, walks, config, iplist, list,
                   bounds, history>>

-----------------------------------------------------------------------------
(* The reload, in the thread of SITE reload or in whatever thread SIGHUP   *)
(* interrupts.  The thread itself stands still meanwhile.                  *)

InFrame(t, from) == up /\ frame[t].at = from
Frame(t, to)     == frame' = [frame EXCEPT ![t].at = to]

\* a thread of the process
Exists(t) == at[t] # None

Signal(t) ==
    /\ Quiet(t) /\ Exists(t) /\ signals < MaxSignals
    /\ signals' = signals + 1
    /\ Frame(t, "log")
    /\ UNCHANGED <<up, at, name, lock, tmp, object, conlist, walks, config, iplist, list,
                   accepts, commands, history>>

\* the handler logs first
ReloadLog(t) ==
    /\ InFrame(t, "log")
    /\ Debug => lock["config"] = Free
    /\ Frame(t, "conf")
    /\ UNCHANGED <<up, at, name, lock, tmp, object, conlist, walks, config, iplist, list,
                   bounds, history>>

\* readconf: without a file nothing happens
ReadConf(t) ==
    /\ InFrame(t, "conf")
    /\ \/ Frame(t, None) /\ UNCHANGED config
       \/ config' \in Files /\ Frame(t, "lock")
    /\ UNCHANGED <<up, at, name, lock, tmp, object, conlist, walks, iplist, list,
                   bounds, history>>

LockReadlist(t) ==
    /\ InFrame(t, "lock")
    /\ Acquire("ip", t)
    /\ Frame(t, "read")
    /\ UNCHANGED <<up, at, name, tmp, object, conlist, walks, config, iplist, list,
                   bounds, history>>

Restarted == IF config.sites = 0 THEN counter ELSE 0

\* readlist: lists of different lengths leave it empty, which nobody looks at
Readlist(t) ==
    /\ InFrame(t, "read")
    /\ Release("ip")
    /\ sites' = config.sites
    /\ counter' = Restarted
    /\ Frame(t, "names")
    /\ UNCHANGED <<up, at, name, tmp, object, conlist, walks, config, list, bounds, history>>

\* the names of the file are inserted, those in the list and not in the file
\* stay
NextName(t) ==
    /\ InFrame(t, "names")
    /\ LET missing == {n \in config.names : Missing(n)}
       IN  IF missing = {} THEN frame' = [frame EXCEPT ![t] = NoFrame]
           ELSE \E n \in missing : frame' = [frame EXCEPT ![t] = [at |-> "insert", name |-> n]]
    /\ removed' = removed \ config.names
    /\ raced' = (raced \/ Others(t) \/ at[t] = "insert")
    /\ UNCHANGED <<up, at, name, lock, tmp, object, conlist, walks, config, iplist, list,
                   bounds, leaked, begun, changed>>

InsertName(t) ==
    /\ InFrame(t, "insert")
    /\ list' = Append(list, frame[t].name)
    /\ Frame(t, "names")
    /\ UNCHANGED <<up, at, name, lock, tmp, object, conlist, walks, config, iplist,
                   bounds, history>>

-----------------------------------------------------------------------------
\* main has read a list of sites, or has ended
Init ==
    /\ up = TRUE
    /\ at = [t \in Threads |-> IF t = Main THEN "accept" ELSE None]
    /\ name = [c \in Conns |-> None]
    /\ frame = [t \in Threads |-> NoFrame]
    /\ lock = [l \in Locks |-> Free]
    /\ tmp = None
    /\ object = [c \in Conns |-> None]
    /\ conlist = <<>>
    /\ it = "end" /\ shown = <<>>
    /\ config \in {f \in Files : f.sites > 0}
    /\ sites = config.sites /\ counter = 0
    /\ list = SetToSeq(config.names)
    /\ accepts = 0 /\ commands = 0 /\ signals = 0
    /\ leaked = {} /\ begun = {} /\ changed = FALSE
    /\ raced = FALSE /\ removed = {}

MainStep ==
    \/ LockList \/ LockSites \/ TakeSite \/ NewConn \/ PushConn \/ CreateConn
    \/ LockAgain \/ DropConn

\* what a session has begun it goes on with
Working(c) ==
    \/ InfoStep(c) \/ InfoEnd(c) \/ (at[c] = "log" /\ Log(c)) \/ Insert(c)
    \/ LockUnlist(c) \/ RemoveConn(c) \/ LockClose(c) \/ CloseConn(c) \/ DeleteConn(c)

Reload(t) ==
    \/ ReloadLog(t) \/ ReadConf(t) \/ LockReadlist(t) \/ Readlist(t)
    \/ NextName(t) \/ InsertName(t)

Commanded(c) ==
    \/ InfoLock(c) \/ Kill(c) \/ Log(c) \/ ReloadCommand(c) \/ Leave(c)
    \/ \E n \in Names : AddName(c, n) \/ DelName(c, n)

Next ==
    \/ \E c \in Conns : AcceptConn(c) \/ Working(c) \/ Commanded(c)
    \/ MainStep
    \/ \E t \in Threads : Reload(t) \/ Signal(t)

Spec == Init /\ [][Next]_vars

(* A thread that can go on does.  Nobody has to connect, send a command or *)
(* leave.                                                                  *)
FairSpec ==
    /\ Spec
    /\ WF_vars(MainStep)
    /\ \A c \in Conns : WF_vars(Working(c))
    /\ \A t \in Threads : WF_vars(Reload(t))

-----------------------------------------------------------------------------
(* Properties                                                              *)

\* The lists, locks and threads have the values the code gives them.
TypeOK ==
    /\ up \in BOOLEAN
    /\ at \in [Threads -> {"accept", "lock", "getip", "take", "new", "push", "create", "relock",
                           "drop", None, "run", "walk", "log", "insert", "unlist", "remove",
                           "close", "closing", "delete"}]
    /\ name \in [Conns -> Names \cup {None}]
    /\ frame \in [Threads -> [at : {None, "log", "conf", "lock", "read", "names", "insert"},
                              name : Names \cup {None}]]
    /\ lock \in [Locks -> Threads \cup {Free}]
    /\ tmp \in Conns \cup {None}
    /\ object \in [Conns -> {None, "open", "closed"}]
    /\ conlist \in Seq(Conns)
    /\ it \in Conns \cup {"end"} /\ shown \in Seq(Conns)
    /\ config \in Files
    /\ sites \in Nat /\ counter \in Nat
    /\ list \in Seq(Names)
    /\ accepts \in 0 .. MaxAccepts /\ commands \in 0 .. MaxCommands /\ signals \in 0 .. MaxSignals
    /\ leaked \subseteq Conns /\ begun \subseteq Conns
    /\ changed \in BOOLEAN /\ raced \in BOOLEAN /\ removed \subseteq Names

Serving(c) == at[c] \notin {None, "close", "closing", "delete"}

\* What conlist points to exists, and a session is on it, once, from before its
\* thread starts until the destructor took it off, so that SITE info of an
\* idle server shows exactly the sessions there are.  An open socket belongs to
\* a thread that will close it, or to main for the moment, unless
\* pthread_create failed.  All variables keep their types.
SessionListed ==
    /\ TypeOK
    /\ \A c \in Conns :
       /\ object[c] = "open" => at[c] # None \/ c \in leaked \/ tmp = c
       /\ c \in ToSet(conlist) => object[c] = "open"
       /\ Serving(c) => c \in ToSet(conlist)
       /\ Cardinality({i \in DOMAIN conlist : conlist[i] = c}) <= 1

\* The next index of getip is inside the list whenever there is one, over
\* reloads that make the list shorter.
SiteIndexed == sites > 0 /\ lock["ip"] = Free => counter < sites

\* SITE info shows every session that was there when it began, once, if none
\* ended meanwhile.  New sessions may be shown or not.
InfoComplete ==
    up /\ Walking /\ it = "end" /\ ~changed =>
        begun \subseteq ToSet(shown) /\ IsInjective(shown)

\* A name an admin removed stays removed until somebody inserts it again, by
\* command or by a reload of a file that has it, unless two threads were at
\* the list at once.
RemovedIsOut == ~raced => removed \cap ToSet(list) = {}

\* A reload that waits for a lock that the thread it interrupted holds
Stuck ==
    \E t \in Threads :
       \/ frame[t].at = "lock" /\ lock["ip"] = t
       \/ frame[t].at = "log" /\ Debug /\ lock["config"] = t

\* main comes back to accept, whatever the sessions and reloads do, unless the
\* process has ended or SIGHUP hit a thread that held a lock the reload takes.
AcceptsAgain == at[Main] # "accept" ~> (at[Main] = "accept" \/ ~up \/ Stuck)

=============================================================================
