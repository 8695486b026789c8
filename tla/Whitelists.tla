----------------------------- MODULE Whitelists -----------------------------
(***************************************************************************)
(* The two persisted lists of use_fxpiplist: fpwhitelist, the fingerprints *)
(* of allowed sites with the ips each was seen at, and whitelist, the ips  *)
(* of allowed sites.  The admin commands of any session and the data       *)
(* thread of any session change them, without a lock, and rewrite the file *)
(* of the list in place; main reads the files when the program starts.     *)
(*                                                                         *)
(* One step is one access to a list or to a file.  The work of a thread is *)
(* an admin command or the check of one FXP transfer.                      *)
(***************************************************************************)
EXTENDS Naturals, Sequences, SequencesExt

CONSTANTS
    Fps,          \* fingerprints
    Ips,          \* ips of sites
    Cases,        \* how admins spell fingerprints, a subset of Spellings
    Threads,      \* the threads of all sessions
    MaxWorks,     \* works in all
    MaxRestarts

Lists     == {"fp", "ip"}
Spellings == {"upper", "lower"}
Cut       == <<"cut", "upper">>   \* what a piece of a line is read as
NoIp      == "none"

ASSUME WhitelistsAssumption ==
    /\ Cases \subseteq Spellings
    /\ MaxWorks \in Nat /\ MaxRestarts \in Nat
    /\ NoIp \notin Ips /\ "cut" \notin Fps \cup Ips

VARIABLES
    list,      \* per list: List, the entries in order
    file,      \* per list: the lines of its file
    phase,     \* the process is "down", "reading" the files or "up"
    nread,     \* per list: lines read of its file
    work,      \* per thread: what it is doing
    works, life,                 \* works and starts so far
    granted, revoked,            \* per list: keys whose add, del was answered (history)
    ever,                        \* per list: keys ever asked to be added (history)
    trouble,                     \* per list: what went wrong with it (history)
    noted, renoted               \* ips CheckIp called new, and again (history)

history == <<granted, revoked, ever, trouble, noted, renoted>>
process == <<phase, nread, life>>
vars    == <<list, file, work, works, process, history>>

Upper(k) == <<k[1], "upper">>
\* what the admin types
Typed(w) == IF w = "fp" THEN Fps \X Cases ELSE Ips \X {"upper"}
\* upper(fp,0): the key of a new entry
Stored(w, k) == IF w = "fp" THEN Upper(k) ELSE k

Entry(k, ips) == [key |-> k, ips |-> ips]
Idle == [at |-> "idle", list |-> "fp", key |-> Cut, ip |-> NoIp, pos |-> 0,
         data |-> <<>>, of |-> "none"]

Keys(l) == {l[i].key : i \in DOMAIN l}
\* IsInList
Has(w, k) == k \in Keys(list[w])
\* the entry the loops of Remove and CheckIp stop at
First(l, k) == CHOOSE i \in DOMAIN l : l[i].key = k /\ \A j \in 1 .. i - 1 : l[j].key # k

-----------------------------------------------------------------------------
(* Admin commands *)

At(s, where) == phase = "up" /\ work[s].at = where
Goto(s, where) == work' = [work EXCEPT ![s].at = where]
Done(s) == work' = [work EXCEPT ![s] = Idle]

\* others that have begun to change list w and not written its file
Others(s, w) == {t \in Threads \ {s} :
                    /\ work[t].list = w
                    /\ work[t].at \in {"insert", "note", "save", "truncate", "write"}}
Overlap(s, w) == trouble' = [trouble EXCEPT ![w] = @ \cup
                                IF Others(s, w) # {} THEN {"overlap"} ELSE {}]

Begins(s) == At(s, "idle") /\ works < MaxWorks /\ works' = works + 1

\* ...add: Insert up to its look-up, which takes what was typed
BeginAdd(s) ==
    /\ Begins(s)
    /\ \E w \in Lists : \E k \in Typed(w) :
          /\ IF Has(w, k)
             THEN UNCHANGED <<work, ever, trouble>>   \* "already added!"
             ELSE /\ work' = [work EXCEPT ![s] = [Idle EXCEPT !.at = "insert", !.list = w,
                                                              !.key = k, !.of = "add"]]
                  /\ ever' = [ever EXCEPT ![w] = @ \cup {Stored(w, k)}]
                  /\ Overlap(s, w)
    /\ UNCHANGED <<list, file, process, granted, revoked, noted, renoted>>

\* the rest of Insert: push_back, which may overwrite the element of another
\* push_back that runs at the same time
Insert(s) ==
    LET w == work[s].list  k == Stored(w, work[s].key)
    IN  /\ At(s, "insert")
        /\ \/ list' = [list EXCEPT ![w] = Append(@, Entry(k, <<>>))]
           \/ /\ \E t \in Others(s, w) : work[t].at = "insert"
              /\ UNCHANGED list
        /\ revoked' = [revoked EXCEPT ![w] = @ \ {k}]
        /\ Goto(s, "save")
        /\ UNCHANGED <<file, works, process, granted, ever, trouble, noted, renoted>>

\* ...del: Remove
BeginDel(s) ==
    /\ Begins(s)
    /\ \E w \in Lists : \E k \in Typed(w) :
          /\ list' = [list EXCEPT ![w] = IF Has(w, k) THEN RemoveAt(@, First(@, k)) ELSE @]
          /\ work' = [work EXCEPT ![s] = [Idle EXCEPT !.at = "save", !.list = w,
                                                      !.key = k, !.of = "del"]]
          /\ granted' = [granted EXCEPT ![w] = @ \ {Stored(w, k)}]
          /\ noted' = {n \in noted : w = "ip" \/ n.fp # k[1]}
          /\ Overlap(s, w)
    /\ UNCHANGED <<file, process, revoked, ever, renoted>>

-----------------------------------------------------------------------------
(* WriteList *)

Save(s) ==
    /\ At(s, "save")
    /\ work' = [work EXCEPT ![s].at = "truncate", ![s].data = list[work[s].list]]
    /\ UNCHANGED <<list, file, works, process, history>>

\* the command is answered, or CheckIp returns 1; nobody looks at the result
\* of WriteList
AfterWrite(s) ==
    LET w == work[s].list  k == Stored(w, work[s].key)
        n == [fp |-> k[1], ip |-> work[s].ip, life |-> life]
    IN  \/ /\ work[s].of = "add"
           /\ granted' = [granted EXCEPT ![w] = @ \cup {k}]
           /\ Done(s) /\ UNCHANGED <<revoked, noted, renoted>>
        \/ /\ work[s].of = "del"
           /\ revoked' = [revoked EXCEPT ![w] = @ \cup {k}]
           /\ Done(s) /\ UNCHANGED <<granted, noted, renoted>>
        \/ /\ work[s].of = "check"
           /\ noted' = noted \cup {n}
           /\ renoted' = renoted \cup {[first |-> m.life, again |-> life] :
                                         m \in {m \in noted : m.fp = n.fp /\ m.ip = n.ip}}
           /\ Goto(s, "lookfp") /\ UNCHANGED <<granted, revoked>>

\* Mutant: the file is opened without ios::trunc
TruncateMutant(s) ==
    LET w == work[s].list
    IN  /\ At(s, "truncate")
        /\ \/ /\ Goto(s, "write")
              /\ UNCHANGED <<granted, revoked, noted, renoted, trouble>>
           \/ /\ trouble' = [trouble EXCEPT ![w] = @ \cup {"failed"}]
              /\ AfterWrite(s)
        /\ UNCHANGED <<list, file, works, process, ever>>

\* writefile: the ofstream truncates the file, or cannot be opened
Truncate(s) ==
    LET w == work[s].list
    IN  /\ At(s, "truncate")
        /\ \/ /\ file' = [file EXCEPT ![w] = <<>>]
              /\ Goto(s, "write")
              /\ UNCHANGED <<granted, revoked, noted, renoted, trouble>>
           \/ /\ trouble' = [trouble EXCEPT ![w] = @ \cup {"failed"}]
              /\ AfterWrite(s)
              /\ UNCHANGED file
        /\ UNCHANGED <<list, works, process, ever>>

\* what a longer list leaves behind when a shorter one is written over it
Rest(old, n) ==
    IF Len(old) <= n THEN {<<>>}
    ELSE {SubSeq(old, n + 1, Len(old)), <<Entry(Cut, <<>>)>> \o SubSeq(old, n + 2, Len(old))}

WriteFile(s) ==
    LET w == work[s].list  data == work[s].data
    IN  /\ At(s, "write")
        /\ \E rest \in Rest(file[w], Len(data)) : file' = [file EXCEPT ![w] = data \o rest]
        /\ AfterWrite(s)
        /\ UNCHANGED <<list, works, process, ever, trouble>>

-----------------------------------------------------------------------------
(* The check of an FXP transfer: dataloop, for a user who is no admin *)

\* CheckIp up to its push_back: where the fingerprint is and whether the ip
\* is new
BeginCheck(s) ==
    /\ Begins(s)
    /\ \E f \in Fps, ip \in Ips :
          LET k == <<f, "upper">>
              check == [Idle EXCEPT !.key = k, !.ip = ip, !.of = "check"]
              i == First(list["fp"], k)
          IN  IF Has("fp", k) /\ ~Contains(list["fp"][i].ips, ip)
              THEN /\ work' = [work EXCEPT ![s] = [check EXCEPT !.at = "note", !.pos = i]]
                   /\ Overlap(s, "fp")
              ELSE /\ work' = [work EXCEPT ![s] = [check EXCEPT !.at = "lookfp"]]
                   /\ UNCHANGED trouble
    /\ UNCHANGED <<list, file, process, granted, revoked, ever, noted, renoted>>

\* Mutant: the ip is put into the list instead of into the entry
CheckIpMutant(s) ==
    /\ At(s, "note")
    /\ list' = [list EXCEPT !["fp"] = Append(@, work[s].ip)]
    /\ Goto(s, "save")
    /\ UNCHANGED <<file, works, process, history>>

\* Mutant: the ip is reported but not kept
CheckIpForgetsMutant(s) ==
    /\ At(s, "note")
    /\ Goto(s, "save")
    /\ UNCHANGED <<list, file, works, process, history>>

\* ... and its push_back.  The entry may have moved meanwhile.
CheckIp(s) ==
    LET i == work[s].pos
    IN  /\ At(s, "note")
        /\ list' = IF i \in DOMAIN list["fp"]
                   THEN [list EXCEPT !["fp"][i].ips = Append(@, work[s].ip)]
                   ELSE list
        /\ Goto(s, "save")
        /\ UNCHANGED <<file, works, process, history>>

\* fpwhitelist.IsInList
LookFp(s) ==
    /\ At(s, "lookfp")
    /\ Goto(s, IF Has("fp", work[s].key) THEN "allowed" ELSE "lookip")
    /\ UNCHANGED <<list, file, works, process, history>>

\* Mutant: an empty list allows every site
LookIpMutant(s) ==
    /\ At(s, "lookip")
    /\ IF list["ip"] = <<>> \/ Has("ip", <<work[s].ip, "upper">>)
       THEN Goto(s, "allowed")
       ELSE Done(s)
    /\ UNCHANGED <<list, file, works, process, history>>

\* whitelist.IsInList
LookIp(s) ==
    /\ At(s, "lookip")
    /\ IF Has("ip", <<work[s].ip, "upper">>)
       THEN Goto(s, "allowed")
       ELSE Done(s)
    /\ UNCHANGED <<list, file, works, process, history>>

EndCheck(s) ==
    /\ At(s, "allowed")
    /\ Done(s)
    /\ UNCHANGED <<list, file, works, process, history>>

-----------------------------------------------------------------------------
(* The process *)

\* the program is killed, or a race on a list ends it
Crash ==
    /\ phase # "down" /\ phase' = "down"
    /\ list' = [w \in Lists |-> <<>>]
    /\ work' = [s \in Threads |-> Idle]
    /\ trouble' = [w \in Lists |->
                      trouble[w] \cup IF \E s \in Threads : work[s].at = "write" /\ work[s].list = w
                                      THEN {"torn"} ELSE {}]
    /\ UNCHANGED <<file, nread, works, life, granted, revoked, ever, noted, renoted>>

\* main
Start ==
    /\ phase = "down" /\ life < MaxRestarts
    /\ phase' = "reading" /\ nread' = [w \in Lists |-> 0]
    /\ life' = life + 1
    /\ UNCHANGED <<list, file, work, works, history>>

\* Insert ends an ip at a comma, and WriteList puts none behind the last
Reread(e) == Entry(e.key, IF e.ips = <<>> THEN <<>> ELSE Front(e.ips))

\* Mutant: the last line of a file is not read
ReadLineMutant(w) ==
    LET line == file[w][nread[w] + 1]
    IN  /\ phase = "reading" /\ nread[w] < Len(file[w])
        /\ w = "fp" => nread["ip"] = Len(file["ip"])
        /\ list' = [list EXCEPT ![w] =
                       IF (w = "fp" /\ Has(w, line.key)) \/ nread[w] + 1 = Len(file[w])
                       THEN @ ELSE Append(@, Reread(line))]
        /\ nread' = [nread EXCEPT ![w] = @ + 1]
        /\ UNCHANGED <<file, work, works, phase, life, history>>

\* one line of ReadList, the ips first.  Insert skips a fingerprint that is
\* there, Insert_nokey looks for the whole line and never finds it.
ReadLine(w) ==
    LET line == file[w][nread[w] + 1]
    IN  /\ phase = "reading" /\ nread[w] < Len(file[w])
        /\ w = "fp" => nread["ip"] = Len(file["ip"])
        /\ list' = [list EXCEPT ![w] = IF w = "fp" /\ Has(w, line.key)
                                       THEN @ ELSE Append(@, Reread(line))]
        /\ nread' = [nread EXCEPT ![w] = @ + 1]
        /\ UNCHANGED <<file, work, works, phase, life, history>>

\* main goes on to its accept loop
Serve ==
    /\ phase = "reading" /\ \A w \in Lists : nread[w] = Len(file[w])
    /\ phase' = "up"
    /\ UNCHANGED <<list, file, nread, work, works, life, history>>

Init ==
    /\ list = [w \in Lists |-> <<>>] /\ file = [w \in Lists |-> <<>>]
    /\ phase = "up" /\ nread = [w \in Lists |-> 0]
    /\ work = [s \in Threads |-> Idle]
    /\ works = 0 /\ life = 0
    /\ granted = [w \in Lists |-> {}] /\ revoked = [w \in Lists |-> {}]
    /\ ever = [w \in Lists |-> {}] /\ trouble = [w \in Lists |-> {}]
    /\ noted = {} /\ renoted = {}

Step(s) ==
    \/ BeginAdd(s) \/ BeginDel(s) \/ BeginCheck(s)
    \/ Insert(s) \/ CheckIp(s) \/ Save(s) \/ Truncate(s) \/ WriteFile(s)
    \/ LookFp(s) \/ LookIp(s) \/ EndCheck(s)

Next ==
    \/ \E s \in Threads : Step(s)
    \/ \E w \in Lists : ReadLine(w)
    \/ Crash \/ Start \/ Serve
Spec == Init /\ [][Next]_vars
-----------------------------------------------------------------------------
(* Properties *)

Trouble == {"overlap", "failed", "torn"}
Places  == {"idle", "insert", "note", "save", "truncate", "write", "lookfp", "lookip",
            "allowed"}
Names   == Fps \cup Ips \cup {"cut"}
AnyKey  == Names \X Spellings
AnyIp   == Ips \cup {NoIp}
Entries == [key : AnyKey, ips : Seq(AnyIp)]

\* Every variable has its type.
TypeOK ==
    /\ list \in [Lists -> Seq(Entries)] /\ file \in [Lists -> Seq(Entries)]
    /\ phase \in {"down", "reading", "up"} /\ nread \in [Lists -> Nat]
    /\ work \in [Threads -> [at : Places, list : Lists, key : AnyKey, ip : AnyIp, pos : Nat,
                             data : Seq(Entries), of : {"none", "add", "del", "check"}]]
    /\ works \in 0 .. MaxWorks /\ life \in 0 .. MaxRestarts
    /\ granted \in [Lists -> SUBSET AnyKey] /\ revoked \in [Lists -> SUBSET AnyKey]
    /\ ever \in [Lists -> SUBSET AnyKey] /\ trouble \in [Lists -> SUBSET Trouble]
    /\ noted \subseteq [fp : Names, ip : AnyIp, life : Nat]
    /\ renoted \subseteq [first : Nat, again : Nat]

\* What an admin deleted is in the list again only when it is added again,
\* over crashes and restarts, as long as no two threads changed this list at
\* the same time and every save could open the file.
RevokedStaysOut ==
    \A w \in Lists :
        trouble[w] \subseteq {"torn"} => revoked[w] \cap Keys(list[w]) = {}

\* What an admin added and nobody deleted is in the list, over crashes and
\* restarts, if in addition no crash hit a save after it truncated the file.
AddedStaysIn ==
    \A w \in Lists : phase = "up" /\ trouble[w] = {} => granted[w] \subseteq Keys(list[w])

\* One run of the program reports a new ip of a fingerprint once, as long as
\* no two threads change the list at the same time.
NoticeOncePerRun ==
    "overlap" \notin trouble["fp"] => \A r \in renoted : r.first # r.again

\* README.md: "no fxp transfers to other sites possible".  Whatever happened
\* to the files, an FXP transfer is allowed only to a site whose fingerprint
\* or ip some admin added once.
OnlyAddedSites ==
    \A s \in Threads :
        work[s].at = "allowed" =>
            \/ work[s].key \in ever["fp"]
            \/ <<work[s].ip, "upper">> \in ever["ip"]

\* The help of the bouncer: "del fp' - delete fingerprint".  When the deletion
\* of a fingerprint was answered it is not in the list until it is added.
DeletedIsGone == trouble["fp"] = {} => revoked["fp"] \cap Keys(list["fp"]) = {}
=============================================================================
