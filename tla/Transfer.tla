------------------------------ MODULE Transfer ------------------------------
(***************************************************************************)
(* One logged-in session of the bouncer: the control thread, which runs    *)
(* the select loop of CControlThread::mainloop between the client and the  *)
(* site, and the data thread it starts for a bounced PASV, CPSV or PORT.   *)
(* The two threads share the control connection to the client (rwlock),    *)
(* the direction of the transfer (directionset, direction, dirlisting),    *)
(* the pending message for the admins and the quit flag of the data        *)
(* thread.                                                                 *)
(*                                                                         *)
(* A handler of the select loop is one action, cut where the other thread  *)
(* can see an intermediate state: before pthread_join, after               *)
(* pthread_create, between direction = ... and SetDirection(1), before     *)
(* every write.  A write under rwlock is atomic: nothing else the model    *)
(* has is written while the lock is held, so only a lock that is never     *)
(* released is visible.                                                    *)
(***************************************************************************)
EXTENDS Naturals, Sequences

CONSTANTS
    TrafficBnc,        \* config.traffic_bnc
    TrafficBncRelink,  \* config.traffic_bnc_relink
    Relinked,          \* the session was relinked at login
    Debug,             \* config.debug
    SpeedWrite,        \* config.speed_write
    UseLimits,         \* a day, week or month limit is configured
    FpNewIpMsg,        \* config.fp_new_ip_msg
    SslForward,        \* config.ssl_forward without translate_nosslfxp
    Commands,          \* what this client sends
    Pipelining,        \* the client sends without waiting for replies
    MaxCmds,           \* how many commands it sends
    MaxBatch,          \* how many lines one read returns at most
    Tid                \* identities of data threads

Null    == "null"
Control == "control"
Free    == "free"
AllCommands == {"PASV", "CPSV", "PORT", "ABOR", "STOR", "RETR", "LIST", "MSG", "NOOP"}

ASSUME ConfigAssumption ==
    {TrafficBnc, TrafficBncRelink, Relinked, Debug, SpeedWrite, UseLimits,
     FpNewIpMsg, SslForward, Pipelining} \subseteq BOOLEAN
ASSUME BoundsAssumption ==
    /\ Commands \subseteq AllCommands
    /\ MaxCmds \in Nat /\ MaxBatch \in Nat \ {0}
ASSUME TidAssumption == Tid \cap {Null, Control, Free} = {}

VARIABLES
    toBnc, toSite, fromSite,     \* the control connections, a FIFO per direction
    clientLines,                 \* the lines last written to the client
    clientUp, siteUp,            \* the peers have not closed
    siteXfer,                    \* the site has a transfer in progress
    sent,                        \* commands sent so far
    limited,                     \* trafficcheck() fails
    pc, input,                   \* control thread: where it is, what it read
    gotpasvcmd, gotportcmd, cpsvcmd,
    sendadminmsg, admin_msg,
    datathread,                  \* the pointer, Null or a Tid
    rwlock,                      \* Null, or who holds it
    directionset, direction, dirlisting,
    thr                          \* the data threads

peers   == <<toBnc, toSite, fromSite, clientUp, siteUp, siteXfer, sent, limited>>
flags   == <<gotpasvcmd, gotportcmd, cpsvcmd>>
admin   == <<sendadminmsg, admin_msg>>
dirvars == <<directionset, direction, dirlisting>>
vars    == <<peers, clientLines, pc, input, flags, admin, datathread, rwlock,
             dirvars, thr>>

\* What a thread of this session holds of a transfer.  armed is a history
\* variable: what the commands handled since the thread was created asked for.
Thread == [pc      : {"none", "connect", "listen", "announce", "refuse", "open",
                      "gate", "tls", "gate2", "policy", "checkdl", "checkul", "deny",
                      "enter", "pump", "io", "ended"},
           active  : BOOLEAN,
           cpsv    : BOOLEAN,
           quit    : BOOLEAN,
           role    : {"none", "server", "client"},
           armed   : SUBSET {"upload", "download", "list"}]

NoThread == [pc |-> "none", active |-> FALSE, cpsv |-> FALSE, quit |-> FALSE,
             role |-> "none", armed |-> {}]
Ended    == [NoThread EXCEPT !.pc = "ended"]

Alive(t)   == thr[t].pc \notin {"none", "ended"}
Has(s, x)  == \E i \in 1 .. Len(s) : s[i] = x
NoInput    == [from |-> "none", lines |-> <<>>]

\* PASV and PORT are bounced in this session
Bounce == TrafficBnc \/ (Relinked /\ TrafficBncRelink)

-----------------------------------------------------------------------------
(* The two writers of the control connections.  _site_ip is the address of *)
(* the site the session was opened to, a relink site has another one.      *)

\* Mutant: the check of the address is gone
SendsSiteIpMutant(lines) == FALSE

\* the hotfix in Write: the text names the site and the check is on
SendsSiteIp(lines) ==
    TrafficBnc /\ ~Debug /\ ~Relinked /\ Has(lines, "227site")

\* CControlThread::Write to client_sock by who; ok is what it returns
WriteClient(who, lines, ok) ==
    /\ rwlock = Free
    /\ \/ /\ SendsSiteIp(lines)              \* returns with the lock held
          /\ ~ok
          /\ rwlock' = who
          /\ UNCHANGED clientLines
       \/ /\ ~SendsSiteIp(lines)             \* control_write failed
          /\ ~clientUp /\ ~ok
          /\ UNCHANGED <<rwlock, clientLines>>
       \/ /\ ~SendsSiteIp(lines)
          /\ ok = ~limited                   \* over the limit: lock held
          /\ rwlock' = IF limited THEN who ELSE Free
          /\ clientLines' = lines

\* CControlThread::Write to site_sock
WriteSite(cmds, ok) ==
    /\ rwlock = Free
    /\ \/ ok  /\ toSite' = toSite \o cmds
       \/ ~ok /\ ~siteUp /\ UNCHANGED toSite
    /\ UNCHANGED <<toBnc, fromSite, clientUp, siteUp, siteXfer, sent, limited>>

-----------------------------------------------------------------------------
(* The control thread: read, delete the data thread if the handler does    *)
(* that first, then the handler.                                           *)

\* the reply read now is taken for the answer to a bounced PASV or PORT
PassiveReply ==
    \/ gotpasvcmd /\ TrafficBnc /\ ~gotportcmd
    \/ gotpasvcmd /\ Relinked /\ TrafficBncRelink
ActiveReply ==
    /\ ~PassiveReply
    /\ gotportcmd /\ Bounce

\* Mutant: CPSV is started without deleting the last data thread
DeletesFirstMutant(from, lines) ==
    IF from = "site"
    THEN FALSE
    ELSE Bounce /\ lines[1] \in {"PASV", "PORT", "ABOR"}

DeletesFirst(from, lines) ==
    IF from = "site"
    THEN PassiveReply \/ ActiveReply
    ELSE Bounce /\ lines[1] \in {"PASV", "CPSV", "PORT", "ABOR"}

\* leave mainloop: makethread deletes the object, the destructor begins with
\* deletedatathread
Exit == pc' = "delete" /\ input' = NoInput

\* select and TryRead from the site, which the loop serves first.  One read
\* may return several replies.
ReadSite ==
    /\ pc = "select" /\ rwlock = Free
    /\ \/ \E n \in 1 .. MaxBatch :
             /\ n <= Len(fromSite)
             /\ input' = [from |-> "site", lines |-> SubSeq(fromSite, 1, n)]
             /\ fromSite' = SubSeq(fromSite, n + 1, Len(fromSite))
             /\ pc' = IF DeletesFirst("site", SubSeq(fromSite, 1, n))
                      THEN "delete" ELSE "act"
       \/ /\ fromSite = <<>> /\ ~siteUp
          /\ Exit
          /\ UNCHANGED fromSite
    /\ UNCHANGED <<toBnc, toSite, clientUp, siteUp, siteXfer, sent, limited,
                   clientLines, flags, admin, datathread, rwlock, dirvars, thr>>

\* select and TryRead from the client
ReadClient ==
    /\ pc = "select" /\ rwlock = Free
    /\ fromSite = <<>> /\ siteUp
    /\ \/ \E n \in 1 .. MaxBatch :
             /\ n <= Len(toBnc)
             /\ input' = [from |-> "client", lines |-> SubSeq(toBnc, 1, n)]
             /\ toBnc' = SubSeq(toBnc, n + 1, Len(toBnc))
             /\ gotportcmd' = (gotportcmd \/ toBnc[1] = "PORT")
             /\ pc' = IF DeletesFirst("client", SubSeq(toBnc, 1, n))
                      THEN "delete" ELSE "act"
       \/ /\ toBnc = <<>> /\ ~clientUp
          /\ Exit
          /\ UNCHANGED <<toBnc, gotportcmd>>
    /\ UNCHANGED <<toSite, fromSite, clientUp, siteUp, siteXfer, sent, limited,
                   clientLines, gotpasvcmd, cpsvcmd, admin, datathread, rwlock,
                   dirvars, thr>>

\* where deletedatathread returns to: the handler or the destructor
AfterDelete == IF input = NoInput THEN "destroy" ELSE "act"

\* deletedatathread up to pthread_join
SetQuit ==
    /\ pc = "delete"
    /\ IF datathread = Null
       THEN pc' = AfterDelete /\ UNCHANGED thr
       ELSE /\ pc' = "join"
            /\ thr' = [thr EXCEPT ![datathread].quit = TRUE]
    /\ UNCHANGED <<peers, clientLines, input, flags, admin, datathread, rwlock, dirvars>>

\* pthread_join returns, the CDataThread is deleted
JoinDataThread ==
    /\ pc = "join"
    /\ thr[datathread].pc = "ended"
    /\ thr' = [thr EXCEPT ![datathread] = NoThread]
    /\ datathread' = Null
    /\ pc' = AfterDelete
    /\ UNCHANGED <<peers, clientLines, input, flags, admin, rwlock, dirvars>>

\* the rest of ~CControlThread: the sockets are closed, the object is gone
Destroy ==
    /\ pc = "destroy"
    /\ pc' = "gone"
    /\ UNCHANGED <<peers, clientLines, input, flags, admin, datathread, rwlock,
                   dirvars, thr>>

-----------------------------------------------------------------------------
(* Replies of the site *)

ActOnSite   == pc = "act" /\ input.from = "site"
ActOnClient == pc = "act" /\ input.from = "client"

\* control_write of "427 traffic limit reached" without the lock, then return
RefuseForLimit ==
    /\ limited
    /\ clientLines' = <<"427">>
    /\ Exit
    /\ UNCHANGED <<datathread, thr>>

\* new CDataThread and pthread_create, which may fail
StartDataThread(active) ==
    \/ \E t \in Tid :
          /\ thr[t].pc = "none"
          /\ datathread' = t
          /\ thr' = [thr EXCEPT ![t] = [NoThread EXCEPT !.pc = "connect",
                                                        !.active = active,
                                                        !.cpsv = cpsvcmd]]
    \/ UNCHANGED <<datathread, thr>>

\* the reply to a bounced PASV or CPSV.  A reply without an address starts
\* nothing and is not shown.
CreatePassive ==
    /\ ActOnSite /\ PassiveReply
    /\ \/ RefuseForLimit
       \/ /\ ~limited
          /\ IF Has(input.lines, "227site")
             THEN StartDataThread(FALSE)
             ELSE UNCHANGED <<datathread, thr>>
          /\ pc' = "reset" /\ input' = NoInput
          /\ UNCHANGED clientLines
    /\ UNCHANGED <<peers, flags, admin, rwlock, dirvars>>

\* the reply to the PASV sent for a bounced PORT; portcmd may be malformed
CreateActive ==
    /\ ActOnSite /\ ActiveReply
    /\ \/ RefuseForLimit
       \/ /\ ~limited
          /\ \/ /\ Has(input.lines, "227site")
                /\ StartDataThread(TRUE)
                /\ pc' = "portok"
             \/ /\ ~Has(input.lines, "227site")
                /\ UNCHANGED <<datathread, thr>>
                /\ pc' = "reset"
             \/ /\ UNCHANGED <<datathread, thr>>
                /\ pc' = "porterr"
          /\ input' = NoInput
          /\ UNCHANGED clientLines
    /\ UNCHANGED <<peers, flags, admin, rwlock, dirvars>>

\* "200 PORT command successful." or "500 ... Command not understood."
AnswerPort ==
    /\ pc \in {"portok", "porterr"}
    /\ \E ok \in BOOLEAN :
          /\ WriteClient(Control, IF pc = "portok" THEN <<"200port">> ELSE <<"500">>, ok)
          /\ pc' = IF ok THEN "reset" ELSE "delete"
    /\ UNCHANGED <<peers, input, flags, admin, datathread, dirvars, thr>>

\* Mutant: SetDirection(0) is forgotten
ResetTransferMutant ==
    /\ pc = "reset"
    /\ pc' = "select"
    /\ gotpasvcmd' = FALSE /\ gotportcmd' = FALSE /\ cpsvcmd' = FALSE
    /\ dirlisting' = FALSE
    /\ UNCHANGED <<peers, clientLines, input, admin, datathread, rwlock, directionset,
                   direction, thr>>

\* "reset datathread vars", after the thread was started
ResetTransfer ==
    /\ pc = "reset"
    /\ pc' = "select"
    /\ gotpasvcmd' = FALSE /\ gotportcmd' = FALSE /\ cpsvcmd' = FALSE
    /\ dirlisting' = FALSE /\ directionset' = FALSE
    /\ UNCHANGED <<peers, clientLines, input, admin, datathread, rwlock, direction, thr>>

\* the site answered a message with "200 Message sent successfully to"
MsgReply(lines) == Has(lines, "200msg") \/ Has(lines, "200adminmsg")

\* the answer to the bouncer's own message is not shown
SwallowMsgReply ==
    /\ ActOnSite /\ ~PassiveReply /\ ~ActiveReply
    /\ sendadminmsg /\ MsgReply(input.lines)
    /\ sendadminmsg' = FALSE
    /\ pc' = "select" /\ input' = NoInput
    /\ UNCHANGED <<peers, clientLines, flags, admin_msg, datathread, rwlock, dirvars, thr>>

\* any other reply goes to the client; FtpCode looks at the last line, and
\* after a 226 the waiting message to the admins is sent
ForwardReply ==
    /\ ActOnSite /\ ~PassiveReply /\ ~ActiveReply
    /\ ~(sendadminmsg /\ MsgReply(input.lines))
    /\ \E ok \in BOOLEAN :
          /\ WriteClient(Control, input.lines, ok)
          /\ IF ~ok
             THEN Exit
             ELSE IF input.lines[Len(input.lines)] = "226" /\ admin_msg
             THEN pc' = "adminmsg" /\ UNCHANGED input
             ELSE pc' = "select" /\ input' = NoInput
    /\ UNCHANGED <<peers, flags, admin, datathread, dirvars, thr>>

\* Mutant: sendadminmsg is not set
SendAdminMsgMutant ==
    /\ pc = "adminmsg"
    /\ \E ok \in BOOLEAN :
          /\ WriteSite(<<"ADMINMSG">>, ok)
          /\ IF ok
             THEN /\ admin_msg' = FALSE /\ UNCHANGED sendadminmsg
                  /\ pc' = "select" /\ input' = NoInput
             ELSE Exit /\ UNCHANGED admin
    /\ UNCHANGED <<clientLines, flags, datathread, rwlock, dirvars, thr>>

SendAdminMsg ==
    /\ pc = "adminmsg"
    /\ \E ok \in BOOLEAN :
          /\ WriteSite(<<"ADMINMSG">>, ok)
          /\ IF ok
             THEN /\ admin_msg' = FALSE /\ sendadminmsg' = TRUE
                  /\ pc' = "select" /\ input' = NoInput
             ELSE Exit /\ UNCHANGED admin
    /\ UNCHANGED <<clientLines, flags, datathread, rwlock, dirvars, thr>>

-----------------------------------------------------------------------------
(* Commands of the client.  A read may hold further lines behind the one   *)
(* the handler looks at: they are sent on with it, or dropped with it      *)
(* where the handler sends a text of its own.                              *)

\* a write to the site that ends the handler
SendOn(cmds) ==
    /\ \E ok \in BOOLEAN :
          /\ WriteSite(cmds, ok)
          /\ IF ok THEN pc' = "select" /\ input' = NoInput ELSE Exit
    /\ UNCHANGED <<clientLines, admin, datathread, rwlock, thr>>

Cmd == input.lines[1]

HandlePasv ==
    /\ ActOnClient /\ Cmd = "PASV"
    /\ gotpasvcmd' = (gotpasvcmd \/ Bounce)
    /\ SendOn(input.lines)
    /\ UNCHANGED <<gotportcmd, cpsvcmd, dirvars>>

HandleCpsv ==
    /\ ActOnClient /\ Cmd = "CPSV"
    /\ IF Bounce
       THEN /\ gotpasvcmd' = TRUE /\ cpsvcmd' = TRUE
            /\ SendOn(IF SslForward THEN <<"CPSV">> ELSE <<"PASV">>)
       ELSE SendOn(input.lines) /\ UNCHANGED <<gotpasvcmd, cpsvcmd>>
    /\ UNCHANGED <<gotportcmd, dirvars>>

HandlePort ==
    /\ ActOnClient /\ Cmd = "PORT"
    /\ SendOn(IF Bounce THEN <<"PASV">> ELSE input.lines)
    /\ UNCHANGED <<flags, dirvars>>

HandleAbor ==
    /\ ActOnClient /\ Cmd = "ABOR"
    /\ SendOn(<<"ABOR">>)
    /\ UNCHANGED <<flags, dirvars>>

\* STOR, RETR, LIST, NLST: the direction and dirlisting first ...
DirectionOf(cmd) == IF cmd = "STOR" THEN "upload" ELSE "download"

\* what NoteDirection leaves for the data thread that runs
Arm(cmd) ==
    thr' = IF datathread = Null \/ ~Alive(datathread) THEN thr
           ELSE [thr EXCEPT ![datathread].armed =
                    @ \cup {DirectionOf(cmd)} \cup (IF cmd = "LIST" THEN {"list"} ELSE {})]

\* Mutant: LIST is not a download
NoteDirectionMutant ==
    /\ ActOnClient /\ Cmd \in {"STOR", "RETR", "LIST"}
    /\ direction' = IF Cmd = "LIST" THEN direction ELSE DirectionOf(Cmd)
    /\ dirlisting' = (dirlisting \/ Cmd = "LIST")
    /\ Arm(Cmd)
    /\ pc' = "setdirection"
    /\ UNCHANGED <<peers, clientLines, input, flags, admin, datathread, rwlock, directionset>>

\* Mutant: a STOR or RETR behind a LIST clears dirlisting
NoteListingMutant ==
    /\ ActOnClient /\ Cmd \in {"STOR", "RETR", "LIST"}
    /\ direction' = DirectionOf(Cmd)
    /\ dirlisting' = (Cmd = "LIST")
    /\ Arm(Cmd)
    /\ pc' = "setdirection"
    /\ UNCHANGED <<peers, clientLines, input, flags, admin, datathread, rwlock, directionset>>

NoteDirection ==
    /\ ActOnClient /\ Cmd \in {"STOR", "RETR", "LIST"}
    /\ direction' = DirectionOf(Cmd)
    /\ dirlisting' = (dirlisting \/ Cmd = "LIST")
    /\ Arm(Cmd)
    /\ pc' = "setdirection"
    /\ UNCHANGED <<peers, clientLines, input, flags, admin, datathread, rwlock, directionset>>

\* Mutant: the transfer command goes on without SetDirection(1)
SetDirectionMutant ==
    /\ pc = "setdirection"
    /\ pc' = "sendtransfer"
    /\ UNCHANGED <<peers, clientLines, input, flags, admin, datathread, rwlock,
                   dirvars, thr>>

\* ... then SetDirection(1) ...
SetDirection ==
    /\ pc = "setdirection"
    /\ directionset' = TRUE
    /\ pc' = "sendtransfer"
    /\ UNCHANGED <<peers, clientLines, input, flags, admin, datathread, rwlock,
                   direction, dirlisting, thr>>

\* ... then the command goes to the site
SendTransfer ==
    /\ pc = "sendtransfer"
    /\ SendOn(input.lines)
    /\ UNCHANGED <<flags, dirvars>>

ForwardCommand ==
    /\ ActOnClient /\ Cmd \in {"MSG", "NOOP"}
    /\ SendOn(input.lines)
    /\ UNCHANGED <<flags, dirvars>>

ControlNext ==
    \/ ReadSite \/ ReadClient \/ SetQuit \/ JoinDataThread \/ Destroy
    \/ CreatePassive \/ CreateActive \/ AnswerPort \/ ResetTransfer
    \/ SwallowMsgReply \/ ForwardReply \/ SendAdminMsg
    \/ HandlePasv \/ HandleCpsv \/ HandlePort \/ HandleAbor
    \/ NoteDirection \/ SetDirection \/ SendTransfer \/ ForwardCommand

-----------------------------------------------------------------------------
(* The data thread: dataloop and what makedatathread does after it *)

Goto(t, where) == thr' = [thr EXCEPT ![t].pc = where]
EndThread(t)   == thr' = [thr EXCEPT ![t] = Ended]

ControlState == <<pc, input, flags, sendadminmsg, datathread, dirvars>>

\* Connect to the address in the site's 227: it may fail, time out or see
\* shouldquit, and then the client is told nothing
ConnectSite(t) ==
    /\ thr[t].pc = "connect"
    /\ \/ Goto(t, IF thr[t].active THEN "open" ELSE "listen")
       \/ EndThread(t)
    /\ UNCHANGED <<peers, clientLines, admin_msg, rwlock, ControlState>>

\* up to three tries to bind the port the client will be told
ListenForClient(t) ==
    /\ thr[t].pc = "listen"
    /\ \/ Goto(t, "announce")
       \/ Goto(t, "refuse")
       \/ EndThread(t)
    /\ UNCHANGED <<peers, clientLines, admin_msg, rwlock, ControlState>>

\* Mutant: the address is written to the site's socket
AnnounceOrRefuseMutant(t) ==
    /\ thr[t].pc \in {"announce", "refuse"}
    /\ \E ok \in BOOLEAN :
          /\ WriteSite(IF thr[t].pc = "announce" THEN <<"227bnc">> ELSE <<"425">>, ok)
          /\ IF ok /\ thr[t].pc = "announce" THEN Goto(t, "open") ELSE EndThread(t)
    /\ UNCHANGED <<clientLines, rwlock, admin_msg, ControlState>>

\* the bouncer's own 227, or 425 when there is no port to listen on
AnnounceOrRefuse(t) ==
    /\ thr[t].pc \in {"announce", "refuse"}
    /\ \E ok \in BOOLEAN :
          /\ WriteClient(t, IF thr[t].pc = "announce" THEN <<"227bnc">> ELSE <<"425">>, ok)
          /\ IF ok /\ thr[t].pc = "announce" THEN Goto(t, "open") ELSE EndThread(t)
    /\ UNCHANGED <<peers, admin_msg, ControlState>>

\* Accept from the client or Connect to it, then TLS with the site
OpenClient(t) ==
    /\ thr[t].pc = "open"
    /\ Goto(t, "gate") \/ EndThread(t)
    /\ UNCHANGED <<peers, clientLines, admin_msg, rwlock, ControlState>>

\* Mutant: the wait for the direction does not look at the quit flag
GivesUpWaitingMutant(t) == FALSE
GivesUpWaiting(t) == ~directionset /\ thr[t].quit

\* while(!DirectionSet()) if(getQuit()) return, before TLS with the client
\* and again after it
WaitDirection(t) ==
    /\ thr[t].pc \in {"gate", "gate2"}
    /\ \/ /\ directionset
          /\ Goto(t, IF thr[t].pc = "gate" THEN "tls" ELSE "policy")
       \/ /\ GivesUpWaiting(t)
          /\ EndThread(t)
    /\ UNCHANGED <<peers, clientLines, admin_msg, rwlock, ControlState>>

\* TLS with the client, as its client for a CPSV that is not a listing
TlsWithClient(t) ==
    /\ thr[t].pc = "tls"
    /\ \/ thr' = [thr EXCEPT ![t].pc = "gate2",
                             ![t].role = IF thr[t].cpsv /\ ~dirlisting
                                         THEN "client" ELSE "server"]
       \/ EndThread(t)
    /\ UNCHANGED <<peers, clientLines, admin_msg, rwlock, ControlState>>

\* The TLS policy and, for an FXP, the address: go on, or 427.  The
\* fingerprint list may leave a message for the admins first.
CheckPolicy(t) ==
    /\ thr[t].pc = "policy"
    /\ \/ Goto(t, "enter") /\ UNCHANGED admin_msg
       \/ /\ Goto(t, "checkdl") \/ Goto(t, "deny")
          /\ \/ UNCHANGED admin_msg
             \/ FpNewIpMsg /\ admin_msg' = TRUE
    /\ UNCHANGED <<peers, clientLines, rwlock, ControlState>>

\* An FXP: direction is read once for the list of downloads and once for
\* that of uploads.
CheckDirection(t) ==
    /\ thr[t].pc \in {"checkdl", "checkul"}
    /\ \/ Goto(t, IF thr[t].pc = "checkdl" THEN "checkul" ELSE "enter")
       \/ /\ direction = IF thr[t].pc = "checkdl" THEN "download" ELSE "upload"
          /\ Goto(t, "deny")
    /\ UNCHANGED <<peers, clientLines, admin_msg, rwlock, ControlState>>

DenyTransfer(t) ==
    /\ thr[t].pc = "deny"
    /\ \E ok \in BOOLEAN : WriteClient(t, <<"427">>, ok)
    /\ EndThread(t)
    /\ UNCHANGED <<peers, admin_msg, ControlState>>

\* Mutant: the quit flag is not tested
EnterPumpMutant(t) ==
    /\ thr[t].pc = "enter"
    /\ Goto(t, IF SpeedWrite THEN "io" ELSE "pump")
    /\ UNCHANGED <<peers, clientLines, admin_msg, rwlock, ControlState>>

\* the loop, which tests the quit flag before every round
EnterPump(t) ==
    /\ thr[t].pc = "enter"
    /\ IF thr[t].quit THEN EndThread(t)
       ELSE Goto(t, IF SpeedWrite THEN "io" ELSE "pump")
    /\ UNCHANGED <<peers, clientLines, admin_msg, rwlock, ControlState>>

\* the select loop looks at the quit flag twice a second
PumpQuit(t) ==
    /\ thr[t].pc = "pump" /\ thr[t].quit
    /\ EndThread(t)
    /\ UNCHANGED <<peers, clientLines, admin_msg, rwlock, ControlState>>

\* a peer closes, fails or is silent for read_write_timeout
PumpEnd(t) ==
    /\ thr[t].pc = "pump"
    /\ EndThread(t)
    /\ UNCHANGED <<peers, clientLines, admin_msg, rwlock, ControlState>>

\* select found a readable socket: Read and Write follow
PumpReady(t) ==
    /\ thr[t].pc = "pump"
    /\ Goto(t, "io")
    /\ UNCHANGED <<peers, clientLines, admin_msg, rwlock, ControlState>>

\* The data sockets are blocking: SRead, SWrite and the send of DataWrite
\* return only when a peer sends, reads, closes or fails; then the quit flag
\* is tested.
IoReturns(t) ==
    /\ thr[t].pc = "io"
    /\ Goto(t, "enter") \/ EndThread(t)
    /\ UNCHANGED <<peers, clientLines, admin_msg, rwlock, ControlState>>

\* what the thread does without waiting for a transfer to end
DataStep(t) ==
    \/ ConnectSite(t) \/ ListenForClient(t) \/ AnnounceOrRefuse(t)
    \/ OpenClient(t) \/ WaitDirection(t) \/ TlsWithClient(t)
    \/ CheckPolicy(t) \/ CheckDirection(t) \/ DenyTransfer(t) \/ EnterPump(t) \/ PumpQuit(t)

\* what a peer decides
TransferStep(t) == PumpEnd(t) \/ PumpReady(t) \/ IoReturns(t)

DataNext == \E t \in Tid : DataStep(t) \/ TransferStep(t)

-----------------------------------------------------------------------------
(* The environment *)

bouncer == <<clientLines, pc, input, flags, admin, datathread, rwlock, dirvars, thr>>

\* every reply the client waits for has arrived, the bouncer's own 227 included
Quiet ==
    /\ pc = "select" /\ toBnc = <<>> /\ toSite = <<>> /\ fromSite = <<>>
    /\ \A t \in Tid : thr[t].active \/
                     thr[t].pc \notin {"connect", "listen", "announce", "refuse"}

ClientSends ==
    /\ clientUp /\ pc # "gone" /\ sent < MaxCmds
    /\ \E c \in Commands :
          /\ Pipelining \/ (Quiet /\ (siteXfer => c = "ABOR"))
          /\ toBnc' = Append(toBnc, c)
    /\ sent' = sent + 1
    /\ UNCHANGED <<toSite, fromSite, clientUp, siteUp, siteXfer, limited, bouncer>>

PeerCloses ==
    /\ pc # "gone"
    /\ \/ clientUp /\ clientUp' = FALSE /\ UNCHANGED siteUp
       \/ siteUp /\ siteUp' = FALSE /\ UNCHANGED clientUp
    /\ UNCHANGED <<toBnc, toSite, fromSite, siteXfer, sent, limited, bouncer>>

\* what the site answers; "other" is a reply without an address that is
\* neither 226 nor the confirmation of a message
Answers(c) ==
    CASE c \in {"PASV", "CPSV"}         -> {<<"227site">>, <<"other">>}
      [] c = "ABOR"                     -> IF siteXfer THEN {<<"other", "226">>} ELSE {<<"226">>}
      [] c \in {"STOR", "RETR", "LIST"} -> {<<"other">>}
      [] c = "MSG"                      -> {<<"200msg">>, <<"other">>}
      [] c = "ADMINMSG"                 -> {<<"200adminmsg">>, <<"other">>}
      [] OTHER                          -> {<<"other">>}

SiteAnswers ==
    /\ siteUp /\ pc # "gone" /\ toSite # <<>>
    /\ toSite' = Tail(toSite)
    /\ \E a \in Answers(Head(toSite)) : fromSite' = fromSite \o a
    /\ \/ Head(toSite) = "ABOR" /\ siteXfer' = FALSE
       \/ Head(toSite) \in {"STOR", "RETR", "LIST"} /\ siteXfer' = TRUE
       \/ Head(toSite) # "ABOR" /\ UNCHANGED siteXfer
    /\ UNCHANGED <<toBnc, clientUp, siteUp, sent, limited, bouncer>>

\* the site's side of the transfer is over
SiteFinishes ==
    /\ siteUp /\ pc # "gone" /\ siteXfer
    /\ siteXfer' = FALSE
    /\ fromSite' = Append(fromSite, "226")
    /\ UNCHANGED <<toBnc, toSite, clientUp, siteUp, sent, limited, bouncer>>

\* the counters all sessions share pass a limit, or a new day resets them
LimitChanges ==
    /\ UseLimits /\ pc # "gone"
    /\ limited' = ~limited
    /\ UNCHANGED <<toBnc, toSite, fromSite, clientUp, siteUp, siteXfer, sent, bouncer>>

Terminated == pc = "gone" /\ UNCHANGED vars

EnvNext == ClientSends \/ PeerCloses \/ SiteAnswers \/ SiteFinishes \/ LimitChanges

-----------------------------------------------------------------------------
Init ==
    /\ toBnc = <<>> /\ toSite = <<>> /\ fromSite = <<>> /\ clientLines = <<>>
    /\ clientUp = TRUE /\ siteUp = TRUE /\ siteXfer = FALSE /\ sent = 0
    /\ limited = FALSE
    /\ pc = "select" /\ input = NoInput
    /\ gotpasvcmd = FALSE /\ gotportcmd = FALSE /\ cpsvcmd = FALSE
    /\ sendadminmsg = FALSE /\ admin_msg = FALSE
    /\ datathread = Null /\ rwlock = Free
    /\ directionset = FALSE /\ direction = "none" /\ dirlisting = FALSE
    /\ thr = [t \in Tid |-> NoThread]

Next == ControlNext \/ DataNext \/ EnvNext \/ Terminated

Spec == Init /\ [][Next]_vars

(* Fairness: a thread that can take a step takes one.  Connect, Accept and  *)
(* the TLS handshakes end by their timeouts; a transfer and the blocking   *)
(* reads and writes of its data end only when a peer does something, and   *)
(* no peer is assumed to.                                                  *)
Fairness == WF_vars(ControlNext) /\ \A t \in Tid : WF_vars(DataStep(t))
FairSpec == Spec /\ Fairness

(* The same with peers that go on with the transfer or close, so that a    *)
(* blocking read or write returns.                                         *)
LivePeersSpec == FairSpec /\ \A t \in Tid : WF_vars(IoReturns(t))

-----------------------------------------------------------------------------
(* Properties *)

Replies      == {"227site", "226", "other", "200msg", "200adminmsg"}
OwnLines     == {"227bnc", "425", "427", "200port", "500"}
SiteCommands == AllCommands \cup {"ADMINMSG"}

\* Every variable has its type.
TypeOK ==
    /\ toBnc \in Seq(AllCommands) /\ toSite \in Seq(SiteCommands)
    /\ fromSite \in Seq(Replies) /\ clientLines \in Seq(Replies \cup OwnLines)
    /\ pc \in {"select", "act", "delete", "join", "destroy", "gone", "reset",
               "portok", "porterr", "adminmsg", "setdirection", "sendtransfer"}
    /\ \/ input = NoInput
       \/ input \in [from : {"site"}, lines : Seq(Replies)]
       \/ input \in [from : {"client"}, lines : Seq(AllCommands)]
    /\ gotpasvcmd \in BOOLEAN /\ gotportcmd \in BOOLEAN /\ cpsvcmd \in BOOLEAN
    /\ sendadminmsg \in BOOLEAN /\ admin_msg \in BOOLEAN
    /\ directionset \in BOOLEAN /\ dirlisting \in BOOLEAN
    /\ clientUp \in BOOLEAN /\ siteUp \in BOOLEAN
    /\ siteXfer \in BOOLEAN /\ limited \in BOOLEAN
    /\ direction \in {"none", "upload", "download"}
    /\ sent \in 0 .. MaxCmds
    /\ datathread \in Tid \cup {Null}
    /\ rwlock \in Tid \cup {Control, Free}
    /\ thr \in [Tid -> Thread]

\* A data thread that exists, running or not yet joined, is the one the
\* control thread points to, so no PASV or PORT loses one, and none is left
\* when the control object its pointer leads to is deleted.
DataThreadOwned ==
    /\ \A t \in Tid : thr[t].pc # "none" => t = datathread
    /\ pc \in {"destroy", "gone"} => datathread = Null

\* The address of the site never reaches the client of a bounced session,
\* whatever the client pipelines and whichever reply is taken for the answer
\* to the PASV (the check in Write).
SiteAddressHidden ==
    TrafficBnc /\ ~Debug /\ ~Relinked => ~Has(clientLines, "227site")

\* where the control thread has started a thread and not yet taken back the
\* direction of the transfer before it
StaleDirection ==
    \/ pc \in {"portok", "reset"}
    \/ pc \in {"delete", "join"} /\ input = NoInput

PassesWait(t) == thr[t].pc = "gate2" /\ thr'[t].pc = "policy"

\* A data thread goes on to its transfer only for a STOR, RETR or LIST that
\* came after it was started: the direction of an earlier transfer can be
\* taken for its own only before the control thread has reset it.
DirectionIsOwn ==
    [][\A t \in Tid : PassesWait(t) => thr[t].armed # {} \/ StaleDirection]_vars

\* Wherever the data thread reads the direction, for the FXP lists and for
\* the way it copies, it reads one the client asked for on this connection.
PolicyForOwnDirection ==
    \A t \in Tid :
        thr[t].pc \in {"checkdl", "checkul", "enter"} /\ thr[t].armed # {}
            => direction \in thr[t].armed

\* A listing is never answered with the TLS roles of a CPSV transfer.
ListingAcceptsTls ==
    [][\A t \in Tid :
          thr[t].pc = "tls" /\ thr'[t].pc = "gate2" /\ "list" \in thr[t].armed
              => thr'[t].role = "server"]_vars

\* the session has something to do: a handler or the destructor is not done,
\* a line waits, a peer has closed
Busy ==
    /\ pc # "gone"
    /\ \/ pc # "select" \/ fromSite # <<>> \/ toBnc # <<>>
       \/ ~clientUp \/ ~siteUp

\* Every line is handled and a session whose peer has closed ends: no join,
\* wait or lock stops the control thread for good.
SessionServed == Busy ~> ~Busy

\* The same, except that rwlock may be left held: nothing else stops it.
SessionServedUnlessLocked == Busy ~> (~Busy \/ rwlock # Free)

\* A transfer command handled for a waiting data thread lets it go on.
ArmedTransferStarts ==
    \A t \in Tid :
        (thr[t].pc = "gate" /\ thr[t].armed # {}) ~> thr[t].pc # "gate"

\* A client that waits for its replies never sees the confirmation of a message
\* the bouncer sent to the admins in its name.
AdminConfirmationHidden == ~Has(clientLines, "200adminmsg")

(* What the source says and the code does not do. *)

\* controlthread.cc: "Write() tried to send site ip - drop connection".  A
\* session whose main loop returned is dropped.
DropEndsSession == (pc = "delete" /\ input = NoInput) ~> pc = "gone"
=============================================================================
