-------------------------- MODULE Transfer_proofs --------------------------
(* Proofs about Transfer, for every configuration, every client and any    *)
(* number of identities for data threads.                                  *)
EXTENDS Transfer, TLAPS

\* Where the handlers of client commands hold what the client sent, and what
\* is done with the pointer when a reply is taken for the answer to a PASV.
ControlInv ==
    /\ pc \in {"setdirection", "sendtransfer"} => input.from = "client"
    /\ pc \in {"portok", "porterr", "reset"} => input = NoInput
    /\ pc = "join" => datathread # Null
    /\ ActOnSite /\ (PassiveReply \/ ActiveReply) => datathread = Null

\* The direction the control thread has set, and the one the data thread has
\* been given.
DirectionInv ==
    /\ \A t \in Tid : ~Alive(t) => thr[t].armed = {}
    /\ \A t \in Tid : thr[t].armed # {} => direction \in thr[t].armed
    /\ \A t \in Tid : "list" \in thr[t].armed => dirlisting
    /\ \A t \in Tid : pc \in {"portok", "porterr", "reset"} => thr[t].armed = {}
    /\ \A t \in Tid : Alive(t) /\ pc = "setdirection" => thr[t].armed # {}
    /\ \A t \in Tid : Alive(t) /\ directionset /\ ~StaleDirection => thr[t].armed # {}

IInv == TypeOK /\ DataThreadOwned /\ ControlInv /\ DirectionInv

USE DEF Null, Control, Free

-----------------------------------------------------------------------------
(* The queues: what a read takes and what a write adds keep their types. *)

LEMMA EmptyTyped ==
    \A S : <<>> \in Seq(S)
  OBVIOUS

LEMMA AppendTyped ==
    ASSUME NEW S, NEW a \in Seq(S), NEW b \in Seq(S)
    PROVE  a \o b \in Seq(S)
  OBVIOUS

LEMMA SeqSubset ==
    ASSUME NEW S, NEW T, S \subseteq T, NEW a \in Seq(S)
    PROVE  a \in Seq(T)
  OBVIOUS

\* A batch read off a queue and what is left of the queue.
LEMMA ReadTyped ==
    ASSUME NEW S, NEW q \in Seq(S), NEW n \in Nat \ {0}, n <= Len(q)
    PROVE  /\ SubSeq(q, 1, n) \in Seq(S)
           /\ SubSeq(q, n + 1, Len(q)) \in Seq(S)
           /\ SubSeq(q, 1, n) # <<>>
  OBVIOUS

-----------------------------------------------------------------------------
\* The two states a thread is in that does not run.
LEMMA IdleThreads == NoThread \in Thread /\ Ended \in Thread
  BY DEF NoThread, Ended, Thread

\* What the steps write into the record of a thread leaves the rest of it.
LEMMA QuitTyped ==
    ASSUME NEW x \in Thread
    PROVE  LET r == [x EXCEPT !.quit = TRUE]
           IN  r \in Thread /\ r.pc = x.pc /\ r.armed = x.armed
  BY DEF Thread

LEMMA RoleTyped ==
    ASSUME NEW x \in Thread, NEW role \in {"server", "client"}
    PROVE  LET r == [x EXCEPT !.pc = "gate2", !.role = role]
           IN  r \in Thread /\ r.pc = "gate2" /\ r.armed = x.armed
  BY DEF Thread

LEMMA InitInv == Init => IInv
  <1> SUFFICES ASSUME Init PROVE IInv
    OBVIOUS
  <1> USE DEF Init
  <1>1. TypeOK
    <2>1. thr \in [Tid -> Thread]
      BY IdleThreads
    <2>2. <<>> \in Seq(AllCommands) /\ <<>> \in Seq(SiteCommands)
          /\ <<>> \in Seq(Replies) /\ <<>> \in Seq(Replies \cup OwnLines)
      BY EmptyTyped, Zenon
    <2>3. sent \in 0 .. MaxCmds
      BY BoundsAssumption DEF BoundsAssumption
    <2> QED
      BY <2>1, <2>2, <2>3 DEF TypeOK
  <1>2. DataThreadOwned
    BY DEF DataThreadOwned, NoThread
  <1>3. ControlInv
    BY DEF ControlInv, ActOnSite
  <1>4. DirectionInv
    BY DEF DirectionInv, Alive, NoThread, StaleDirection
  <1> QED
    BY <1>1, <1>2, <1>3, <1>4 DEF IInv

-----------------------------------------------------------------------------
(* Steps of a data thread.  All of them replace the record of a running    *)
(* thread by one with the same history, or end it, and leave the control   *)
(* thread's state alone.                                                   *)

LEMMA ThreadMove ==
    ASSUME IInv, NEW t \in Tid, Alive(t), NEW r \in Thread,
           \/ r = Ended
           \/ r.pc \notin {"none", "ended"} /\ r.armed = thr[t].armed,
           thr' = [thr EXCEPT ![t] = r],
           UNCHANGED ControlState
    PROVE  thr' \in [Tid -> Thread] /\ DataThreadOwned' /\ ControlInv' /\ DirectionInv'
  <1> USE DEF IInv, TypeOK
  <1>1. thr' \in [Tid -> Thread]
    OBVIOUS
  <1>2. DataThreadOwned'
    BY DEF DataThreadOwned, ControlState, Alive
  <1>3. ControlInv'
    BY DEF ControlInv, ControlState, flags, dirvars, ActOnSite, PassiveReply, ActiveReply
  <1>4. DirectionInv'
    <2>1. UNCHANGED <<pc, input, direction, directionset, dirlisting>>
      BY DEF ControlState, dirvars
    <2>2. Ended.armed = {} /\ Ended.pc = "ended"
      BY DEF Ended, NoThread
    <2>3. ASSUME NEW u \in Tid
          PROVE  /\ thr'[u].armed \in {thr[u].armed, {}}
                 /\ Alive(u)' => Alive(u) /\ thr'[u].armed = thr[u].armed
                 /\ ~Alive(u)' => thr'[u].armed = {} \/ ~Alive(u)
      BY <2>2 DEF Alive
    <2> QED
      BY <2>1, <2>3 DEF DirectionInv, StaleDirection
  <1> QED
    BY <1>1, <1>2, <1>3, <1>4

Kept == thr' \in [Tid -> Thread] /\ DataThreadOwned' /\ ControlInv' /\ DirectionInv'

Places == {"connect", "listen", "announce", "refuse", "open", "gate", "tls",
           "gate2", "policy", "checkdl", "checkul", "deny", "enter", "pump", "io"}

LEMMA GotoKeeps ==
    ASSUME IInv, NEW t \in Tid, Alive(t), NEW where \in Places, Goto(t, where),
           UNCHANGED ControlState
    PROVE  Kept
  <1> DEFINE r == [thr[t] EXCEPT !.pc = where]
  <1>1. thr \in [Tid -> Thread]
    BY DEF IInv, TypeOK
  <1>2. r \in Thread /\ r.pc = where /\ r.armed = thr[t].armed
    BY <1>1 DEF Thread, Places
  <1>3. thr' = [thr EXCEPT ![t] = r]
    BY <1>1 DEF Goto
  <1>4. where \notin {"none", "ended"}
    BY DEF Places
  <1> QED
    BY <1>2, <1>3, <1>4, ThreadMove DEF Kept

LEMMA EndKeeps ==
    ASSUME IInv, NEW t \in Tid, Alive(t), EndThread(t), UNCHANGED ControlState
    PROVE  Kept
  BY IdleThreads, ThreadMove DEF Kept, EndThread

\* what the writers leave of the lock and of the lines the client has
LEMMA WriteClientTyped ==
    ASSUME TypeOK, NEW who \in Tid \cup {Control},
           NEW lines \in Seq(Replies \cup OwnLines), NEW ok,
           WriteClient(who, lines, ok)
    PROVE  rwlock' \in Tid \cup {Control, Free} /\ clientLines' \in Seq(Replies \cup OwnLines)
  BY DEF TypeOK, WriteClient

LEMMA OwnLineTyped ==
    ASSUME NEW x \in OwnLines
    PROVE  <<x>> \in Seq(Replies \cup OwnLines)
  OBVIOUS

LEMMA DataInv ==
    ASSUME IInv, NEW t \in Tid, DataStep(t) \/ TransferStep(t)
    PROVE  IInv'
  <1>1. ASSUME Kept, UNCHANGED ControlState, UNCHANGED peers, admin_msg' \in BOOLEAN,
               rwlock' \in Tid \cup {Control, Free},
               clientLines' \in Seq(Replies \cup OwnLines)
        PROVE  IInv'
    BY <1>1 DEF IInv, TypeOK, Kept, ControlState, peers, flags, dirvars
  <1>2. ASSUME Kept, UNCHANGED <<ControlState, peers, admin_msg, rwlock, clientLines>>
        PROVE  IInv'
    BY <1>1, <1>2 DEF IInv, TypeOK
  <1>3. CASE ConnectSite(t)
    <2>1. Alive(t) /\ UNCHANGED ControlState
      BY <1>3 DEF ConnectSite, Alive
    <2>2. Kept
      BY <1>3, <2>1, GotoKeeps, EndKeeps DEF ConnectSite, Places
    <2> QED
      BY <1>2, <1>3, <2>2 DEF ConnectSite
  <1>4. CASE ListenForClient(t)
    <2>1. Alive(t) /\ UNCHANGED ControlState
      BY <1>4 DEF ListenForClient, Alive
    <2>2. Kept
      BY <1>4, <2>1, GotoKeeps, EndKeeps DEF ListenForClient, Places
    <2> QED
      BY <1>2, <1>4, <2>2 DEF ListenForClient
  <1>5. CASE AnnounceOrRefuse(t)
    <2>1. Alive(t) /\ UNCHANGED ControlState
      BY <1>5 DEF AnnounceOrRefuse, Alive
    <2>2. Kept
      BY <1>5, <2>1, GotoKeeps, EndKeeps DEF AnnounceOrRefuse, Places
    <2>3. PICK ok \in BOOLEAN :
             WriteClient(t, IF thr[t].pc = "announce" THEN <<"227bnc">> ELSE <<"425">>, ok)
      BY <1>5 DEF AnnounceOrRefuse
    <2>4. (IF thr[t].pc = "announce" THEN <<"227bnc">> ELSE <<"425">>)
             \in Seq(Replies \cup OwnLines)
      BY OwnLineTyped DEF OwnLines
    <2>5. rwlock' \in Tid \cup {Control, Free} /\ clientLines' \in Seq(Replies \cup OwnLines)
      BY <2>3, <2>4, WriteClientTyped DEF IInv
    <2>6. UNCHANGED peers /\ admin_msg' \in BOOLEAN
      BY <1>5 DEF AnnounceOrRefuse, IInv, TypeOK
    <2> QED
      BY <1>1, <2>1, <2>2, <2>5, <2>6
  <1>6. CASE OpenClient(t)
    <2>1. Alive(t) /\ UNCHANGED ControlState
      BY <1>6 DEF OpenClient, Alive
    <2>2. Kept
      BY <1>6, <2>1, GotoKeeps, EndKeeps DEF OpenClient, Places
    <2> QED
      BY <1>2, <1>6, <2>2 DEF OpenClient
  <1>7. CASE WaitDirection(t)
    <2>1. Alive(t) /\ UNCHANGED ControlState
      BY <1>7 DEF WaitDirection, Alive
    <2>2. Kept
      BY <1>7, <2>1, GotoKeeps, EndKeeps DEF WaitDirection, Places
    <2> QED
      BY <1>2, <1>7, <2>2 DEF WaitDirection
  <1>8. CASE TlsWithClient(t)
    <2>1. Alive(t) /\ UNCHANGED ControlState
      BY <1>8 DEF TlsWithClient, Alive
    <2>2. CASE EndThread(t)
      <3>1. Kept
        BY <2>1, <2>2, EndKeeps
      <3> QED
        BY <1>2, <1>8, <3>1 DEF TlsWithClient
    <2>3. CASE ~EndThread(t)
      <3> DEFINE r == [thr[t] EXCEPT !.pc = "gate2",
                                     !.role = IF thr[t].cpsv /\ ~dirlisting
                                              THEN "client" ELSE "server"]
      <3>1. thr \in [Tid -> Thread]
        BY DEF IInv, TypeOK
      <3>2. r \in Thread /\ r.pc = "gate2" /\ r.armed = thr[t].armed
        BY <3>1, RoleTyped
      <3>3. thr' = [thr EXCEPT ![t] = r]
        BY <1>8, <2>3, <3>1 DEF TlsWithClient
      <3>4. Kept
        BY <2>1, <3>2, <3>3, ThreadMove DEF Kept
      <3> QED
        BY <1>2, <1>8, <3>4 DEF TlsWithClient
    <2> QED
      BY <2>2, <2>3
  <1>9. CASE CheckPolicy(t)
    <2>1. Alive(t) /\ UNCHANGED ControlState
      BY <1>9 DEF CheckPolicy, Alive
    <2>6. Kept
      BY <1>9, <2>1, GotoKeeps DEF CheckPolicy, Places
    <2>7. admin_msg' \in BOOLEAN /\ UNCHANGED <<peers, clientLines, rwlock>>
      BY <1>9 DEF CheckPolicy, IInv, TypeOK
    <2> QED
      BY <1>1, <2>1, <2>6, <2>7 DEF IInv, TypeOK
  <1>14. CASE CheckDirection(t)
    <2>1. Alive(t) /\ UNCHANGED ControlState
      BY <1>14 DEF CheckDirection, Alive
    <2>2. Kept
      BY <1>14, <2>1, GotoKeeps DEF CheckDirection, Places
    <2> QED
      BY <1>2, <1>14, <2>2 DEF CheckDirection
  <1>10. CASE DenyTransfer(t)
    <2>1. Alive(t) /\ UNCHANGED ControlState
      BY <1>10 DEF DenyTransfer, Alive
    <2>2. Kept
      BY <1>10, <2>1, EndKeeps DEF DenyTransfer
    <2>3. PICK ok \in BOOLEAN : WriteClient(t, <<"427">>, ok)
      BY <1>10 DEF DenyTransfer
    <2>4. rwlock' \in Tid \cup {Control, Free} /\ clientLines' \in Seq(Replies \cup OwnLines)
      BY <2>3, OwnLineTyped, WriteClientTyped DEF IInv, OwnLines
    <2>5. UNCHANGED peers /\ admin_msg' \in BOOLEAN
      BY <1>10 DEF DenyTransfer, IInv, TypeOK
    <2> QED
      BY <1>1, <2>1, <2>2, <2>4, <2>5
  <1>11. CASE EnterPump(t)
    <2>1. Alive(t) /\ UNCHANGED ControlState
      BY <1>11 DEF EnterPump, Alive
    <2>2. Kept
      BY <1>11, <2>1, GotoKeeps, EndKeeps DEF EnterPump, Places
    <2> QED
      BY <1>2, <1>11, <2>2 DEF EnterPump
  <1>12. CASE PumpQuit(t) \/ PumpEnd(t)
    <2>1. Alive(t) /\ UNCHANGED ControlState
      BY <1>12 DEF PumpQuit, PumpEnd, Alive
    <2>2. Kept
      BY <1>12, <2>1, EndKeeps DEF PumpQuit, PumpEnd
    <2> QED
      BY <1>2, <1>12, <2>2 DEF PumpQuit, PumpEnd
  <1>15. CASE PumpReady(t)
    <2>1. Alive(t) /\ UNCHANGED ControlState
      BY <1>15 DEF PumpReady, Alive
    <2>2. Kept
      BY <1>15, <2>1, GotoKeeps DEF PumpReady, Places
    <2> QED
      BY <1>2, <1>15, <2>2 DEF PumpReady
  <1>13. CASE IoReturns(t)
    <2>1. Alive(t) /\ UNCHANGED ControlState
      BY <1>13 DEF IoReturns, Alive
    <2>2. Kept
      BY <1>13, <2>1, GotoKeeps, EndKeeps DEF IoReturns, Places
    <2> QED
      BY <1>2, <1>13, <2>2 DEF IoReturns
  <1> QED
    BY <1>3, <1>4, <1>5, <1>6, <1>7, <1>8, <1>9, <1>10, <1>11, <1>12, <1>13, <1>14, <1>15
       DEF DataStep, TransferStep

-----------------------------------------------------------------------------
(* Steps of the peers *)

LEMMA EnvInv ==
    ASSUME IInv, EnvNext
    PROVE  IInv'
  <1>1. UNCHANGED bouncer
    BY DEF EnvNext, ClientSends, PeerCloses, SiteAnswers, SiteFinishes, LimitChanges
  <1>2. DataThreadOwned' /\ ControlInv' /\ DirectionInv'
    BY <1>1 DEF IInv, bouncer, flags, dirvars, DataThreadOwned, ControlInv, DirectionInv,
                ActOnSite, PassiveReply, ActiveReply, Alive, StaleDirection
  <1>3. toBnc' \in Seq(AllCommands) /\ sent' \in 0 .. MaxCmds
    <2>1. CASE ClientSends
      <3>1. PICK c \in Commands : toBnc' = Append(toBnc, c)
        BY <2>1 DEF ClientSends
      <3>2. c \in AllCommands /\ toBnc \in Seq(AllCommands)
        BY BoundsAssumption DEF IInv, TypeOK
      <3>3. sent' \in 0 .. MaxCmds
        BY <2>1, BoundsAssumption DEF ClientSends, IInv, TypeOK
      <3> QED
        BY <3>1, <3>2, <3>3
    <2>2. CASE ~ClientSends
      BY <2>2 DEF EnvNext, PeerCloses, SiteAnswers, SiteFinishes, LimitChanges, IInv, TypeOK
    <2> QED
      BY <2>1, <2>2
  <1>4. toSite' \in Seq(SiteCommands) /\ fromSite' \in Seq(Replies)
    <2>1. CASE SiteAnswers
      <3>1. PICK a \in Answers(Head(toSite)) : fromSite' = fromSite \o a
        BY <2>1 DEF SiteAnswers
      <3>2. a \in Seq(Replies)
        <4>1. \A x, y \in Replies : <<x>> \in Seq(Replies) /\ <<x, y>> \in Seq(Replies)
          OBVIOUS
        <4>2. /\ "227site" \in Replies /\ "226" \in Replies /\ "other" \in Replies
              /\ "200msg" \in Replies /\ "200adminmsg" \in Replies
          BY DEF Replies
        <4> HIDE DEF Replies
        <4> QED
          BY <4>1, <4>2 DEF Answers
      <3>3. toSite' \in Seq(SiteCommands)
        BY <2>1 DEF SiteAnswers, IInv, TypeOK
      <3> QED
        BY <3>1, <3>2, <3>3, AppendTyped DEF IInv, TypeOK
    <2>2. CASE SiteFinishes
      <3>1. "226" \in Replies /\ fromSite \in Seq(Replies)
        BY DEF Replies, IInv, TypeOK
      <3> QED
        BY <2>2, <3>1 DEF SiteFinishes, IInv, TypeOK
    <2>3. CASE ~SiteAnswers /\ ~SiteFinishes
      BY <2>3 DEF EnvNext, ClientSends, PeerCloses, LimitChanges, IInv, TypeOK
    <2> QED
      BY <2>1, <2>2, <2>3
  <1>5. /\ clientUp' \in BOOLEAN /\ siteUp' \in BOOLEAN
        /\ siteXfer' \in BOOLEAN /\ limited' \in BOOLEAN
    BY DEF EnvNext, ClientSends, PeerCloses, SiteAnswers, SiteFinishes, LimitChanges,
           IInv, TypeOK
  <1>6. TypeOK'
    BY <1>1, <1>3, <1>4, <1>5 DEF IInv, TypeOK, bouncer, flags, admin, dirvars
  <1> QED
    BY <1>2, <1>6 DEF IInv

-----------------------------------------------------------------------------
(* Steps of the control thread *)

\* Most steps leave the data thread and the direction alone.
LEMMA ControlMove ==
    ASSUME IInv, UNCHANGED <<thr, datathread, dirvars>>, ~StaleDirection,
           pc' \in {"select", "act", "delete", "adminmsg", "sendtransfer"},
           pc' = "sendtransfer" => input'.from = "client",
           (ActOnSite /\ (PassiveReply \/ ActiveReply))' => datathread = Null
    PROVE  DataThreadOwned' /\ ControlInv' /\ DirectionInv'
  <1>1. DataThreadOwned'
    BY DEF IInv, DataThreadOwned
  <1>2. ControlInv'
    BY DEF ControlInv
  <1>3. DirectionInv'
    BY DEF IInv, DirectionInv, dirvars, Alive, StaleDirection
  <1> QED
    BY <1>1, <1>2, <1>3

LEMMA SendOnInv ==
    ASSUME IInv, pc \in {"act", "sendtransfer"}, NEW cmds \in Seq(SiteCommands),
           SendOn(cmds), UNCHANGED dirvars,
           gotpasvcmd' \in BOOLEAN, gotportcmd' \in BOOLEAN, cpsvcmd' \in BOOLEAN
    PROVE  IInv'
  <1>1. pc' \in {"select", "delete"} /\ input' = NoInput
    BY DEF SendOn, Exit
  <1>2. UNCHANGED <<clientLines, admin, datathread, rwlock, thr>>
    BY DEF SendOn
  <1>3. DataThreadOwned' /\ ControlInv' /\ DirectionInv'
    BY <1>1, <1>2, ControlMove DEF StaleDirection, ActOnSite
  <1>4. PICK ok \in BOOLEAN : WriteSite(cmds, ok)
    BY DEF SendOn
  <1>5. toSite' \in Seq(SiteCommands)
    <2>1. toSite \in Seq(SiteCommands) /\ toSite \o cmds \in Seq(SiteCommands)
      BY AppendTyped DEF IInv, TypeOK
    <2>2. toSite' = toSite \o cmds \/ toSite' = toSite
      BY <1>4 DEF WriteSite
    <2> QED
      BY <2>1, <2>2
  <1>6. TypeOK'
    BY <1>1, <1>2, <1>4, <1>5 DEF WriteSite, IInv, TypeOK, admin, dirvars
  <1> QED
    BY <1>3, <1>6 DEF IInv

\* what a client sent can be sent on to the site
LEMMA ClientInputTyped ==
    ASSUME TypeOK, input.from = "client"
    PROVE  input.lines \in Seq(AllCommands) /\ input.lines \in Seq(SiteCommands)
  <1>1. input.lines \in Seq(AllCommands)
    BY DEF TypeOK, NoInput
  <1> QED
    BY <1>1, SeqSubset DEF SiteCommands

LEMMA CommandTyped ==
    ASSUME NEW c \in SiteCommands
    PROVE  <<c>> \in Seq(SiteCommands)
  OBVIOUS

LEMMA CommandsInv ==
    ASSUME IInv,
           \/ HandlePasv \/ HandleCpsv \/ HandlePort \/ HandleAbor
           \/ SendTransfer \/ ForwardCommand
    PROVE  IInv'
  <1>1. input.from = "client"
    BY DEF HandlePasv, HandleCpsv, HandlePort, HandleAbor, SendTransfer, ForwardCommand,
           ActOnClient, IInv, ControlInv
  <1>2. input.lines \in Seq(SiteCommands)
    BY <1>1, ClientInputTyped DEF IInv
  <1>3. /\ <<"PASV">> \in Seq(SiteCommands) /\ <<"CPSV">> \in Seq(SiteCommands)
        /\ <<"ABOR">> \in Seq(SiteCommands)
    BY CommandTyped DEF SiteCommands, AllCommands
  <1>4. PICK cmds \in Seq(SiteCommands) : SendOn(cmds)
    BY <1>2, <1>3 DEF HandlePasv, HandleCpsv, HandlePort, HandleAbor, SendTransfer,
                       ForwardCommand
  <1>5. /\ pc \in {"act", "sendtransfer"}
        /\ UNCHANGED dirvars
        /\ gotpasvcmd' \in BOOLEAN /\ gotportcmd' \in BOOLEAN /\ cpsvcmd' \in BOOLEAN
    BY DEF HandlePasv, HandleCpsv, HandlePort, HandleAbor, SendTransfer, ForwardCommand,
           ActOnClient, IInv, TypeOK, flags
  <1> QED
    BY <1>4, <1>5, SendOnInv

\* A read takes a batch off one of the queues, or finds the peer gone.
LEMMA ReadSiteInv ==
    ASSUME IInv, ReadSite
    PROVE  IInv'
  <1>1. DataThreadOwned' /\ ControlInv' /\ DirectionInv'
    <2>1. UNCHANGED <<thr, datathread, dirvars, flags>> /\ ~StaleDirection
      BY DEF ReadSite, StaleDirection
    <2>2. pc' \in {"act", "delete"}
      BY DEF ReadSite, Exit
    <2>3. ~(ActOnSite /\ (PassiveReply \/ ActiveReply))'
      BY <2>1 DEF ReadSite, Exit, ActOnSite, PassiveReply, ActiveReply, DeletesFirst, flags
    <2> QED
      BY <2>1, <2>2, <2>3, ControlMove
  <1>2. /\ fromSite' \in Seq(Replies)
        /\ input' = NoInput \/ input' \in [from : {"site"}, lines : Seq(Replies)]
    <2>1. fromSite \in Seq(Replies)
      BY DEF IInv, TypeOK
    <2>2. CASE \E n \in 1 .. MaxBatch :
                 /\ n <= Len(fromSite)
                 /\ input' = [from |-> "site", lines |-> SubSeq(fromSite, 1, n)]
                 /\ fromSite' = SubSeq(fromSite, n + 1, Len(fromSite))
      <3>1. PICK n \in 1 .. MaxBatch :
                 /\ n <= Len(fromSite)
                 /\ input' = [from |-> "site", lines |-> SubSeq(fromSite, 1, n)]
                 /\ fromSite' = SubSeq(fromSite, n + 1, Len(fromSite))
        BY <2>2
      <3>2. n \in Nat \ {0}
        BY BoundsAssumption
      <3> QED
        BY <2>1, <3>1, <3>2, ReadTyped
    <2>3. CASE UNCHANGED fromSite /\ Exit
      BY <2>1, <2>3 DEF Exit
    <2> QED
      BY <2>2, <2>3 DEF ReadSite
  <1>3. TypeOK'
    BY <1>2 DEF ReadSite, Exit, IInv, TypeOK, flags, admin, dirvars
  <1> QED
    BY <1>1, <1>3 DEF IInv

LEMMA ReadClientInv ==
    ASSUME IInv, ReadClient
    PROVE  IInv'
  <1>1. DataThreadOwned' /\ ControlInv' /\ DirectionInv'
    <2>1. UNCHANGED <<thr, datathread, dirvars>> /\ ~StaleDirection
      BY DEF ReadClient, StaleDirection
    <2>2. pc' \in {"act", "delete"}
      BY DEF ReadClient, Exit
    <2>3. ~ActOnSite'
      BY DEF ReadClient, Exit, ActOnSite
    <2> QED
      BY <2>1, <2>2, <2>3, ControlMove
  <1>2. /\ toBnc' \in Seq(AllCommands)
        /\ input' = NoInput \/ input' \in [from : {"client"}, lines : Seq(AllCommands)]
    <2>1. toBnc \in Seq(AllCommands)
      BY DEF IInv, TypeOK
    <2>2. CASE \E n \in 1 .. MaxBatch :
                 /\ n <= Len(toBnc)
                 /\ input' = [from |-> "client", lines |-> SubSeq(toBnc, 1, n)]
                 /\ toBnc' = SubSeq(toBnc, n + 1, Len(toBnc))
      <3>1. PICK n \in 1 .. MaxBatch :
                 /\ n <= Len(toBnc)
                 /\ input' = [from |-> "client", lines |-> SubSeq(toBnc, 1, n)]
                 /\ toBnc' = SubSeq(toBnc, n + 1, Len(toBnc))
        BY <2>2
      <3>2. n \in Nat \ {0}
        BY BoundsAssumption
      <3> QED
        BY <2>1, <3>1, <3>2, ReadTyped
    <2>3. CASE UNCHANGED toBnc /\ Exit
      BY <2>1, <2>3 DEF Exit
    <2> QED
      BY <2>2, <2>3 DEF ReadClient
  <1>3. gotportcmd' \in BOOLEAN
    BY DEF ReadClient, IInv, TypeOK
  <1>4. TypeOK'
    BY <1>2, <1>3 DEF ReadClient, Exit, IInv, TypeOK, admin, dirvars
  <1> QED
    BY <1>1, <1>4 DEF IInv

\* deletedatathread and the destructor
LEMMA DeleteInv ==
    ASSUME IInv, SetQuit \/ JoinDataThread \/ Destroy
    PROVE  IInv'
  <1>1. CASE SetQuit
    <2>4. ASSUME NEW t \in Tid
          PROVE  /\ thr' \in [Tid -> Thread]
                 /\ thr'[t].armed = thr[t].armed /\ thr'[t].pc = thr[t].pc
      <3>1. thr \in [Tid -> Thread] /\ datathread \in Tid \cup {Null}
        BY DEF IInv, TypeOK
      <3>2. CASE datathread = Null
        BY <1>1, <3>1, <3>2 DEF SetQuit
      <3>3. CASE datathread \in Tid
        <4> DEFINE r == [thr[datathread] EXCEPT !.quit = TRUE]
        <4>1. r \in Thread /\ r.armed = thr[datathread].armed /\ r.pc = thr[datathread].pc
          BY <3>1, <3>3, QuitTyped
        <4>2. datathread # Null
          BY <3>3, TidAssumption DEF TidAssumption
        <4>3. thr' = [thr EXCEPT ![datathread] = r]
          BY <1>1, <3>1, <3>3, <4>2 DEF SetQuit
        <4> QED
          BY <3>1, <3>3, <4>1, <4>3
      <3> QED
        BY <3>1, <3>2, <3>3
    <2>1. TypeOK'
      <3>1. thr' \in [Tid -> Thread]
        BY <1>1, <2>4 DEF SetQuit, IInv, TypeOK
      <3> QED
        BY <1>1, <3>1 DEF SetQuit, AfterDelete, IInv, TypeOK, peers, flags, admin, dirvars
    <2>2. DataThreadOwned'
      BY <1>1, <2>4 DEF SetQuit, AfterDelete, IInv, DataThreadOwned
    <2>3. ControlInv'
      BY <1>1 DEF SetQuit, AfterDelete, IInv, ControlInv, ActOnSite, NoInput
    <2>5. ASSUME NEW t \in Tid, pc' \notin {"join"}
          PROVE  ~Alive(t)
      BY <1>1, <2>5, TidAssumption DEF SetQuit, IInv, DataThreadOwned, Alive, TidAssumption
    <2>6. DirectionInv'
      BY <1>1, <2>4, <2>5 DEF SetQuit, AfterDelete, IInv, DirectionInv, Alive,
                              StaleDirection, dirvars
    <2> QED
      BY <2>1, <2>2, <2>3, <2>6 DEF IInv
  <1>2. CASE JoinDataThread
    <2>1. TypeOK'
      <3>1. thr' \in [Tid -> Thread]
        BY <1>2, IdleThreads DEF JoinDataThread, IInv, TypeOK
      <3> QED
        BY <1>2, <3>1 DEF JoinDataThread, AfterDelete, IInv, TypeOK, peers, flags,
                          admin, dirvars
    <2>2. ASSUME NEW t \in Tid
          PROVE  thr'[t] = NoThread \/ (thr'[t].pc = "none" /\ thr'[t] = thr[t])
      <3>1. thr \in [Tid -> Thread] /\ thr' = [thr EXCEPT ![datathread] = NoThread]
        BY <1>2 DEF JoinDataThread, IInv, TypeOK
      <3>2. t = datathread \/ thr[t].pc = "none"
        BY DEF IInv, DataThreadOwned
      <3>3. CASE t = datathread
        BY <3>1, <3>3
      <3>4. CASE t # datathread
        BY <3>1, <3>2, <3>4
      <3> QED
        BY <3>3, <3>4
    <2>3. DataThreadOwned'
      BY <1>2, <2>2 DEF JoinDataThread, DataThreadOwned, NoThread
    <2>4. ControlInv'
      BY <1>2 DEF JoinDataThread, AfterDelete, IInv, ControlInv
    <2>5. \A t \in Tid : thr'[t].pc = "none" /\ thr'[t].armed = {}
      BY <2>2 DEF IInv, DirectionInv, Alive, NoThread
    <2>6. DirectionInv'
      BY <2>5 DEF DirectionInv, Alive
    <2> QED
      BY <2>1, <2>3, <2>4, <2>6 DEF IInv
  <1>3. CASE Destroy
    <2>1. TypeOK'
      BY <1>3 DEF Destroy, IInv, TypeOK, peers, flags, admin, dirvars
    <2>2. DataThreadOwned' /\ ControlInv'
      BY <1>3 DEF Destroy, IInv, DataThreadOwned, ControlInv, ActOnSite
    <2>3. DirectionInv'
      BY <1>3 DEF Destroy, IInv, DirectionInv, Alive, StaleDirection, dirvars
    <2> QED
      BY <2>1, <2>2, <2>3 DEF IInv
  <1> QED
    BY <1>1, <1>2, <1>3

-----------------------------------------------------------------------------
(* Steps that start a data thread, and those that end such a handler *)

\* What a handler that takes a reply for the answer to a PASV does with the
\* threads: there is none, and it starts one or none.
LEMMA StartKeeps ==
    ASSUME IInv, datathread = Null, NEW active \in BOOLEAN,
           StartDataThread(active) \/ UNCHANGED <<datathread, thr>>
    PROVE  /\ datathread' \in Tid \cup {Null}
           /\ thr' \in [Tid -> Thread]
           /\ \A t \in Tid : thr'[t].armed = {}
           /\ \A t \in Tid : thr'[t].pc # "none" => t = datathread'
  <1>1. thr \in [Tid -> Thread] /\ cpsvcmd \in BOOLEAN
    BY DEF IInv, TypeOK
  <1>2. \A t \in Tid : t # Null
    BY TidAssumption DEF TidAssumption
  <1>3. \A t \in Tid : thr[t].pc = "none" /\ thr[t].armed = {}
    BY <1>2 DEF IInv, DataThreadOwned, DirectionInv, Alive
  <1>4. CASE UNCHANGED <<datathread, thr>>
    BY <1>1, <1>3, <1>4
  <1>5. CASE ~UNCHANGED <<datathread, thr>>
    <2> DEFINE r == [NoThread EXCEPT !.pc = "connect", !.active = active, !.cpsv = cpsvcmd]
    <2>1. PICK t \in Tid : datathread' = t /\ thr' = [thr EXCEPT ![t] = r]
      BY <1>5 DEF StartDataThread
    <2>2. r \in Thread /\ r.armed = {}
      BY <1>1 DEF Thread, NoThread
    <2> HIDE DEF r
    <2> QED
      BY <1>1, <1>3, <2>1, <2>2
  <1> QED
    BY <1>4, <1>5

LEMMA CreateInv ==
    ASSUME IInv, CreatePassive \/ CreateActive
    PROVE  IInv'
  <1>1. datathread = Null
    BY DEF CreatePassive, CreateActive, IInv, ControlInv
  <1>2. PICK active \in BOOLEAN : StartDataThread(active) \/ UNCHANGED <<datathread, thr>>
    BY DEF CreatePassive, CreateActive, RefuseForLimit
  <1>3. /\ datathread' \in Tid \cup {Null}
        /\ thr' \in [Tid -> Thread]
        /\ \A t \in Tid : thr'[t].armed = {}
        /\ \A t \in Tid : thr'[t].pc # "none" => t = datathread'
    BY <1>1, <1>2, StartKeeps
  <1>4. /\ pc' \in {"delete", "reset", "portok", "porterr"}
        /\ input' = NoInput
        /\ UNCHANGED <<peers, flags, admin, rwlock, dirvars>>
    BY DEF CreatePassive, CreateActive, RefuseForLimit, Exit
  <1>5. clientLines' \in Seq(Replies \cup OwnLines)
    <2>1. clientLines' = clientLines \/ clientLines' = <<"427">>
      BY DEF CreatePassive, CreateActive, RefuseForLimit
    <2> QED
      BY <2>1, OwnLineTyped DEF IInv, TypeOK, OwnLines
  <1>6. pc' = "porterr" => UNCHANGED <<datathread, thr>>
    BY DEF CreatePassive, CreateActive, RefuseForLimit, Exit
  <1>7. TypeOK'
    BY <1>3, <1>4, <1>5 DEF IInv, TypeOK, peers, flags, admin, dirvars
  <1>8. DataThreadOwned'
    BY <1>3, <1>4 DEF DataThreadOwned
  <1>9. ControlInv'
    BY <1>4 DEF ControlInv, ActOnSite
  <1>10. DirectionInv'
    <2>1. \A t \in Tid : Alive(t)' /\ directionset' => StaleDirection'
      <3>1. CASE pc' = "porterr"
        <4>1. \A t \in Tid : thr'[t].pc = "none"
          BY <1>1, <1>3, <1>6, <3>1, TidAssumption DEF TidAssumption
        <4> QED
          BY <4>1 DEF Alive
      <3>2. CASE pc' # "porterr"
        BY <1>4, <3>2 DEF StaleDirection
      <3> QED
        BY <3>1, <3>2
    <2> QED
      BY <1>3, <1>4, <2>1 DEF DirectionInv
  <1> QED
    BY <1>7, <1>8, <1>9, <1>10 DEF IInv

LEMMA AnswerPortInv ==
    ASSUME IInv, AnswerPort
    PROVE  IInv'
  <1>1. PICK ok \in BOOLEAN :
           /\ WriteClient(Control, IF pc = "portok" THEN <<"200port">> ELSE <<"500">>, ok)
           /\ pc' = IF ok THEN "reset" ELSE "delete"
    BY DEF AnswerPort
  <1>2. (IF pc = "portok" THEN <<"200port">> ELSE <<"500">>) \in Seq(Replies \cup OwnLines)
    BY OwnLineTyped DEF OwnLines
  <1>3. rwlock' \in Tid \cup {Control, Free} /\ clientLines' \in Seq(Replies \cup OwnLines)
    BY <1>1, <1>2, WriteClientTyped DEF IInv
  <1>4. /\ pc \in {"portok", "porterr"} /\ pc' \in {"reset", "delete"}
        /\ input = NoInput
        /\ UNCHANGED <<peers, input, flags, admin, datathread, dirvars, thr>>
    BY <1>1 DEF AnswerPort, IInv, ControlInv
  <1>5. TypeOK'
    BY <1>3, <1>4 DEF IInv, TypeOK, peers, flags, admin, dirvars
  <1>6. DataThreadOwned' /\ ControlInv'
    BY <1>4 DEF IInv, DataThreadOwned, ControlInv, ActOnSite
  <1>7. DirectionInv'
    BY <1>4 DEF IInv, DirectionInv, Alive, StaleDirection, dirvars
  <1> QED
    BY <1>5, <1>6, <1>7 DEF IInv

LEMMA ResetInv ==
    ASSUME IInv, ResetTransfer
    PROVE  IInv'
  <1>1. TypeOK'
    <2>1. /\ pc' = "select"
          /\ gotpasvcmd' \in BOOLEAN /\ gotportcmd' \in BOOLEAN /\ cpsvcmd' \in BOOLEAN
          /\ dirlisting' \in BOOLEAN /\ directionset' \in BOOLEAN
          /\ UNCHANGED <<peers, clientLines, input, admin, datathread, rwlock, direction, thr>>
      BY DEF ResetTransfer
    <2> QED
      BY <2>1 DEF IInv, TypeOK, peers, admin
  <1>2. DataThreadOwned' /\ ControlInv'
    BY DEF ResetTransfer, IInv, DataThreadOwned, ControlInv, ActOnSite
  <1>3. DirectionInv'
    BY DEF ResetTransfer, IInv, DirectionInv, Alive
  <1> QED
    BY <1>1, <1>2, <1>3 DEF IInv

\* The handlers of a reply that is not the answer to a PASV.
LEMMA RepliesInv ==
    ASSUME IInv, SwallowMsgReply \/ ForwardReply \/ SendAdminMsg
    PROVE  IInv'
  <1>1. UNCHANGED <<thr, datathread, dirvars, flags>> /\ ~StaleDirection
    BY DEF SwallowMsgReply, ForwardReply, SendAdminMsg, ActOnSite, StaleDirection
  <1>2. pc' \in {"select", "delete", "adminmsg"}
    BY DEF SwallowMsgReply, ForwardReply, SendAdminMsg, Exit
  <1>3. DataThreadOwned' /\ ControlInv' /\ DirectionInv'
    BY <1>1, <1>2, ControlMove DEF ActOnSite
  <1>4. TypeOK'
    <2>1. CASE SwallowMsgReply
      <3>1. /\ input' = NoInput /\ sendadminmsg' \in BOOLEAN
            /\ UNCHANGED <<peers, clientLines, flags, admin_msg, datathread, rwlock, dirvars, thr>>
        BY <2>1 DEF SwallowMsgReply
      <3> QED
        BY <1>2, <3>1 DEF IInv, TypeOK, peers, flags, dirvars
    <2>2. CASE ForwardReply
      <3>1. PICK ok \in BOOLEAN :
               /\ WriteClient(Control, input.lines, ok)
               /\ IF ~ok THEN Exit
                  ELSE IF input.lines[Len(input.lines)] = "226" /\ admin_msg
                  THEN pc' = "adminmsg" /\ UNCHANGED input
                  ELSE pc' = "select" /\ input' = NoInput
        BY <2>2 DEF ForwardReply
      <3>2. input.lines \in Seq(Replies)
        BY <2>2 DEF ForwardReply, ActOnSite, IInv, TypeOK, NoInput
      <3>3. input.lines \in Seq(Replies \cup OwnLines)
        BY <3>2, SeqSubset
      <3>4. rwlock' \in Tid \cup {Control, Free} /\ clientLines' \in Seq(Replies \cup OwnLines)
        BY <3>1, <3>3, WriteClientTyped DEF IInv
      <3>5. input' = input \/ input' = NoInput
        BY <3>1 DEF Exit
      <3>6. UNCHANGED <<peers, flags, admin, datathread, dirvars, thr>>
        BY <2>2 DEF ForwardReply
      <3> QED
        BY <1>2, <3>4, <3>5, <3>6 DEF IInv, TypeOK, peers, flags, admin, dirvars
    <2>3. CASE SendAdminMsg
      <3>1. PICK ok \in BOOLEAN : WriteSite(<<"ADMINMSG">>, ok)
        BY <2>3 DEF SendAdminMsg
      <3>2. toSite \o <<"ADMINMSG">> \in Seq(SiteCommands) /\ toSite \in Seq(SiteCommands)
        BY CommandTyped, AppendTyped DEF SiteCommands, IInv, TypeOK
      <3>3. toSite' = toSite \o <<"ADMINMSG">> \/ toSite' = toSite
        BY <3>1 DEF WriteSite
      <3>4. /\ input' = NoInput
            /\ sendadminmsg' \in BOOLEAN /\ admin_msg' \in BOOLEAN
            /\ UNCHANGED <<clientLines, rwlock>>
        BY <2>3 DEF SendAdminMsg, Exit, admin, IInv, TypeOK
      <3>5. UNCHANGED <<toBnc, fromSite, clientUp, siteUp, siteXfer, sent, limited>>
        BY <3>1 DEF WriteSite
      <3>6. toSite' \in Seq(SiteCommands)
        BY <3>2, <3>3
      <3> QED
        BY <1>1, <1>2, <3>4, <3>5, <3>6 DEF IInv, TypeOK, flags, dirvars
    <2> QED
      BY <2>1, <2>2, <2>3
  <1> QED
    BY <1>3, <1>4 DEF IInv

-----------------------------------------------------------------------------
(* STOR, RETR, LIST and NLST: the direction, then the flag *)

LEMMA NoteDirectionInv ==
    ASSUME IInv, NoteDirection
    PROVE  IInv'
  <1> DEFINE asked == {DirectionOf(Cmd)} \cup (IF Cmd = "LIST" THEN {"list"} ELSE {})
  <1>1. /\ thr \in [Tid -> Thread] /\ DirectionOf(Cmd) \in {"upload", "download"}
        /\ direction' = DirectionOf(Cmd) /\ dirlisting' \in BOOLEAN
        /\ dirlisting => dirlisting'
        /\ Cmd = "LIST" => dirlisting'
    BY DEF NoteDirection, DirectionOf, IInv, TypeOK
  <1>2. \A t \in Tid : t # Null
    BY TidAssumption DEF TidAssumption
  \* only the running thread is given the direction, and it is given all of it
  <1>3. /\ thr' \in [Tid -> Thread]
        /\ \A t \in Tid : thr'[t].pc = thr[t].pc
        /\ \A t \in Tid : IF Alive(t) THEN thr'[t].armed = thr[t].armed \cup asked
                          ELSE thr'[t].armed = {}
    <2>1. CASE datathread = Null \/ ~Alive(datathread)
      <3>1. thr' = thr
        BY <2>1 DEF NoteDirection, Arm
      <3>2. \A t \in Tid : ~Alive(t)
        BY <1>2, <2>1 DEF IInv, DataThreadOwned, Alive
      <3> QED
        BY <1>1, <3>1, <3>2 DEF IInv, DirectionInv
    <2>2. CASE ~(datathread = Null \/ ~Alive(datathread))
      <3> DEFINE r == [thr[datathread] EXCEPT !.armed = @ \cup asked]
      <3>1. datathread \in Tid
        BY <2>2 DEF IInv, TypeOK
      <3>2. thr' = [thr EXCEPT ![datathread] = r]
        BY <1>1, <2>2, <3>1 DEF NoteDirection, Arm
      <3>3. r \in Thread /\ r.pc = thr[datathread].pc /\ r.armed = thr[datathread].armed \cup asked
        BY <1>1, <3>1 DEF Thread
      <3>4. \A t \in Tid : t # datathread => ~Alive(t) /\ thr[t].armed = {}
        BY DEF IInv, DataThreadOwned, DirectionInv, Alive
      <3> HIDE DEF r, asked
      <3> QED
        BY <1>1, <2>2, <3>1, <3>2, <3>3, <3>4
    <2> QED
      BY <2>1, <2>2
  <1>4. pc' = "setdirection" /\ input.from = "client"
        /\ UNCHANGED <<peers, clientLines, input, flags, admin, datathread, rwlock, directionset>>
    BY DEF NoteDirection, ActOnClient
  <1>5. TypeOK'
    BY <1>1, <1>3, <1>4 DEF IInv, TypeOK, peers, flags, admin
  <1>6. DataThreadOwned' /\ ControlInv'
    BY <1>3, <1>4 DEF IInv, DataThreadOwned, ControlInv, ActOnSite
  <1>7. DirectionInv'
    <2>1. \A t \in Tid : Alive(t)' <=> Alive(t)
      BY <1>3 DEF Alive
    <2>2. \A t \in Tid : Alive(t) => thr'[t].armed # {} /\ direction' \in thr'[t].armed
      BY <1>1, <1>3
    <2>3. \A t \in Tid : "list" \in thr'[t].armed => dirlisting'
      BY <1>1, <1>3 DEF IInv, DirectionInv, DirectionOf
    <2>4. \A t \in Tid : ~Alive(t) => thr'[t].armed = {}
      BY <1>3
    <2> QED
      BY <1>4, <2>1, <2>2, <2>3, <2>4 DEF DirectionInv
  <1> QED
    BY <1>5, <1>6, <1>7 DEF IInv

LEMMA SetDirectionInv ==
    ASSUME IInv, SetDirection
    PROVE  IInv'
  <1>1. TypeOK'
    <2>1. /\ pc' = "sendtransfer" /\ directionset' \in BOOLEAN
          /\ UNCHANGED <<peers, clientLines, input, flags, admin, datathread, rwlock,
                         direction, dirlisting, thr>>
      BY DEF SetDirection
    <2> QED
      BY <2>1 DEF IInv, TypeOK, peers, flags, admin
  <1>2. DataThreadOwned' /\ ControlInv'
    BY DEF SetDirection, IInv, DataThreadOwned, ControlInv, ActOnSite
  <1>3. DirectionInv'
    BY DEF SetDirection, IInv, DirectionInv, Alive, StaleDirection
  <1> QED
    BY <1>1, <1>2, <1>3 DEF IInv

-----------------------------------------------------------------------------
(* The theorems *)

LEMMA StutterInv ==
    ASSUME IInv, UNCHANGED vars
    PROVE  IInv'
  BY DEF vars, peers, flags, admin, dirvars, IInv, TypeOK, DataThreadOwned, ControlInv,
         DirectionInv, ActOnSite, PassiveReply, ActiveReply, Alive, StaleDirection

LEMMA NextInv == IInv /\ [Next]_vars => IInv'
  <1> SUFFICES ASSUME IInv, [Next]_vars PROVE IInv'
    OBVIOUS
  <1>1. CASE ControlNext
    BY <1>1, ReadSiteInv, ReadClientInv, DeleteInv, CreateInv, AnswerPortInv, ResetInv,
       RepliesInv, CommandsInv, NoteDirectionInv, SetDirectionInv DEF ControlNext
  <1>2. CASE DataNext
    BY <1>2, DataInv DEF DataNext
  <1>3. CASE EnvNext
    BY <1>3, EnvInv
  <1>4. CASE Terminated \/ UNCHANGED vars
    BY <1>4, StutterInv DEF Terminated
  <1> QED
    BY <1>1, <1>2, <1>3, <1>4 DEF Next

LEMMA Inductive == Spec => []IInv
  BY InitInv, NextInv, PTL DEF Spec

\* Every variable keeps its type: in particular no handler reads a line that
\* is not there, and the thread the control thread joins exists.
THEOREM TypeCorrect == Spec => []TypeOK
  <1>1. IInv => TypeOK
    BY DEF IInv
  <1> QED
    BY <1>1, Inductive, PTL

\* deletedatathread: a session never has two data threads, none that its
\* pointer does not lead to, and none when the destructor is done with it.
THEOREM Owned == Spec => []DataThreadOwned
  <1>1. IInv => DataThreadOwned
    BY DEF IInv
  <1> QED
    BY <1>1, Inductive, PTL

\* Who writes to the client.
LEMMA Writers ==
    ASSUME [Next]_vars
    PROVE  \/ UNCHANGED clientLines \/ RefuseForLimit \/ AnswerPort \/ ForwardReply
           \/ \E t \in Tid : AnnounceOrRefuse(t) \/ DenyTransfer(t)
  <1>1. CASE ControlNext
    BY <1>1 DEF ControlNext, ReadSite, ReadClient, SetQuit, JoinDataThread, Destroy,
                CreatePassive, CreateActive, ResetTransfer, SwallowMsgReply,
                SendAdminMsg, HandlePasv, HandleCpsv, HandlePort, HandleAbor,
                NoteDirection, SetDirection, SendTransfer, ForwardCommand, SendOn
  <1>2. CASE DataNext
    BY <1>2 DEF DataNext, DataStep, ConnectSite, ListenForClient, OpenClient,
                WaitDirection, TlsWithClient, CheckPolicy, CheckDirection, EnterPump, PumpQuit,
                PumpEnd, TransferStep, PumpReady, IoReturns
  <1>3. CASE EnvNext
    BY <1>3 DEF EnvNext, ClientSends, PeerCloses, SiteAnswers, SiteFinishes,
                LimitChanges, bouncer
  <1>4. CASE Terminated \/ UNCHANGED vars
    BY <1>4 DEF Terminated, vars
  <1> QED
    BY <1>1, <1>2, <1>3, <1>4 DEF Next

\* The check in Write: the lines of a bounced session never name the site.
THEOREM AddressHidden == Spec => []SiteAddressHidden
  <1>1. Init => SiteAddressHidden
    BY DEF Init, SiteAddressHidden, Has
  <1>2. IInv /\ SiteAddressHidden /\ [Next]_vars => SiteAddressHidden'
    <2> SUFFICES ASSUME IInv, SiteAddressHidden, [Next]_vars PROVE SiteAddressHidden'
      OBVIOUS
    <2>1. \A x : x # "227site" => ~Has(<<x>>, "227site")
      BY DEF Has
    \* a writer either leaves the lines alone or writes what the check lets pass
    <2>2. ASSUME NEW who, NEW lines, NEW ok, WriteClient(who, lines, ok)
          PROVE  SiteAddressHidden'
      BY <2>2 DEF WriteClient, SendsSiteIp, SiteAddressHidden, Has
    <2>3. CASE UNCHANGED clientLines
      BY <2>3 DEF SiteAddressHidden, Has
    <2>4. CASE RefuseForLimit
      BY <2>1, <2>4 DEF RefuseForLimit, SiteAddressHidden
    <2>5. CASE AnswerPort \/ ForwardReply \/ \E t \in Tid : AnnounceOrRefuse(t) \/ DenyTransfer(t)
      BY <2>2, <2>5 DEF AnswerPort, ForwardReply, AnnounceOrRefuse, DenyTransfer
    <2> QED
      BY <2>3, <2>4, <2>5, Writers
  <1> QED
    BY <1>1, <1>2, Inductive, PTL DEF Spec

\* A running data thread is moved on only by a step of its own.
LEMMA OwnStep ==
    ASSUME IInv, [Next]_vars, NEW t \in Tid, thr[t].pc # "none",
           thr'[t].pc \notin {"none", thr[t].pc}
    PROVE  DataStep(t) \/ TransferStep(t)
  <1>1. thr \in [Tid -> Thread] /\ thr' # thr /\ datathread = t /\ t # Null
    BY TidAssumption DEF IInv, TypeOK, DataThreadOwned, TidAssumption
  <1>2. ~UNCHANGED thr
    BY <1>1
  <1>3. CASE ControlNext
    <2>1. SetQuit \/ JoinDataThread \/ CreatePassive \/ CreateActive \/ NoteDirection
      BY <1>2, <1>3 DEF ControlNext, ReadSite, ReadClient, Destroy, AnswerPort,
                        ResetTransfer, SwallowMsgReply, ForwardReply, SendAdminMsg,
                        HandlePasv, HandleCpsv, HandlePort, HandleAbor, SetDirection,
                        SendTransfer, ForwardCommand, SendOn
    <2>2. ~CreatePassive /\ ~CreateActive
      BY <1>1 DEF CreatePassive, CreateActive, IInv, ControlInv
    <2>3. CASE SetQuit
      <3>1. thr' = thr \/ thr' = [thr EXCEPT ![t].quit = TRUE]
        BY <1>1, <2>3 DEF SetQuit
      <3>2. thr'[t].pc = thr[t].pc
        BY <1>1, <3>1 DEF Thread
      <3> QED
        BY <3>2
    <2>4. CASE JoinDataThread
      BY <1>1, <2>4 DEF JoinDataThread, NoThread
    <2>5. CASE NoteDirection
      BY <1>1, <2>5 DEF NoteDirection, Arm, Thread
    <2> QED
      BY <2>1, <2>2, <2>3, <2>4, <2>5
  <1>4. CASE DataNext
    <2>1. PICK u \in Tid : DataStep(u) \/ TransferStep(u)
      BY <1>4 DEF DataNext
    <2>2. CASE u = t
      BY <2>1, <2>2
    <2>3. CASE u # t
      <3>1. thr[u].pc # "none"
        BY <2>1 DEF DataStep, ConnectSite, ListenForClient, AnnounceOrRefuse, OpenClient,
                    WaitDirection, TlsWithClient, CheckPolicy, CheckDirection, DenyTransfer, EnterPump,
                    PumpQuit, PumpEnd, TransferStep, PumpReady, IoReturns
      <3> QED
        BY <1>1, <2>3, <3>1 DEF IInv, DataThreadOwned
    <2> QED
      BY <2>2, <2>3
  <1>5. CASE EnvNext
    BY <1>2, <1>5 DEF EnvNext, ClientSends, PeerCloses, SiteAnswers, SiteFinishes,
                      LimitChanges, bouncer
  <1>6. CASE Terminated \/ UNCHANGED vars
    BY <1>2, <1>6 DEF Terminated, vars
  <1> QED
    BY <1>3, <1>4, <1>5, <1>6 DEF Next

\* DirectionSet: past its last wait a thread has been given a direction of its
\* own, unless the control thread that started it has not yet taken back the
\* one before.
THEOREM DirectionOwn == Spec => DirectionIsOwn
  <1>1. IInv /\ [Next]_vars =>
           [\A t \in Tid : PassesWait(t) => thr[t].armed # {} \/ StaleDirection]_vars
    <2> SUFFICES ASSUME IInv, [Next]_vars, NEW t \in Tid, PassesWait(t)
                 PROVE  thr[t].armed # {} \/ StaleDirection
      OBVIOUS
    <2>1. DataStep(t) \/ TransferStep(t)
      BY OwnStep DEF PassesWait
    <2>2. directionset
      <3>1. thr \in [Tid -> Thread]
        BY DEF IInv, TypeOK
      <3> QED
        BY <2>1, <3>1 DEF PassesWait, DataStep, ConnectSite, ListenForClient,
              AnnounceOrRefuse, OpenClient, WaitDirection, TlsWithClient, CheckPolicy,
              CheckDirection, DenyTransfer, EnterPump, PumpQuit, PumpEnd, TransferStep, PumpReady, IoReturns, EndThread,
              Ended, NoThread
    <2> QED
      BY <2>2 DEF IInv, DirectionInv, PassesWait, Alive
  <1> QED
    BY <1>1, Inductive, PTL DEF Spec, DirectionIsOwn

\* The lists of dataloop are looked up for a direction of this transfer.
THEOREM PolicyOwn == Spec => []PolicyForOwnDirection
  <1>1. IInv => PolicyForOwnDirection
    BY DEF IInv, DirectionInv, PolicyForOwnDirection
  <1> QED
    BY <1>1, Inductive, PTL

\* dirlisting reaches the TLS handshake with the client of a listing.
THEOREM ListingTls == Spec => ListingAcceptsTls
  <1>1. IInv /\ [Next]_vars =>
           [\A t \in Tid :
               thr[t].pc = "tls" /\ thr'[t].pc = "gate2" /\ "list" \in thr[t].armed
                   => thr'[t].role = "server"]_vars
    <2> SUFFICES ASSUME IInv, [Next]_vars, NEW t \in Tid, thr[t].pc = "tls",
                        thr'[t].pc = "gate2", "list" \in thr[t].armed
                 PROVE  thr'[t].role = "server"
      OBVIOUS
    <2>1. DataStep(t) \/ TransferStep(t)
      BY OwnStep
    <2>2. TlsWithClient(t)
      BY <2>1 DEF DataStep, ConnectSite, ListenForClient, AnnounceOrRefuse, OpenClient,
                  WaitDirection, CheckPolicy, CheckDirection, DenyTransfer, EnterPump, PumpQuit,
                  PumpEnd, TransferStep, PumpReady, IoReturns
    <2>3. thr \in [Tid -> Thread] /\ dirlisting
      BY DEF IInv, TypeOK, DirectionInv
    <2>4. ~EndThread(t)
      BY <2>3 DEF EndThread, Ended, NoThread
    <2>5. thr' = [thr EXCEPT ![t].pc = "gate2",
                             ![t].role = IF thr[t].cpsv /\ ~dirlisting
                                         THEN "client" ELSE "server"]
      BY <2>2, <2>4 DEF TlsWithClient
    <2> QED
      BY <2>3, <2>5 DEF Thread
  <1> QED
    BY <1>1, Inductive, PTL DEF Spec, ListingAcceptsTls

-----------------------------------------------------------------------------
(* The confirmation of a message to the admins, for a client that waits *)

\* x comes, and y after it
Before(s, x, y) ==
    \E i, j \in 1 .. Len(s) : i < j /\ s[i] = x /\ s[j] = y

\* What the site has answered and the control thread has not dealt with.
Taken    == IF input.from = "site" THEN input.lines ELSE <<>>
Answered == Taken \o fromSite

\* The loop of the session was left for good.
Leaving == pc \in {"delete", "join", "destroy", "gone"} /\ input = NoInput

\* The client's command is at the bouncer.
AtBouncer(c) == toBnc = <<c>> \/ (input.from = "client" /\ input.lines = <<c>>)

\* The next reply is taken for the answer to a bounced PASV, CPSV or PORT.
Awaits == Bounce /\ (gotpasvcmd \/ gotportcmd)

\* The message to the admins is on its way to the site, or its confirmation back.
Asked == Has(toSite, "ADMINMSG") \/ Has(Answered, "200adminmsg")

\* No transfer ends, and no message to the admins is asked for.
Calm ==
    /\ ~siteXfer /\ pc # "adminmsg" /\ ~Asked
    /\ ~Has(Answered, "226") /\ ~Has(toSite, "ABOR")

\* Where the control thread is and what it has.
PlaceInv ==
    /\ pc = "select" => input = NoInput
    /\ input.from = "site" => input.lines # <<>>
    /\ pc = "adminmsg" => input.from = "site" /\ Has(input.lines, "226")
    /\ pc \in {"setdirection", "sendtransfer"} => input.lines[1] \in {"STOR", "RETR", "LIST"}
    /\ ActOnClient /\ input.lines[1] = "ABOR" => datathread = Null
    /\ ~Bounce => datathread = Null /\ ~gotpasvcmd

\* The client has one command on its way, and one that is not ABOR while nothing
\* else happens.
OneInv ==
    /\ toBnc = <<>> \/ \E c \in AllCommands : toBnc = <<c>>
    /\ input.from = "client" => toBnc = <<>> /\ \E c \in AllCommands : input.lines = <<c>>
    /\ \A c \in AllCommands : AtBouncer(c) =>
          toSite \in {<<>>, <<"ADMINMSG">>} /\ (c # "ABOR" => Calm)
    /\ \/ toSite \in {<<>>, <<"ADMINMSG">>, <<"ABOR">>, <<"ABOR", "ADMINMSG">>,
                      <<"ADMINMSG", "ABOR">>}
       \/ \E c \in AllCommands \ {"ABOR"} : toSite = <<c>> /\ Calm

\* While a reply is awaited nothing else is on its way.
AwaitInv ==
    Awaits =>
        /\ Calm /\ toBnc = <<>> /\ toSite \in {<<>>, <<"PASV">>, <<"CPSV">>}
        /\ input.from = "client" => input.lines = <<"PORT">>
        /\ pc = "select" => toSite # <<>> \/ fromSite # <<>>

\* A transfer ends twice only if the client aborted it, and then no data thread
\* is left that could have a message for the admins.
EndInv ==
    /\ siteXfer => ~Has(Answered, "226") /\ ~Asked /\ pc # "adminmsg"
    /\ Has(toSite, "ABOR") \/ Before(Answered, "226", "226") => datathread = Null

\* One message at a time is asked for, and sendadminmsg tells; the end of a
\* transfer that is read before the confirmation leads to no other.
AskInv ==
    /\ Asked => sendadminmsg /\ pc # "adminmsg"
    /\ ~ (Has(toSite, "ADMINMSG") /\ Has(Answered, "200adminmsg"))
    /\ ~ Before(Answered, "200adminmsg", "200adminmsg")
    /\ \/ Before(Answered, "226", "200adminmsg")
       \/ Has(Answered, "226") /\ Has(toSite, "ADMINMSG")
       \/ toSite = <<"ABOR", "ADMINMSG">>
       => ~admin_msg /\ datathread = Null
    /\ Has(Answered, "200msg") =>
          Calm /\ toSite = <<>> /\ \A c \in AllCommands : ~AtBouncer(c)

\* Once the loop is left nothing is read or written on the control connections.
TalkInv == ~Leaving => OneInv /\ AwaitInv /\ EndInv /\ AskInv
PatientInv == PlaceInv /\ TalkInv

-----------------------------------------------------------------------------
(* What is on its way, in short queues and in joined ones *)

LEMMA OnWay ==
    /\ \A x : ~Has(<<>>, x)
    /\ \A a, x : Has(<<a>>, x) <=> a = x
    /\ \A a, b, x : Has(<<a, b>>, x) <=> a = x \/ b = x
    /\ \A x, y : ~Before(<<>>, x, y)
    /\ \A a, x, y : ~Before(<<a>>, x, y)
    /\ \A a, b, x, y : Before(<<a, b>>, x, y) <=> a = x /\ b = y
  <1>1. /\ \A x : ~Has(<<>>, x)
        /\ \A a, x : Has(<<a>>, x) <=> a = x
        /\ \A x, y : ~Before(<<>>, x, y)
        /\ \A a, x, y : ~Before(<<a>>, x, y)
    BY DEF Has, Before
  <1>2. ASSUME NEW a, NEW b, NEW x
        PROVE  Has(<<a, b>>, x) <=> a = x \/ b = x
    <2>1. Len(<<a, b>>) = 2 /\ 1 .. 2 = {1, 2} /\ <<a, b>>[1] = a /\ <<a, b>>[2] = b
      OBVIOUS
    <2> QED
      BY <2>1 DEF Has
  <1>3. ASSUME NEW a, NEW b, NEW x, NEW y
        PROVE  Before(<<a, b>>, x, y) <=> a = x /\ b = y
    <2>1. Len(<<a, b>>) = 2 /\ 1 .. 2 = {1, 2} /\ <<a, b>>[1] = a /\ <<a, b>>[2] = b
      OBVIOUS
    <2> QED
      BY <2>1 DEF Before
  <1> QED
    BY <1>1, <1>2, <1>3

LEMMA SameLines ==
    ASSUME NEW S, NEW s \in Seq(S), NEW t \in Seq(S), Len(s) = Len(t),
           \A i \in 1 .. Len(s) : s[i] = t[i]
    PROVE  s = t
  OBVIOUS

LEMMA ShortJoined ==
    ASSUME NEW a, NEW b
    PROVE  <<>> \o <<b>> = <<b>> /\ <<a>> \o <<b>> = <<a, b>>
  <1> DEFINE S == {a, b}
             s == <<a>> \o <<b>>
             t == <<a, b>>
  <1>1. s \in Seq(S) /\ Len(s) = 2 /\ s[1] = a /\ s[2] = b
    OBVIOUS
  <1>2. t \in Seq(S) /\ Len(t) = 2 /\ t[1] = a /\ t[2] = b
    OBVIOUS
  <1> HIDE DEF s, t
  <1>3. Len(s) = Len(t) /\ 1 .. Len(s) = {1, 2}
    BY <1>1, <1>2
  <1>4. \A i \in 1 .. Len(s) : s[i] = t[i]
    BY <1>1, <1>2, <1>3
  <1>5. s = t
    BY <1>1, <1>2, <1>3, <1>4, SameLines
  <1>6. <<>> \o <<b>> = <<b>>
    OBVIOUS
  <1> QED
    BY <1>5, <1>6 DEF s, t

LEMMA HasJoined ==
    ASSUME NEW S, NEW s \in Seq(S), NEW a \in Seq(S), NEW x
    PROVE  Has(s \o a, x) <=> Has(s, x) \/ Has(a, x)
  <1>1. /\ Len(s \o a) = Len(s) + Len(a) /\ Len(s) \in Nat /\ Len(a) \in Nat
        /\ \A i \in 1 .. Len(s) : (s \o a)[i] = s[i]
        /\ \A i \in 1 .. Len(a) : (s \o a)[Len(s) + i] = a[i]
    OBVIOUS
  <1>2. ASSUME NEW i \in 1 .. Len(s \o a)
        PROVE  i \in 1 .. Len(s) \/ (i - Len(s) \in 1 .. Len(a) /\ i = Len(s) + (i - Len(s)))
    BY <1>1
  <1>3. Has(s \o a, x) => Has(s, x) \/ Has(a, x)
    BY <1>1, <1>2 DEF Has
  <1>4. Has(s, x) => Has(s \o a, x)
    BY <1>1 DEF Has
  <1>5. Has(a, x) => Has(s \o a, x)
    <2> SUFFICES ASSUME NEW i \in 1 .. Len(a), a[i] = x PROVE Has(s \o a, x)
      BY DEF Has
    <2>1. Len(s) + i \in 1 .. Len(s \o a) /\ (s \o a)[Len(s) + i] = x
      BY <1>1
    <2> QED
      BY <2>1 DEF Has
  <1> QED
    BY <1>3, <1>4, <1>5

LEMMA BeforeJoined ==
    ASSUME NEW S, NEW s \in Seq(S), NEW a \in Seq(S), NEW x, NEW y
    PROVE  Before(s \o a, x, y) <=> Before(s, x, y) \/ Before(a, x, y) \/ (Has(s, x) /\ Has(a, y))
  <1>1. /\ Len(s \o a) = Len(s) + Len(a) /\ Len(s) \in Nat /\ Len(a) \in Nat
        /\ \A i \in 1 .. Len(s) : (s \o a)[i] = s[i]
        /\ \A i \in 1 .. Len(a) : (s \o a)[Len(s) + i] = a[i]
    OBVIOUS
  <1>2. ASSUME NEW i \in 1 .. Len(s \o a)
        PROVE  i \in 1 .. Len(s) \/ (i - Len(s) \in 1 .. Len(a) /\ i = Len(s) + (i - Len(s)))
    BY <1>1
  <1>3. ASSUME Before(s \o a, x, y)
        PROVE  Before(s, x, y) \/ Before(a, x, y) \/ (Has(s, x) /\ Has(a, y))
    <2>1. PICK i, j \in 1 .. Len(s \o a) : i < j /\ (s \o a)[i] = x /\ (s \o a)[j] = y
      BY <1>3 DEF Before
    <2>2. CASE j \in 1 .. Len(s)
      <3>1. i \in 1 .. Len(s)
        BY <1>1, <2>1, <2>2
      <3> QED
        BY <1>1, <2>1, <2>2, <3>1 DEF Before
    <2>3. CASE i \notin 1 .. Len(s)
      <3>1. /\ i - Len(s) \in 1 .. Len(a) /\ j - Len(s) \in 1 .. Len(a)
            /\ i - Len(s) < j - Len(s)
        BY <1>1, <2>1, <2>3
      <3>2. a[i - Len(s)] = x /\ a[j - Len(s)] = y
        <4>1. i = Len(s) + (i - Len(s)) /\ j = Len(s) + (j - Len(s))
          BY <1>1
        <4> QED
          BY <1>1, <2>1, <3>1, <4>1
      <3> QED
        BY <3>1, <3>2 DEF Before
    <2>4. CASE i \in 1 .. Len(s) /\ j \notin 1 .. Len(s)
      <3>1. j - Len(s) \in 1 .. Len(a) /\ a[j - Len(s)] = y
        BY <1>1, <1>2, <2>1, <2>4
      <3> QED
        BY <1>1, <2>1, <2>4, <3>1 DEF Has
    <2> QED
      BY <2>2, <2>3, <2>4
  <1>4. Before(s, x, y) => Before(s \o a, x, y)
    BY <1>1 DEF Before
  <1>5. ASSUME Before(a, x, y)
        PROVE  Before(s \o a, x, y)
    <2>1. PICK i, j \in 1 .. Len(a) : i < j /\ a[i] = x /\ a[j] = y
      BY <1>5 DEF Before
    <2>2. /\ Len(s) + i \in 1 .. Len(s \o a) /\ Len(s) + j \in 1 .. Len(s \o a)
          /\ Len(s) + i < Len(s) + j
      BY <1>1, <2>1
    <2>3. (s \o a)[Len(s) + i] = x /\ (s \o a)[Len(s) + j] = y
      BY <1>1, <2>1
    <2> QED
      BY <2>2, <2>3 DEF Before
  <1>6. ASSUME Has(s, x), Has(a, y)
        PROVE  Before(s \o a, x, y)
    <2>1. PICK i \in 1 .. Len(s) : s[i] = x
      BY <1>6 DEF Has
    <2>2. PICK j \in 1 .. Len(a) : a[j] = y
      BY <1>6 DEF Has
    <2>3. /\ i \in 1 .. Len(s \o a) /\ Len(s) + j \in 1 .. Len(s \o a)
          /\ i < Len(s) + j
      BY <1>1, <2>1, <2>2
    <2>4. (s \o a)[i] = x /\ (s \o a)[Len(s) + j] = y
      BY <1>1, <2>1, <2>2
    <2> QED
      BY <2>3, <2>4 DEF Before
  <1> QED
    BY <1>3, <1>4, <1>5, <1>6

\* The replies the control thread holds and those on their way.
LEMMA AnsweredTyped ==
    ASSUME TypeOK
    PROVE  Taken \in Seq(Replies) /\ fromSite \in Seq(Replies) /\ Answered \in Seq(Replies)
  <1>1. Taken \in Seq(Replies) /\ fromSite \in Seq(Replies)
    BY EmptyTyped DEF TypeOK, Taken, NoInput
  <1> QED
    BY <1>1, AppendTyped DEF Answered

LEMMA AnsweredParts ==
    ASSUME TypeOK
    PROVE  /\ \A x : Has(Answered, x) <=> Has(Taken, x) \/ Has(fromSite, x)
           /\ \A x, y : Before(Answered, x, y) <=>
                 Before(Taken, x, y) \/ Before(fromSite, x, y) \/ (Has(Taken, x) /\ Has(fromSite, y))
  <1>1. Taken \in Seq(Replies) /\ fromSite \in Seq(Replies)
    BY AnsweredTyped
  <1> QED
    BY <1>1, HasJoined, BeforeJoined DEF Answered

-----------------------------------------------------------------------------
(* The steps *)

\* a step that leaves the queues and where the control thread is
LEMMA SamePlace ==
    ASSUME UNCHANGED <<toBnc, toSite, fromSite, siteXfer, pc, input, flags, sendadminmsg>>
    PROVE  /\ UNCHANGED <<Answered, Asked, Calm, Awaits, Leaving, ActOnClient>>
           /\ \A c \in AllCommands : AtBouncer(c)' <=> AtBouncer(c)
  <1>1. UNCHANGED Answered
    BY DEF Answered, Taken
  <1> QED
    BY <1>1 DEF Asked, Calm, Awaits, Leaving, ActOnClient, AtBouncer, flags, Bounce

LEMMA PatientSame ==
    ASSUME PatientInv,
           UNCHANGED <<toBnc, toSite, fromSite, siteXfer, pc, input, flags, sendadminmsg,
                       datathread>>,
           UNCHANGED admin_msg \/ datathread # Null
    PROVE  PatientInv'
  <1>1. /\ UNCHANGED <<Answered, Asked, Calm, Awaits, Leaving, ActOnClient>>
        /\ \A c \in AllCommands : AtBouncer(c)' <=> AtBouncer(c)
    BY SamePlace
  <1>2. PlaceInv'
    BY <1>1 DEF PatientInv, PlaceInv, flags, Bounce
  <1>3. ASSUME ~Leaving'
        PROVE  OneInv' /\ AwaitInv' /\ EndInv' /\ AskInv'
    <2>1. OneInv /\ AwaitInv /\ EndInv /\ AskInv
      BY <1>1, <1>3 DEF PatientInv, TalkInv
    <2>2. OneInv' /\ AwaitInv' /\ EndInv'
      BY <1>1, <2>1 DEF OneInv, AwaitInv, EndInv
    <2>3. AskInv'
      BY <1>1, <2>1 DEF AskInv
    <2> QED
      BY <2>2, <2>3
  <1> QED
    BY <1>2, <1>3 DEF PatientInv, TalkInv

\* A data thread adds no more than a message to the admins.
LEMMA PatientData ==
    ASSUME IInv, PatientInv, NEW t \in Tid, DataStep(t) \/ TransferStep(t)
    PROVE  PatientInv'
  <1>1. UNCHANGED <<peers, ControlState>> /\ thr[t].pc # "none"
    BY DEF DataStep, TransferStep, ConnectSite, ListenForClient, AnnounceOrRefuse,
           OpenClient, WaitDirection, TlsWithClient, CheckPolicy, CheckDirection,
           DenyTransfer, EnterPump, PumpQuit, PumpEnd, PumpReady, IoReturns
  <1>2. datathread # Null
    BY <1>1, TidAssumption DEF TidAssumption, IInv, DataThreadOwned
  <1> QED
    BY <1>1, <1>2, PatientSame DEF peers, ControlState

\* The peers do not move the control thread.
LEMMA PlaceEnv ==
    ASSUME PlaceInv, EnvNext
    PROVE  /\ UNCHANGED <<pc, input, flags, sendadminmsg, admin_msg, datathread>>
           /\ PlaceInv' /\ (Leaving' <=> Leaving)
  <1>1. UNCHANGED <<pc, input, flags, sendadminmsg, admin_msg, datathread>>
    BY DEF EnvNext, ClientSends, PeerCloses, SiteAnswers, SiteFinishes, LimitChanges,
           bouncer, admin
  <1> QED
    BY <1>1 DEF PlaceInv, Leaving, ActOnClient, flags, Bounce

\* A client that waits sends when nothing is on its way.
LEMMA PatientSends ==
    ASSUME ~Pipelining, IInv, PatientInv, ClientSends
    PROVE  PatientInv'
  <1>1. /\ UNCHANGED <<pc, input, flags, sendadminmsg, admin_msg, datathread>>
        /\ PlaceInv' /\ (Leaving' <=> Leaving)
    BY PlaceEnv DEF PatientInv, EnvNext
  <1>2. PICK c \in Commands :
           /\ Quiet /\ (siteXfer => c = "ABOR")
           /\ toBnc' = Append(toBnc, c)
    BY DEF ClientSends
  <1>3. /\ pc = "select" /\ toBnc = <<>> /\ toSite = <<>> /\ fromSite = <<>>
        /\ input = NoInput /\ c \in AllCommands
    BY <1>2, BoundsAssumption DEF Quiet, PatientInv, PlaceInv
  <1>4. toBnc' = <<c>> /\ UNCHANGED <<toSite, fromSite, siteXfer>>
    BY <1>2, <1>3 DEF ClientSends
  <1>5. Answered = <<>> /\ Answered' = <<>>
    BY <1>1, <1>3, <1>4 DEF Answered, Taken, NoInput
  <1>6. OneInv /\ AwaitInv /\ EndInv /\ AskInv
    BY <1>3 DEF PatientInv, TalkInv, Leaving
  <1>7. ~Asked' /\ (c # "ABOR" => Calm')
    BY <1>1, <1>2, <1>3, <1>4, <1>5, OnWay DEF Asked, Calm
  <1>8. \A d \in AllCommands : AtBouncer(d)' => d = c
    BY <1>1, <1>3, <1>4 DEF AtBouncer, NoInput
  <1>9. OneInv'
    BY <1>1, <1>3, <1>4, <1>7, <1>8 DEF OneInv, NoInput
  <1>10. ~Awaits /\ ~Awaits'
    BY <1>1, <1>3, <1>6 DEF AwaitInv, Awaits, flags, Bounce
  <1>11. EndInv' /\ AskInv'
    BY <1>1, <1>3, <1>4, <1>5, <1>7, OnWay DEF EndInv, AskInv
  <1> QED
    BY <1>1, <1>9, <1>10, <1>11 DEF PatientInv, TalkInv, AwaitInv

\* The site answers a command or ends a transfer.
AnswersInv == OneInv' /\ AwaitInv' /\ EndInv' /\ AskInv'

LEMMA AnsweredMore ==
    ASSUME TypeOK, NEW a \in Seq(Replies), fromSite' = fromSite \o a, UNCHANGED input
    PROVE  /\ \A x : Has(Answered', x) <=> Has(Answered, x) \/ Has(a, x)
           /\ \A x, y : Before(Answered', x, y) <=>
                 Before(Answered, x, y) \/ Before(a, x, y) \/ (Has(Answered, x) /\ Has(a, y))
  <1>1. /\ Answered \in Seq(Replies) /\ Taken \in Seq(Replies) /\ fromSite \in Seq(Replies)
        /\ UNCHANGED Taken
    BY AnsweredTyped DEF Taken
  <1>2. Answered' = Answered \o a
    BY <1>1 DEF Answered
  <1> QED
    BY <1>1, <1>2, HasJoined, BeforeJoined

LEMMA PatientFinishes ==
    ASSUME IInv, PatientInv, SiteFinishes
    PROVE  PatientInv'
  <1>1. /\ UNCHANGED <<pc, input, flags, sendadminmsg, admin_msg, datathread>>
        /\ PlaceInv' /\ (Leaving' <=> Leaving)
    BY PlaceEnv DEF PatientInv, EnvNext
  <1>2. SUFFICES ASSUME OneInv, AwaitInv, EndInv, AskInv
                 PROVE  AnswersInv
    BY <1>1 DEF PatientInv, TalkInv, AnswersInv
  <1>3. /\ siteXfer /\ ~siteXfer' /\ UNCHANGED <<toBnc, toSite>>
        /\ fromSite' = fromSite \o <<"226">>
    BY DEF SiteFinishes, IInv, TypeOK
  <1>4. /\ \A x : Has(Answered', x) <=> Has(Answered, x) \/ x = "226"
        /\ \A x, y : Before(Answered', x, y) <=>
              Before(Answered, x, y) \/ (Has(Answered, x) /\ y = "226")
    <2>1. /\ <<"226">> \in Seq(Replies)
          /\ \A x : Has(<<"226">>, x) <=> "226" = x
          /\ \A x, y : ~Before(<<"226">>, x, y)
      BY OnWay DEF Replies
    <2> QED
      BY <1>1, <1>3, <2>1, AnsweredMore DEF IInv
  <1>5. ~Calm /\ ~Asked /\ ~Asked' /\ ~Has(Answered, "226") /\ pc # "adminmsg"
    BY <1>1, <1>2, <1>3, <1>4 DEF EndInv, Calm, Asked
  <1>6. \A c \in AllCommands : AtBouncer(c)' <=> AtBouncer(c)
    BY <1>1, <1>3 DEF AtBouncer
  <1>7. OneInv'
    BY <1>1, <1>2, <1>3, <1>5, <1>6 DEF OneInv
  <1>8. ~Awaits'
    BY <1>1, <1>2, <1>5 DEF AwaitInv, Awaits, flags, Bounce
  <1>9. EndInv'
    BY <1>1, <1>2, <1>3, <1>4, <1>5 DEF EndInv
  <1>10. AskInv'
    BY <1>1, <1>2, <1>3, <1>4, <1>5, OnWay DEF AskInv, Asked
  <1> QED
    BY <1>7, <1>8, <1>9, <1>10 DEF AwaitInv, AnswersInv

LEMMA PatientAnswers ==
    ASSUME IInv, PatientInv, SiteAnswers
    PROVE  PatientInv'
  <1>1. /\ UNCHANGED <<pc, input, flags, sendadminmsg, admin_msg, datathread>>
        /\ PlaceInv' /\ (Leaving' <=> Leaving)
    BY PlaceEnv DEF PatientInv, EnvNext
  <1>2. SUFFICES ASSUME OneInv, AwaitInv, EndInv, AskInv
                 PROVE  AnswersInv
    BY <1>1 DEF PatientInv, TalkInv, AnswersInv
  <1>3. PICK a \in Answers(Head(toSite)) : fromSite' = fromSite \o a
    BY DEF SiteAnswers
  <1>4. /\ toSite # <<>> /\ toSite' = Tail(toSite) /\ UNCHANGED toBnc
        /\ \A c \in AllCommands : AtBouncer(c)' <=> AtBouncer(c)
    BY <1>1 DEF SiteAnswers, AtBouncer
  <1>5. /\ <<"227site">> \in Seq(Replies) /\ <<"226">> \in Seq(Replies)
        /\ <<"other">> \in Seq(Replies) /\ <<"other", "226">> \in Seq(Replies)
        /\ <<"200msg">> \in Seq(Replies) /\ <<"200adminmsg">> \in Seq(Replies)
    BY DEF Replies
  \* what the two queues hold when a comes in
  <1> DEFINE Comes(s) ==
         /\ \A x : Has(Answered', x) <=> Has(Answered, x) \/ Has(s, x)
         /\ \A x, y : Before(Answered', x, y) <=>
               Before(Answered, x, y) \/ Before(s, x, y) \/ (Has(Answered, x) /\ Has(s, y))
  <1>6. ASSUME NEW s \in Seq(Replies), a = s
        PROVE  Comes(s)
    BY <1>1, <1>3, <1>6, AnsweredMore DEF IInv
  <1> HIDE DEF Comes
  <1>7. CASE toSite \in {<<"ADMINMSG">>, <<"ADMINMSG", "ABOR">>}
    <2>1. /\ Head(toSite) = "ADMINMSG" /\ UNCHANGED siteXfer
          /\ \/ toSite = <<"ADMINMSG">> /\ toSite' = <<>>
             \/ toSite = <<"ADMINMSG", "ABOR">> /\ toSite' = <<"ABOR">>
      <3>1. CASE toSite = <<"ADMINMSG">>
        BY <1>4, <3>1 DEF SiteAnswers
      <3>2. CASE toSite = <<"ADMINMSG", "ABOR">>
        BY <1>4, <3>2 DEF SiteAnswers
      <3> QED
        BY <1>7, <3>1, <3>2
    <2>2. a \in {<<"200adminmsg">>, <<"other">>}
      BY <1>3, <2>1 DEF Answers
    <2>3. Comes(a)
      BY <1>5, <1>6, <2>2
    <2>4. /\ Has(toSite, "ADMINMSG") /\ ~Has(toSite', "ADMINMSG")
          /\ Has(toSite', "ABOR") => Has(toSite, "ABOR")
          /\ \A x : Has(a, x) => x \in {"200adminmsg", "other"}
          /\ \A x, y : ~Before(a, x, y)
      BY <2>1, <2>2, OnWay
    <2>5. Asked /\ ~Calm
      BY <2>4 DEF Asked, Calm
    <2>6. OneInv'
      BY <1>1, <1>2, <1>4, <2>1, <2>5 DEF OneInv
    <2>7. ~Awaits'
      BY <1>1, <1>2, <2>5 DEF AwaitInv, Awaits, flags, Bounce
    <2>8. EndInv'
      BY <1>1, <1>2, <2>1, <2>3, <2>4, <2>5 DEF EndInv, Comes
    <2>9. AskInv'
      BY <1>1, <1>2, <2>1, <2>3, <2>4, <2>5 DEF AskInv, Comes, Asked
    <2> QED
      BY <2>6, <2>7, <2>8, <2>9 DEF AnswersInv, AwaitInv
  <1>8. CASE toSite \in {<<"ABOR">>, <<"ABOR", "ADMINMSG">>}
    <2>1. /\ Head(toSite) = "ABOR" /\ ~siteXfer'
          /\ \/ toSite = <<"ABOR">> /\ toSite' = <<>>
             \/ toSite = <<"ABOR", "ADMINMSG">> /\ toSite' = <<"ADMINMSG">>
      <3>1. CASE toSite = <<"ABOR">>
        BY <1>4, <3>1 DEF SiteAnswers
      <3>2. CASE toSite = <<"ABOR", "ADMINMSG">>
        BY <1>4, <3>2 DEF SiteAnswers
      <3> QED
        BY <1>8, <3>1, <3>2
    <2>2. a \in {<<"other", "226">>, <<"226">>}
      BY <1>3, <2>1 DEF Answers
    <2>3. Comes(a)
      BY <1>5, <1>6, <2>2
    <2>4. /\ Has(toSite, "ABOR") /\ ~Has(toSite', "ABOR")
          /\ Has(toSite', "ADMINMSG") <=> Has(toSite, "ADMINMSG")
          /\ Has(toSite', "ADMINMSG") => toSite = <<"ABOR", "ADMINMSG">>
          /\ \A x : Has(a, x) => x \in {"226", "other"}
          /\ \A x, y : Before(a, x, y) => x = "other" /\ y = "226"
      BY <2>1, <2>2, OnWay
    <2>5. ~Calm /\ datathread = Null
      BY <1>2, <2>4 DEF EndInv, Calm
    <2>6. OneInv'
      BY <1>1, <1>2, <1>4, <2>1, <2>5 DEF OneInv
    <2>7. ~Awaits'
      BY <1>1, <1>2, <2>5 DEF AwaitInv, Awaits, flags, Bounce
    <2>8. EndInv'
      BY <1>1, <2>1, <2>4, <2>5 DEF EndInv
    <2>9. AskInv'
      BY <1>1, <1>2, <2>1, <2>3, <2>4, <2>5 DEF AskInv, Comes, Asked
    <2> QED
      BY <2>6, <2>7, <2>8, <2>9 DEF AnswersInv, AwaitInv
  <1>9. CASE \E c \in AllCommands \ {"ABOR"} : toSite = <<c>> /\ Calm
    <2>1. PICK c \in AllCommands \ {"ABOR"} : toSite = <<c>>
      BY <1>9
    <2>2. Head(toSite) = c /\ toSite' = <<>> /\ Calm
      BY <1>4, <1>9, <2>1
    <2>3. /\ a \in {<<"227site">>, <<"other">>, <<"200msg">>}
          /\ a = <<"200msg">> => c = "MSG"
          /\ siteXfer' => c \in {"STOR", "RETR", "LIST"}
      BY <1>3, <2>1, <2>2 DEF Answers, SiteAnswers, AllCommands, Calm
    <2>4. Comes(a)
      BY <1>5, <1>6, <2>3
    <2>5. /\ \A x : Has(a, x) => x \in {"227site", "other", "200msg"}
          /\ Has(a, "200msg") => c = "MSG"
          /\ \A x, y : ~Before(a, x, y)
          /\ \A x : ~Has(toSite', x)
      BY <2>2, <2>3, OnWay
    <2>6. ~Asked' /\ pc' # "adminmsg" /\ ~Has(Answered', "226") /\ (~siteXfer' => Calm')
      BY <1>1, <2>2, <2>4, <2>5 DEF Calm, Asked, Comes
    <2>7. \A d \in AllCommands : ~AtBouncer(d)'
      BY <1>2, <1>4, <2>1 DEF OneInv, AllCommands
    <2>8. OneInv'
      BY <1>1, <1>2, <1>4, <2>2, <2>7 DEF OneInv
    <2>9. AwaitInv'
      <3>1. SUFFICES ASSUME Awaits PROVE AwaitInv'
        BY <1>1 DEF AwaitInv, Awaits, flags, Bounce
      <3>2. c \in {"PASV", "CPSV"}
        BY <1>2, <2>1, <3>1 DEF AwaitInv
      <3>3. Calm' /\ fromSite' # <<>>
        <4>1. a \in Seq(Replies) /\ fromSite \in Seq(Replies)
          BY <1>5, <2>3 DEF IInv, TypeOK
        <4>2. a # <<>>
          BY <2>3
        <4>3. fromSite' # <<>>
          BY <1>3, <4>1, <4>2
        <4> QED
          BY <2>3, <2>6, <3>2, <4>3
      <3> QED
        BY <1>1, <1>2, <1>4, <2>2, <3>1, <3>3 DEF AwaitInv
    <2>10. EndInv'
      BY <1>1, <1>2, <2>2, <2>4, <2>5, <2>6 DEF EndInv, Comes
    <2>11. AskInv'
      <3>1. Has(Answered', "200msg") => c = "MSG"
        BY <1>2, <2>1, <2>4, <2>5 DEF AskInv, Comes
      <3>2. c = "MSG" => Calm'
        BY <2>3, <2>6
      <3> QED
        BY <1>1, <1>2, <2>2, <2>4, <2>5, <2>6, <2>7, <3>1, <3>2 DEF AskInv, Comes, Calm
    <2> QED
      BY <2>8, <2>9, <2>10, <2>11 DEF AnswersInv
  <1> QED
    BY <1>2, <1>4, <1>7, <1>8, <1>9 DEF OneInv

LEMMA PatientEnv ==
    ASSUME ~Pipelining, IInv, PatientInv, EnvNext
    PROVE  PatientInv'
  <1>1. CASE PeerCloses \/ LimitChanges
    BY <1>1, PatientSame DEF PeerCloses, LimitChanges, bouncer, admin
  <1> QED
    BY <1>1, PatientSends, PatientAnswers, PatientFinishes DEF EnvNext

\* The control thread moves on and sends nothing.
LEMMA PatientMoves ==
    ASSUME PatientInv, ~Leaving, UNCHANGED <<toBnc, toSite, siteXfer, flags, admin>>,
           UNCHANGED Answered, pc # "adminmsg", pc' \notin {"adminmsg", "select"},
           \A c \in AllCommands : AtBouncer(c)' <=> AtBouncer(c),
           input'.from = "client" => UNCHANGED input, datathread' \in {datathread, Null}
    PROVE  TalkInv'
  <1>1. OneInv /\ AwaitInv /\ EndInv /\ AskInv
    BY DEF PatientInv, TalkInv
  <1>2. UNCHANGED <<Asked, Calm, Awaits>>
    BY DEF Asked, Calm, Awaits, flags, Bounce
  <1>3. OneInv' /\ AwaitInv'
    BY <1>1, <1>2 DEF OneInv, AwaitInv
  <1>4. EndInv'
    BY <1>1, <1>2 DEF EndInv
  <1>5. AskInv'
    BY <1>1, <1>2 DEF AskInv, admin
  <1> QED
    BY <1>3, <1>4, <1>5 DEF TalkInv

LEMMA PatientReadSite ==
    ASSUME IInv, PatientInv, ReadSite
    PROVE  PatientInv'
  <1>1. pc = "select" /\ input = NoInput
    BY DEF ReadSite, PatientInv, PlaceInv
  <1>2. pc' \in {"act", "delete"} /\ input'.from # "client"
    BY DEF ReadSite, Exit, NoInput
  <1>3. PlaceInv'
    <2>1. input'.from = "site" => input'.lines # <<>>
      <3>1. fromSite \in Seq(Replies) /\ \A n \in 1 .. MaxBatch : n \in Nat \ {0}
        BY BoundsAssumption DEF IInv, TypeOK
      <3> QED
        BY <3>1, ReadTyped DEF ReadSite, Exit, NoInput
    <2> QED
      BY <1>2, <2>1 DEF ReadSite, PatientInv, PlaceInv, ActOnClient, flags, Bounce
  <1>4. CASE Exit
    BY <1>3, <1>4 DEF Exit, PatientInv, TalkInv, Leaving
  <1>5. CASE ~Exit
    <2>1. PICK n \in 1 .. MaxBatch :
             /\ n <= Len(fromSite)
             /\ input' = [from |-> "site", lines |-> SubSeq(fromSite, 1, n)]
             /\ fromSite' = SubSeq(fromSite, n + 1, Len(fromSite))
      BY <1>5 DEF ReadSite
    <2>2. n \in Nat /\ fromSite \in Seq(Replies)
      BY BoundsAssumption DEF IInv, TypeOK
    <2>3. UNCHANGED Answered
      <3>1. Answered = fromSite
        BY <1>1, <2>2 DEF Answered, Taken, NoInput
      <3>2. Answered' = SubSeq(fromSite, 1, n) \o SubSeq(fromSite, n + 1, Len(fromSite))
        BY <2>1 DEF Answered, Taken
      <3>3. SubSeq(fromSite, 1, n) \o SubSeq(fromSite, n + 1, Len(fromSite)) = fromSite
        BY <2>1, <2>2
      <3> QED
        BY <3>1, <3>2, <3>3
    <2>4. UNCHANGED <<toBnc, toSite, siteXfer, flags, admin, datathread>>
      BY DEF ReadSite
    <2>5. \A c \in AllCommands : AtBouncer(c)' <=> AtBouncer(c)
      BY <1>1, <1>2, <2>4 DEF AtBouncer, NoInput
    <2> QED
      BY <1>1, <1>2, <1>3, <2>3, <2>4, <2>5, PatientMoves DEF Leaving, PatientInv
  <1> QED
    BY <1>4, <1>5

LEMMA PatientReadClient ==
    ASSUME IInv, PatientInv, ReadClient
    PROVE  PatientInv'
  <1>1. pc = "select" /\ input = NoInput /\ fromSite = <<>> /\ fromSite' = <<>>
    BY DEF ReadClient, PatientInv, PlaceInv
  <1>2. OneInv /\ AwaitInv /\ EndInv /\ AskInv
    BY <1>1 DEF PatientInv, TalkInv, Leaving
  <1>3. CASE Exit
    <2>1. PlaceInv'
      BY <1>3 DEF Exit, ReadClient, PatientInv, PlaceInv, ActOnClient, Bounce
    <2> QED
      BY <1>3, <2>1 DEF Exit, PatientInv, TalkInv, Leaving
  <1>4. CASE ~Exit
    <2>1. PICK n \in 1 .. MaxBatch :
             /\ n <= Len(toBnc)
             /\ input' = [from |-> "client", lines |-> SubSeq(toBnc, 1, n)]
             /\ toBnc' = SubSeq(toBnc, n + 1, Len(toBnc))
             /\ gotportcmd' = (gotportcmd \/ toBnc[1] = "PORT")
             /\ pc' = IF DeletesFirst("client", SubSeq(toBnc, 1, n))
                      THEN "delete" ELSE "act"
      BY <1>4 DEF ReadClient
    <2>2. PICK c \in AllCommands : toBnc = <<c>>
      <3>1. toBnc # <<>>
        BY <2>1, BoundsAssumption
      <3> QED
        BY <1>2, <3>1 DEF OneInv
    <2>3. /\ input' = [from |-> "client", lines |-> <<c>>] /\ toBnc' = <<>>
          /\ gotportcmd' <=> gotportcmd \/ c = "PORT"
          /\ pc' \in {"act", "delete"}
          /\ pc' = "act" => ~(Bounce /\ c \in {"PASV", "CPSV", "PORT", "ABOR"})
      <3>1. n = 1
        BY <2>1, <2>2, BoundsAssumption
      <3>2. <<c>>[1] = c /\ Len(<<c>>) = 1
        OBVIOUS
      <3>3. SubSeq(<<c>>, 1, 1) = <<c>>
        <4>1. ASSUME NEW S, NEW q \in Seq(S)
              PROVE  SubSeq(q, 1, Len(q)) = q
          OBVIOUS
        <4>2. <<c>> \in Seq(AllCommands)
          OBVIOUS
        <4>3. SubSeq(<<c>>, 1, Len(<<c>>)) = <<c>>
          BY <4>1, <4>2
        <4> QED
          BY <3>2, <4>3
      <3>4. SubSeq(<<c>>, 2, 1) = <<>>
        OBVIOUS
      <3>5. n + 1 = 2
        BY <3>1
      <3>6. input' = [from |-> "client", lines |-> <<c>>] /\ toBnc' = <<>>
        BY <2>1, <2>2, <3>1, <3>2, <3>3, <3>4, <3>5
      <3>7. gotportcmd' <=> gotportcmd \/ c = "PORT"
        BY <2>1, <2>2, <3>2
      <3>8. pc' = IF Bounce /\ c \in {"PASV", "CPSV", "PORT", "ABOR"} THEN "delete" ELSE "act"
        BY <2>1, <2>2, <3>1, <3>2, <3>3 DEF DeletesFirst
      <3> QED
        BY <3>6, <3>7, <3>8
    <2>4. UNCHANGED <<toSite, siteXfer, gotpasvcmd, cpsvcmd, admin, datathread>>
      BY DEF ReadClient
    <2>5. Answered = <<>> /\ Answered' = <<>> /\ (Asked' <=> Asked)
      <3>1. Taken = <<>> /\ Taken' = <<>>
        BY <1>1, <2>3 DEF Taken, NoInput
      <3>2. Answered = <<>> /\ Answered' = <<>>
        BY <1>1, <3>1 DEF Answered
      <3> QED
        BY <2>4, <3>2 DEF Asked
    <2>6. Calm' <=> Calm
      BY <1>1, <2>3, <2>4, <2>5 DEF Calm
    <2>7. /\ AtBouncer(c)
          /\ \A d \in AllCommands : AtBouncer(d)' => d = c
      BY <2>2, <2>3 DEF AtBouncer
    <2>8. toSite \in {<<>>, <<"ADMINMSG">>} /\ (c # "ABOR" => Calm)
      BY <1>2, <2>7 DEF OneInv
    <2>9. PlaceInv'
      BY <2>3, <2>4 DEF PatientInv, PlaceInv, ActOnClient, Bounce
    <2>10. OneInv'
      BY <2>3, <2>4, <2>6, <2>7, <2>8 DEF OneInv
    <2>11. AwaitInv'
      <3>1. SUFFICES ASSUME Awaits' PROVE AwaitInv'
        BY DEF AwaitInv
      <3>2. c = "PORT"
        BY <1>2, <2>2, <2>3, <2>4, <3>1 DEF AwaitInv, Awaits, Bounce
      <3>3. Calm /\ toSite = <<>>
        BY <2>8, <3>2, OnWay DEF Calm, Asked
      <3> QED
        BY <2>3, <2>4, <2>6, <3>2, <3>3 DEF AwaitInv
    <2>12. EndInv'
      BY <1>1, <1>2, <2>3, <2>4, <2>5, OnWay DEF EndInv
    <2>13. AskInv'
      BY <1>1, <1>2, <2>3, <2>4, <2>5, OnWay DEF AskInv, admin
    <2> QED
      BY <2>9, <2>10, <2>11, <2>12, <2>13 DEF PatientInv, TalkInv
  <1> QED
    BY <1>3, <1>4

\* deletedatathread, and where it returns to
LEMMA PatientDelete ==
    ASSUME IInv, PatientInv, SetQuit \/ JoinDataThread \/ Destroy
    PROVE  PatientInv'
  <1>1. /\ UNCHANGED <<toBnc, toSite, fromSite, siteXfer, input, flags, admin>>
        /\ datathread' \in {datathread, Null}
        /\ pc \in {"delete", "join", "destroy"} /\ pc' \in {"join", "act", "destroy", "gone"}
        /\ pc' = "act" => datathread' = Null
        /\ input = NoInput => pc' # "act"
    BY DEF SetQuit, JoinDataThread, Destroy, AfterDelete, peers
  <1>2. PlaceInv'
    BY <1>1 DEF PatientInv, PlaceInv, ActOnClient, flags, Bounce
  <1>3. CASE Leaving
    BY <1>1, <1>2, <1>3 DEF Leaving, PatientInv, TalkInv
  <1>4. CASE ~Leaving
    <2>1. UNCHANGED Answered /\ \A c \in AllCommands : AtBouncer(c)' <=> AtBouncer(c)
      BY <1>1 DEF Answered, Taken, AtBouncer
    <2> QED
      BY <1>1, <1>2, <1>4, <2>1, PatientMoves DEF PatientInv
  <1> QED
    BY <1>3, <1>4

LEMMA PatientDirection ==
    ASSUME IInv, PatientInv, NoteDirection \/ SetDirection
    PROVE  PatientInv'
  <1>1. /\ UNCHANGED <<toBnc, toSite, fromSite, siteXfer, input, flags, admin, datathread>>
        /\ pc \in {"act", "setdirection"} /\ pc' \in {"setdirection", "sendtransfer"}
        /\ pc = "act" => input.lines[1] \in {"STOR", "RETR", "LIST"}
    BY DEF NoteDirection, SetDirection, ActOnClient, Cmd, peers
  <1>2. PlaceInv'
    BY <1>1 DEF PatientInv, PlaceInv, ActOnClient, flags, Bounce
  <1>3. UNCHANGED Answered /\ \A c \in AllCommands : AtBouncer(c)' <=> AtBouncer(c)
    BY <1>1 DEF Answered, Taken, AtBouncer
  <1> QED
    BY <1>1, <1>2, <1>3, PatientMoves DEF PatientInv, Leaving

LEMMA AwaitsReply ==
    ASSUME TypeOK
    PROVE  Awaits <=> PassiveReply \/ ActiveReply
  BY DEF TypeOK, Awaits, PassiveReply, ActiveReply, Bounce

\* What the handler read is done with.
LEMMA AnsweredLess ==
    ASSUME TypeOK, input' = NoInput, UNCHANGED fromSite
    PROVE  /\ \A x : Has(Answered', x) <=> Has(fromSite, x)
           /\ \A x : Has(Answered', x) => Has(Answered, x)
           /\ \A x, y : Before(Answered', x, y) => Before(Answered, x, y)
           /\ \A x, y : Has(Taken, x) /\ Has(Answered', y) => Before(Answered, x, y)
           /\ \A x : Has(Taken, x) => Has(Answered, x)
  <1>1. Taken' = <<>> /\ fromSite \in Seq(Replies)
    BY DEF Taken, NoInput, TypeOK
  <1>2. Answered' = fromSite
    BY <1>1 DEF Answered
  <1> QED
    BY <1>2, AnsweredParts

\* The control thread is done with a handler that sent nothing to the site.
LEMMA PatientDone ==
    ASSUME IInv, PatientInv, ~Leaving, pc # "adminmsg", input' = NoInput,
           UNCHANGED <<toBnc, toSite, fromSite, siteXfer, admin_msg>>,
           pc' # "adminmsg", Awaits' => Awaits /\ pc' # "select",
           Asked' => UNCHANGED sendadminmsg,
           Awaits \/ UNCHANGED datathread
    PROVE  TalkInv'
  <1>1. OneInv /\ AwaitInv /\ EndInv /\ AskInv
    BY DEF PatientInv, TalkInv
  <1>2. /\ \A x : Has(Answered', x) => Has(Answered, x)
        /\ \A x, y : Before(Answered', x, y) => Before(Answered, x, y)
    BY AnsweredLess DEF IInv
  <1>3. (Asked' => Asked) /\ (Calm => Calm')
    BY <1>2 DEF Asked, Calm
  <1>4. \A c \in AllCommands : AtBouncer(c)' => AtBouncer(c)
    BY DEF AtBouncer, NoInput
  <1>5. OneInv'
    BY <1>1, <1>3, <1>4 DEF OneInv, NoInput
  <1>6. AwaitInv'
    BY <1>1, <1>3 DEF AwaitInv, NoInput
  <1>7. EndInv'
    <2>1. CASE Awaits
      <3>1. Calm /\ toSite \in {<<>>, <<"PASV">>, <<"CPSV">>}
        BY <1>1, <2>1 DEF AwaitInv
      <3>2. ~Before(Answered, "226", "226")
        BY <3>1 DEF Calm, Before, Has
      <3> QED
        BY <1>1, <1>2, <1>3, <3>1, <3>2 DEF EndInv, Calm
    <2>2. CASE UNCHANGED datathread
      BY <1>1, <1>2, <1>3, <2>2 DEF EndInv
    <2> QED
      BY <2>1, <2>2
  <1>8. AskInv'
    <2>1. Asked' => sendadminmsg' /\ pc' # "adminmsg"
      BY <1>1, <1>3 DEF AskInv
    <2>2. /\ ~ (Has(toSite', "ADMINMSG") /\ Has(Answered', "200adminmsg"))
          /\ ~ Before(Answered', "200adminmsg", "200adminmsg")
          /\ Has(Answered', "200msg") =>
                Calm' /\ toSite' = <<>> /\ \A c \in AllCommands : ~AtBouncer(c)'
      BY <1>1, <1>2, <1>3, <1>4 DEF AskInv
    <2>3. \/ Before(Answered', "226", "200adminmsg")
          \/ Has(Answered', "226") /\ Has(toSite', "ADMINMSG")
          \/ toSite' = <<"ABOR", "ADMINMSG">>
          => ~admin_msg' /\ datathread' = Null
      <3>1. CASE Awaits
        <4>1. Calm /\ toSite \in {<<>>, <<"PASV">>, <<"CPSV">>}
          BY <1>1, <3>1 DEF AwaitInv
        <4>2. ~Has(Answered', "226") /\ ~Before(Answered, "226", "200adminmsg")
          BY <1>2, <4>1 DEF Calm, Before, Has
        <4> QED
          BY <1>2, <4>1, <4>2
      <3>2. CASE UNCHANGED datathread
        BY <1>1, <1>2, <3>2 DEF AskInv
      <3> QED
        BY <3>1, <3>2
    <2> QED
      BY <2>1, <2>2, <2>3 DEF AskInv
  <1> QED
    BY <1>5, <1>6, <1>7, <1>8 DEF TalkInv

LEMMA PatientCreate ==
    ASSUME IInv, PatientInv, CreatePassive \/ CreateActive
    PROVE  PatientInv'
  <1>1. /\ pc = "act" /\ pc' \in {"delete", "reset", "portok", "porterr"}
        /\ input' = NoInput
        /\ UNCHANGED <<toBnc, toSite, fromSite, siteXfer, flags, admin>>
    BY DEF CreatePassive, CreateActive, RefuseForLimit, Exit, ActOnSite, peers
  <1>2. Awaits /\ Bounce /\ (Awaits' <=> Awaits)
    <2>1. Awaits
      BY AwaitsReply DEF CreatePassive, CreateActive, IInv
    <2> QED
      BY <1>1, <2>1 DEF Awaits, Bounce, flags
  <1>3. PlaceInv'
    BY <1>1, <1>2 DEF PlaceInv, ActOnClient, Bounce, NoInput
  <1> QED
    BY <1>1, <1>2, <1>3, PatientDone DEF Leaving, PatientInv, admin

LEMMA PatientReset ==
    ASSUME IInv, PatientInv, AnswerPort \/ ResetTransfer
    PROVE  PatientInv'
  <1>1. /\ pc \in {"portok", "porterr", "reset"} /\ input = NoInput
        /\ UNCHANGED <<toBnc, toSite, fromSite, siteXfer, input, admin, datathread>>
        /\ pc' \in {"delete", "reset", "select"}
    BY DEF AnswerPort, ResetTransfer, IInv, ControlInv, peers
  <1>2. (Awaits' => Awaits /\ pc' # "select") /\ (~Bounce => ~gotpasvcmd')
    BY DEF AnswerPort, ResetTransfer, Awaits, Bounce, flags, PatientInv, PlaceInv
  <1>3. PlaceInv'
    BY <1>1, <1>2 DEF PatientInv, PlaceInv, ActOnClient, NoInput, Bounce
  <1> QED
    BY <1>1, <1>2, <1>3, PatientDone DEF Leaving, PatientInv, admin

\* The confirmation in the reply read is not followed by another.
LEMMA PatientSwallow ==
    ASSUME IInv, PatientInv, SwallowMsgReply
    PROVE  PatientInv'
  <1>1. /\ pc = "act" /\ pc' = "select" /\ input.from = "site" /\ input' = NoInput
        /\ UNCHANGED <<toBnc, toSite, fromSite, siteXfer, flags, admin_msg, datathread>>
    BY DEF SwallowMsgReply, ActOnSite, peers
  <1>2. ~Awaits /\ ~Awaits'
    <2>1. ~Awaits
      BY AwaitsReply DEF SwallowMsgReply, IInv
    <2> QED
      BY <1>1, <2>1 DEF Awaits, Bounce, flags
  <1>3. PlaceInv'
    BY <1>1 DEF PatientInv, PlaceInv, ActOnClient, flags, Bounce, NoInput
  <1>4. AskInv
    BY <1>1 DEF PatientInv, TalkInv, Leaving
  <1>5. ~Asked'
    <2>1. Has(Taken, "200msg") \/ Has(Taken, "200adminmsg")
      BY <1>1 DEF SwallowMsgReply, MsgReply, Taken
    <2>2. CASE Has(Taken, "200msg")
      <3>1. Calm
        BY <1>1, <1>4, <2>2, AnsweredLess DEF AskInv, IInv
      <3> QED
        BY <1>1, <3>1, AnsweredLess DEF Calm, Asked, IInv
    <2>3. CASE Has(Taken, "200adminmsg")
      <3>1. Has(Answered, "200adminmsg")
        BY <1>1, <2>3, AnsweredLess DEF IInv
      <3>2. ~Has(toSite', "ADMINMSG")
        BY <1>1, <1>4, <3>1 DEF AskInv
      <3>3. ~Has(Answered', "200adminmsg")
        BY <1>1, <1>4, <2>3, AnsweredLess DEF AskInv, IInv
      <3> QED
        BY <3>2, <3>3 DEF Asked
    <2> QED
      BY <2>1, <2>2, <2>3
  <1> QED
    BY <1>1, <1>2, <1>3, <1>5, PatientDone DEF Leaving, PatientInv

\* A reply that is shown holds no confirmation: sendadminmsg would be set.
LEMMA ShownLines ==
    ASSUME IInv, PatientInv, ForwardReply
    PROVE  ~Has(input.lines, "200adminmsg")
  <1>1. SUFFICES ASSUME Has(input.lines, "200adminmsg")
                 PROVE  sendadminmsg
    BY DEF ForwardReply, MsgReply
  <1>2. Has(Taken, "200adminmsg")
    BY <1>1 DEF ForwardReply, ActOnSite, Taken
  <1>3. Asked
    BY <1>2, AnsweredParts DEF Asked, IInv
  <1>4. AskInv
    BY DEF ForwardReply, ActOnSite, PatientInv, TalkInv, Leaving
  <1> QED
    BY <1>3, <1>4 DEF AskInv

LEMMA PatientForward ==
    ASSUME IInv, PatientInv, ForwardReply
    PROVE  PatientInv'
  <1>1. /\ pc = "act" /\ input.from = "site"
        /\ UNCHANGED <<toBnc, toSite, fromSite, siteXfer, flags, admin, datathread>>
    BY DEF ForwardReply, ActOnSite, peers
  <1>2. ~Awaits /\ ~Awaits'
    <2>1. ~Awaits
      BY AwaitsReply DEF ForwardReply, IInv
    <2> QED
      BY <1>1, <2>1 DEF Awaits, Bounce, flags
  <1>3. CASE pc' \in {"delete", "select"} /\ input' = NoInput
    <2>1. PlaceInv'
      BY <1>1, <1>3 DEF PatientInv, PlaceInv, ActOnClient, flags, Bounce, NoInput
    <2> QED
      BY <1>1, <1>2, <1>3, <2>1, PatientDone DEF Leaving, PatientInv, admin
  <1>4. CASE /\ pc' = "adminmsg" /\ UNCHANGED input
             /\ input.lines[Len(input.lines)] = "226" /\ admin_msg
    <2>1. OneInv /\ AwaitInv /\ EndInv /\ AskInv
      BY <1>1 DEF PatientInv, TalkInv, Leaving
    <2>2. Has(Taken, "226") /\ Taken = input.lines
      <3>1. input.lines \in Seq(Replies)
        BY <1>1 DEF IInv, TypeOK, NoInput
      <3>2. input.lines # <<>>
        BY <1>1 DEF PatientInv, PlaceInv
      <3> QED
        BY <1>1, <1>4, <3>1, <3>2 DEF Taken, Has
    <2>3. Has(Answered, "226") /\ ~Calm
      BY <2>2, AnsweredParts DEF Calm, IInv
    <2>4. ~Asked
      <3>1. ~Has(toSite, "ADMINMSG")
        BY <1>4, <2>1, <2>3 DEF AskInv
      <3>2. ~Has(Taken, "200adminmsg")
        BY <2>2, ShownLines
      <3>3. ~Has(fromSite, "200adminmsg")
        BY <1>4, <2>1, <2>2, AnsweredParts DEF AskInv, IInv
      <3> QED
        BY <3>1, <3>2, <3>3, AnsweredParts DEF Asked, IInv
    <2>5. UNCHANGED Answered /\ (Asked' <=> Asked)
      BY <1>1, <1>4 DEF Answered, Taken, Asked
    <2>6. \A c \in AllCommands : AtBouncer(c)' <=> AtBouncer(c)
      BY <1>1, <1>4 DEF AtBouncer
    <2>7. PlaceInv'
      BY <1>1, <1>4, <2>2 DEF PatientInv, PlaceInv, ActOnClient, flags, Bounce
    <2>8. OneInv'
      BY <1>1, <1>4, <2>1, <2>3, <2>6 DEF OneInv
    <2>9. EndInv'
      BY <1>1, <2>1, <2>3, <2>5 DEF EndInv
    <2>10. AskInv'
      BY <1>1, <2>1, <2>3, <2>4, <2>5, <2>6 DEF AskInv, admin
    <2> QED
      BY <1>2, <2>7, <2>8, <2>9, <2>10 DEF PatientInv, TalkInv, AwaitInv
  <1> QED
    BY <1>3, <1>4 DEF ForwardReply, Exit

\* The end of a transfer was shown: a message to the admins goes to the site.
LEMMA PatientAsk ==
    ASSUME IInv, PatientInv, SendAdminMsg
    PROVE  PatientInv'
  <1>1. /\ pc = "adminmsg" /\ input.from = "site" /\ Has(Taken, "226") /\ input' = NoInput
        /\ pc' \in {"delete", "select"}
        /\ UNCHANGED <<toBnc, fromSite, siteXfer, flags, datathread>>
    BY DEF SendAdminMsg, WriteSite, Exit, PatientInv, PlaceInv, Taken
  <1>2. PlaceInv'
    BY <1>1 DEF PatientInv, PlaceInv, ActOnClient, flags, Bounce, NoInput
  <1>3. CASE pc' = "delete"
    BY <1>1, <1>2, <1>3 DEF PatientInv, TalkInv, Leaving
  <1>4. CASE pc' = "select"
    <2>1. OneInv /\ AwaitInv /\ EndInv /\ AskInv
      BY <1>1 DEF PatientInv, TalkInv, Leaving
    <2>2. sendadminmsg' = TRUE /\ admin_msg' = FALSE /\ toSite' = toSite \o <<"ADMINMSG">>
      BY <1>4 DEF SendAdminMsg, WriteSite, Exit
    <2>3. ~Calm /\ ~Asked /\ ~siteXfer
      BY <1>1, <2>1 DEF Calm, AskInv, EndInv
    <2>4. \/ toSite = <<>> /\ toSite' = <<"ADMINMSG">>
          \/ toSite = <<"ABOR">> /\ toSite' = <<"ABOR", "ADMINMSG">>
      <3>1. ~Has(toSite, "ADMINMSG") /\ ~Calm
        BY <2>3 DEF Asked
      <3>2. toSite \in {<<>>, <<"ABOR">>}
        BY <2>1, <3>1, OnWay DEF OneInv
      <3>3. /\ <<>> \o <<"ADMINMSG">> = <<"ADMINMSG">>
            /\ <<"ABOR">> \o <<"ADMINMSG">> = <<"ABOR", "ADMINMSG">>
        BY ShortJoined
      <3> QED
        BY <2>2, <3>2, <3>3
    <2>5. /\ ~Has(Answered', "200adminmsg") /\ ~Has(Answered', "200msg")
          /\ \A x, y : Before(Answered', x, y) => Before(Answered, x, y)
          /\ Has(Answered', "226") => Before(Answered, "226", "226")
      <3>1. ~Has(Answered, "200adminmsg") /\ ~Has(Answered, "200msg")
        BY <2>1, <2>3 DEF AskInv, Asked
      <3> QED
        BY <1>1, <3>1, AnsweredLess DEF IInv
    <2>6. \A c \in AllCommands : AtBouncer(c)' => AtBouncer(c)
      BY <1>1 DEF AtBouncer, NoInput
    <2>7. \A c \in AllCommands : AtBouncer(c) => c = "ABOR" /\ toSite = <<>>
      BY <2>1, <2>3, <2>4, OnWay DEF OneInv
    <2>8. OneInv'
      <3>1. UNCHANGED toBnc /\ input'.from = "none"
        BY <1>1 DEF NoInput
      <3>2. toBnc = <<>> \/ \E c \in AllCommands : toBnc = <<c>>
        BY <2>1 DEF OneInv
      <3>3. \A c \in AllCommands : AtBouncer(c)' => toSite' = <<"ADMINMSG">> /\ c = "ABOR"
        BY <2>4, <2>6, <2>7
      <3>4. toSite' \in {<<"ADMINMSG">>, <<"ABOR", "ADMINMSG">>}
        BY <2>4
      <3> QED
        BY <3>1, <3>2, <3>3, <3>4 DEF OneInv
    <2>9. ~Awaits'
      BY <1>1, <2>1, <2>3 DEF AwaitInv, Awaits, flags, Bounce
    <2>10. EndInv'
      BY <1>1, <2>1, <2>3, <2>4, <2>5, OnWay DEF EndInv
    <2>11. AskInv'
      <3>1. Has(Answered', "226") \/ toSite' = <<"ABOR", "ADMINMSG">> => datathread' = Null
        BY <1>1, <2>1, <2>4, <2>5, OnWay DEF EndInv
      <3>2. ~Before(Answered', "226", "200adminmsg") /\ ~Before(Answered', "200adminmsg", "200adminmsg")
        BY <2>5 DEF Before, Has
      <3> QED
        BY <1>4, <2>2, <2>5, <3>1, <3>2 DEF AskInv
    <2> QED
      BY <1>2, <2>8, <2>9, <2>10, <2>11 DEF PatientInv, TalkInv, AwaitInv
  <1> QED
    BY <1>1, <1>3, <1>4

\* A command goes on to the site, as it is or as the bouncer changes it.
LEMMA PatientSendOn ==
    ASSUME IInv, PatientInv, NEW c \in AllCommands, NEW cmds,
           pc \in {"act", "sendtransfer"}, input.from = "client", input.lines = <<c>>,
           SendOn(cmds), gotportcmd' = gotportcmd, ~Bounce => ~gotpasvcmd',
           IF c = "ABOR"
           THEN cmds = <<"ABOR">> /\ UNCHANGED gotpasvcmd /\ datathread = Null
           ELSE /\ \E d \in AllCommands \ {"ABOR"} : cmds = <<d>>
                /\ Awaits' => cmds \in {<<"PASV">>, <<"CPSV">>}
    PROVE  PatientInv'
  <1>1. /\ input' = NoInput /\ pc' \in {"select", "delete"}
        /\ UNCHANGED <<toBnc, fromSite, siteXfer, admin, datathread>>
    BY DEF SendOn, WriteSite, Exit
  <1>2. PlaceInv'
    BY <1>1 DEF PatientInv, PlaceInv, ActOnClient, Bounce, NoInput
  <1>3. CASE pc' = "delete"
    BY <1>1, <1>2, <1>3 DEF PatientInv, TalkInv, Leaving
  <1>4. CASE pc' = "select"
    <2>1. OneInv /\ AwaitInv /\ EndInv /\ AskInv
      BY DEF PatientInv, TalkInv, Leaving, NoInput
    <2>2. toSite' = toSite \o cmds
      BY <1>4 DEF SendOn, WriteSite, Exit
    <2>3. AtBouncer(c) /\ toBnc = <<>>
      BY <2>1 DEF AtBouncer, OneInv
    <2>4. toSite \in {<<>>, <<"ADMINMSG">>} /\ (c # "ABOR" => Calm)
      BY <2>1, <2>3 DEF OneInv
    <2>5. UNCHANGED Answered /\ ~Has(Answered, "200msg")
      <3>1. ~Has(Answered, "200msg")
        BY <2>1, <2>3 DEF AskInv
      <3> QED
        BY <1>1, <3>1 DEF Answered, Taken, NoInput
    <2>6. \A d \in AllCommands : ~AtBouncer(d)'
      BY <1>1, <2>3 DEF AtBouncer, NoInput
    <2>7. CASE c = "ABOR"
      <3>1. cmds = <<"ABOR">> /\ datathread = Null /\ UNCHANGED gotpasvcmd
        BY <2>7
      <3>2. \/ toSite = <<>> /\ toSite' = <<"ABOR">>
            \/ toSite = <<"ADMINMSG">> /\ toSite' = <<"ADMINMSG", "ABOR">>
        <4>1. /\ <<>> \o <<"ABOR">> = <<"ABOR">>
              /\ <<"ADMINMSG">> \o <<"ABOR">> = <<"ADMINMSG", "ABOR">>
          BY ShortJoined
        <4> QED
          BY <2>2, <2>4, <3>1, <4>1
      <3>3. Has(toSite', "ADMINMSG") <=> Has(toSite, "ADMINMSG")
        BY <3>2, OnWay
      <3>4. Asked' <=> Asked
        BY <2>5, <3>3 DEF Asked
      <3>5. OneInv'
        BY <1>1, <2>1, <2>6, <3>2 DEF OneInv, NoInput
      <3>6. ~Awaits'
        <4>1. input.lines # <<"PORT">>
          BY <2>7
        <4>2. ~Awaits
          BY <2>1, <4>1 DEF AwaitInv
        <4> QED
          BY <3>1, <4>2 DEF Awaits, Bounce
      <3>7. EndInv'
        BY <1>1, <1>4, <2>1, <2>5, <3>1, <3>4 DEF EndInv
      <3>8. AskInv'
        BY <1>1, <1>4, <2>1, <2>5, <3>1, <3>2, <3>3, <3>4 DEF AskInv, admin
      <3> QED
        BY <1>2, <3>5, <3>6, <3>7, <3>8 DEF PatientInv, TalkInv, AwaitInv
    <2>8. CASE c # "ABOR"
      <3>1. Calm /\ toSite = <<>>
        BY <2>4, <2>8, OnWay DEF Calm, Asked
      <3>2. PICK d \in AllCommands \ {"ABOR"} : cmds = <<d>>
        BY <2>8
      <3>3. toSite' = <<d>>
        BY <2>2, <3>1, <3>2, ShortJoined
      <3>4. ~Has(toSite', "ADMINMSG") /\ ~Has(toSite', "ABOR")
        BY <3>2, <3>3, OnWay DEF AllCommands
      <3>5. ~Asked' /\ Calm'
        BY <1>1, <1>4, <2>5, <3>1, <3>4 DEF Calm, Asked
      <3>6. OneInv'
        BY <1>1, <2>1, <2>6, <3>2, <3>3, <3>5 DEF OneInv, NoInput
      <3>7. AwaitInv'
        BY <1>1, <2>3, <2>8, <3>2, <3>3, <3>5 DEF AwaitInv, NoInput
      <3>8. EndInv'
        <4>1. ~Before(Answered, "226", "226")
          BY <3>1 DEF Calm, Before, Has
        <4> QED
          BY <2>5, <3>4, <3>5, <4>1 DEF EndInv, Calm
      <3>9. AskInv'
        <4>1. ~Before(Answered, "226", "200adminmsg") /\ ~Before(Answered, "200adminmsg", "200adminmsg")
          BY <3>1 DEF Calm, Asked, Before, Has
        <4>2. toSite' # <<"ABOR", "ADMINMSG">>
          BY <3>3
        <4> QED
          BY <2>5, <3>4, <3>5, <4>1, <4>2 DEF AskInv
      <3> QED
        BY <1>2, <3>6, <3>7, <3>8, <3>9 DEF PatientInv, TalkInv
    <2> QED
      BY <2>7, <2>8
  <1> QED
    BY <1>1, <1>3, <1>4

LEMMA PatientHandlers ==
    ASSUME IInv, PatientInv,
           \/ HandlePasv \/ HandleCpsv \/ HandlePort \/ HandleAbor
           \/ SendTransfer \/ ForwardCommand
    PROVE  PatientInv'
  <1>1. input.from = "client" /\ pc \in {"act", "sendtransfer"}
    BY DEF HandlePasv, HandleCpsv, HandlePort, HandleAbor, SendTransfer, ForwardCommand,
           ActOnClient, IInv, ControlInv
  <1>2. OneInv /\ AwaitInv
    BY <1>1 DEF PatientInv, TalkInv, Leaving
  <1>3. PICK c \in AllCommands : input.lines = <<c>> /\ input.lines[1] = c
    BY <1>1, <1>2 DEF OneInv
  <1>4. ~Bounce => ~gotpasvcmd
    BY DEF PatientInv, PlaceInv
  <1>5. Awaits => c = "PORT"
    BY <1>1, <1>2, <1>3 DEF AwaitInv
  \* what PatientSendOn asks of the handler of a command other than ABOR
  <1>6. ASSUME NEW d \in AllCommands \ {"ABOR"}, c # "ABOR", SendOn(<<d>>),
               gotportcmd' = gotportcmd, ~Bounce => ~gotpasvcmd', Awaits' => d \in {"PASV", "CPSV"}
        PROVE  PatientInv'
    BY <1>1, <1>3, <1>6, PatientSendOn
  <1>7. CASE HandlePasv
    <2>1. /\ c = "PASV" /\ SendOn(<<"PASV">>) /\ gotportcmd' = gotportcmd
          /\ gotpasvcmd' <=> gotpasvcmd \/ Bounce
      BY <1>3, <1>7 DEF HandlePasv, Cmd
    <2> QED
      BY <1>4, <1>6, <2>1 DEF AllCommands
  <1>8. CASE HandleCpsv
    <2>1. /\ c = "CPSV" /\ gotportcmd' = gotportcmd
          /\ SendOn(<<"CPSV">>) \/ SendOn(<<"PASV">>)
          /\ Bounce \/ UNCHANGED gotpasvcmd
      BY <1>3, <1>8 DEF HandleCpsv, Cmd
    <2> QED
      BY <1>4, <1>6, <2>1 DEF AllCommands
  <1>9. CASE HandlePort
    <2>1. /\ c = "PORT" /\ UNCHANGED flags
          /\ SendOn(<<IF Bounce THEN "PASV" ELSE "PORT">>)
      BY <1>3, <1>9 DEF HandlePort, Cmd
    <2> QED
      BY <1>4, <1>6, <2>1 DEF AllCommands, Awaits, flags
  <1>10. CASE HandleAbor
    <2>1. c = "ABOR" /\ SendOn(<<"ABOR">>) /\ UNCHANGED flags
      BY <1>3, <1>10 DEF HandleAbor, Cmd
    <2>2. datathread = Null
      BY <1>3, <1>10, <2>1 DEF HandleAbor, PatientInv, PlaceInv
    <2> QED
      BY <1>1, <1>3, <1>4, <2>1, <2>2, PatientSendOn DEF flags
  <1>11. CASE SendTransfer \/ ForwardCommand
    <2>1. /\ c \notin {"ABOR", "PORT"} /\ SendOn(<<c>>) /\ UNCHANGED flags
      <3>1. SendTransfer => c \in {"STOR", "RETR", "LIST"}
        BY <1>3 DEF SendTransfer, PatientInv, PlaceInv
      <3>2. ForwardCommand => c \in {"MSG", "NOOP"}
        BY <1>3 DEF ForwardCommand, Cmd
      <3> QED
        BY <1>3, <1>11, <3>1, <3>2 DEF SendTransfer, ForwardCommand
    <2>2. ~Awaits'
      BY <1>5, <2>1 DEF Awaits, Bounce, flags
    <2> QED
      BY <1>4, <1>6, <2>1, <2>2 DEF flags
  <1> QED
    BY <1>7, <1>8, <1>9, <1>10, <1>11

LEMMA PatientNext ==
    ASSUME ~Pipelining, IInv, PatientInv, [Next]_vars
    PROVE  PatientInv'
  <1>1. CASE ControlNext
    BY <1>1, PatientReadSite, PatientReadClient, PatientDelete, PatientCreate, PatientReset,
       PatientSwallow, PatientForward, PatientAsk, PatientHandlers, PatientDirection
       DEF ControlNext
  <1>2. CASE DataNext
    BY <1>2, PatientData DEF DataNext
  <1>3. CASE EnvNext
    BY <1>3, PatientEnv
  <1>4. CASE Terminated \/ UNCHANGED vars
    BY <1>4, PatientSame DEF Terminated, vars, peers, admin
  <1> QED
    BY <1>1, <1>2, <1>3, <1>4 DEF Next

LEMMA PatientInit == Init => PatientInv
  <1> SUFFICES ASSUME Init PROVE PatientInv
    OBVIOUS
  <1>1. Answered = <<>>
    BY DEF Init, Answered, Taken, NoInput
  <1>2. ~Asked /\ Calm /\ ~Awaits /\ \A c \in AllCommands : ~AtBouncer(c)
    BY <1>1, OnWay DEF Init, Asked, Calm, Awaits, AtBouncer, NoInput
  <1>3. PlaceInv
    BY DEF Init, PlaceInv, ActOnClient, NoInput
  <1> QED
    BY <1>1, <1>2, <1>3, OnWay DEF Init, PatientInv, TalkInv, OneInv, AwaitInv, EndInv, AskInv, NoInput

\* sendadminmsg: a client that waits for its replies is never shown the
\* confirmation of a message the bouncer sent to the admins.  One that sends
\* ahead is: the confirmation of a message of its own comes first, is swallowed
\* and resets the flag.
THEOREM ConfirmationHidden ==
    ASSUME ~Pipelining
    PROVE  Spec => []AdminConfirmationHidden
  <1>1. Init => PatientInv /\ AdminConfirmationHidden
    BY PatientInit, OnWay DEF Init, AdminConfirmationHidden
  <1>2. IInv /\ PatientInv /\ AdminConfirmationHidden /\ [Next]_vars
           => PatientInv' /\ AdminConfirmationHidden'
    <2> SUFFICES ASSUME IInv, PatientInv, AdminConfirmationHidden, [Next]_vars
                 PROVE  AdminConfirmationHidden'
      BY PatientNext
    \* a writer leaves the lines alone or writes its own
    <2>1. ASSUME NEW who, NEW lines, NEW ok, WriteClient(who, lines, ok),
                 ~Has(lines, "200adminmsg")
          PROVE  AdminConfirmationHidden'
      BY <2>1 DEF WriteClient, AdminConfirmationHidden
    <2>2. /\ ~Has(<<"200port">>, "200adminmsg") /\ ~Has(<<"500">>, "200adminmsg")
          /\ ~Has(<<"227bnc">>, "200adminmsg") /\ ~Has(<<"425">>, "200adminmsg")
          /\ ~Has(<<"427">>, "200adminmsg")
      BY OnWay
    <2>3. CASE UNCHANGED clientLines
      BY <2>3 DEF AdminConfirmationHidden
    <2>4. CASE RefuseForLimit
      BY <2>2, <2>4 DEF RefuseForLimit, AdminConfirmationHidden
    <2>5. CASE AnswerPort \/ \E t \in Tid : AnnounceOrRefuse(t) \/ DenyTransfer(t)
      BY <2>1, <2>2, <2>5 DEF AnswerPort, AnnounceOrRefuse, DenyTransfer
    <2>6. CASE ForwardReply
      BY <2>1, <2>6, ShownLines DEF ForwardReply
    <2> QED
      BY <2>3, <2>4, <2>5, <2>6, Writers
  <1> QED
    BY <1>1, <1>2, Inductive, PTL DEF Spec
=============================================================================
