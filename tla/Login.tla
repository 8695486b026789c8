------------------------------- MODULE Login -------------------------------
(***************************************************************************)
(* A session from its start to the state in which Transfer takes over: the *)
(* checks of the client, the connection to the site, IDNT, the welcome     *)
(* message, AUTH with the TLS handshakes on both control connections, USER *)
(* and PASS, the relink to another site, and the commands that set options *)
(* of the session.                                                         *)
(*                                                                         *)
(* One thread serves both peers, so a handler is one action, cut where the *)
(* thread waits for a peer.  A read returns one reply or command; a reply  *)
(* of several lines may arrive in two reads.                               *)
(***************************************************************************)
EXTENDS Integers, Sequences

CONSTANTS
    Configs,      \* the configurations: sets of options that are on
    Commands,     \* what the client sends
    MaxCmds,      \* how many commands it sends
    MaxDue,       \* how many replies it may wait for, 1 if it does not pipeline
    Spins         \* the tries of SslConnect and SslAccept, 200 in the code

(* client_is_entry and sslexcluded say what the lists of the configuration *)
(* hold; own_sscn is traffic_bnc without ssl_forward.                      *)
Options == {"using_entry", "client_is_entry", "allow_noentry_connect", "use_ident",
            "enforce_ident", "no_idnt_cmd", "show_connect_failmsg",
            "fake_serverstring", "enforce_tls", "use_ssl_exclude", "sslexcluded",
            "trytorelink", "relink_notls", "ssl_relink", "translate_nosslfxp",
            "own_sscn", "send_traffic_info"}

AuthCommands   == {"AUTH TLS", "AUTH SSL"}
OptionCommands == {"TYPE A", "TYPE I", "PROT P", "PROT C", "SSCN ON", "SSCN OFF"}
AllCommands    == AuthCommands \cup OptionCommands
                    \cup {"IDNT", "USER", "empty USER", "PASS", "QUIT", "NOOP"}

ASSUME LoginAssumption ==
    /\ Configs \subseteq SUBSET Options
    /\ Commands \subseteq AllCommands
    /\ MaxCmds \in Nat /\ MaxDue \in Nat \ {0} /\ Spins \in Nat \ {0}

VARIABLES
    config,
    pc, input,                       \* where mainloop is, what it has read
    toBnc, toSite, fromSite,         \* what has arrived and is not yet read
    clientUp, siteUp,                \* the connections are open
    ssl,                             \* sitessl and clientssl
    tries,                           \* the i of SslConnect and SslAccept
    gotfirstcmd, gotusercmd, gotpasscmd, gotwelcomemsg,
    relinked, usingssl, gotauthsslmsg, sslprotp, transfertype, sscn,
    peer,                            \* what the peers know of the connections
    sent, due, asked, told, believes,
    ahead, lateauth, refused, lost

got     == <<gotfirstcmd, gotusercmd, gotpasscmd, gotwelcomemsg>>
opts    == <<gotauthsslmsg, sslprotp, transfertype, sscn>>
flags   == <<got, opts, relinked, usingssl>>
wires   == <<toBnc, toSite, fromSite>>
ups     == <<clientUp, siteUp>>
client  == <<sent, due, asked, told, believes>>
history == <<ahead, lateauth, refused, lost>>
vars    == <<config, pc, input, wires, ups, ssl, tries, flags, peer, client, history>>

(* ssl: "started" is an SSL object whose handshake is not finished.        *)
(* peer: tls, the peer takes the connection for a TLS connection;          *)
(* answered, its part of the handshake has arrived; user and in, the login *)
(* at the site.                                                            *)
(* The client has sent `sent` commands, the last one was `asked`, it waits *)
(* for `due` final replies, at first for the welcome message; `told` is    *)
(* the last reply to a login, `believes` what it takes for agreed.         *)
(* History: ahead, the client did not wait for a reply; lateauth, AUTH was *)
(* read after USER or after a relink; refused, the site refused a login or *)
(* something else; lost, the login at the relink site failed.              *)
SslState == {"null", "started", "ready"}
Site     == [tls : BOOLEAN, answered : BOOLEAN, user : BOOLEAN, in : BOOLEAN]
Client   == [tls : BOOLEAN, answered : BOOLEAN]
Beliefs  == [private : BOOLEAN, ascii : BOOLEAN, sscn : BOOLEAN]
NewSite  == [tls |-> FALSE, answered |-> FALSE, user |-> FALSE, in |-> FALSE]

On(o) == o \in config

(* Replies: "full" stands for site_full, site_closed and max_numlogins,    *)
(* "denied" for user_access_denied, "no" for any other refusal, a trailing *)
(* "-" for a part that is not the last line.                               *)
AuthDone     == {"234 TLS", "234 SSL"}
LoginReplies == {"230", "331", "530", "427", "denied", "full"}
Replies      == {"220", "230-", "221-", "221", "200", "no", "500"}
                    \cup AuthDone \cup LoginReplies

\* Mutant: a part of a reply passes for its last line
EndlineMutant(line) == TRUE

Endline(line) == line \notin {"230-", "221-"}

-----------------------------------------------------------------------------
(* Writes.  A write on an unfinished handshake finishes it first.          *)

Talks(p)    == ssl[p] # "started" \/ peer[p].answered
Finished(p) == ssl' = [ssl EXCEPT ![p] = IF @ = "started" THEN "ready" ELSE @]

\* what the client takes for agreed after a line
Believing(line) ==
    CASE line = "200" /\ asked = "PROT P"   -> [believes EXCEPT !.private = TRUE]
      [] line = "200" /\ asked = "PROT C"   -> [believes EXCEPT !.private = FALSE]
      [] line \in AuthDone /\ asked = "AUTH SSL" -> [believes EXCEPT !.private = TRUE]
      [] line = "200" /\ asked = "TYPE A"   -> [believes EXCEPT !.ascii = TRUE]
      [] line = "200" /\ asked = "TYPE I"   -> [believes EXCEPT !.ascii = FALSE]
      [] line = "200" /\ asked = "SSCN ON"  -> [believes EXCEPT !.sscn = TRUE]
      [] line = "200" /\ asked = "SSCN OFF" -> [believes EXCEPT !.sscn = FALSE]
      [] OTHER -> believes

ClientHears(line) ==
    /\ due' = IF Endline(line) THEN due - 1 ELSE due
    /\ told' = IF line \in LoginReplies THEN line ELSE told
    /\ believes' = Believing(line)
    /\ peer' = [peer EXCEPT !.client.tls = @ \/ line \in AuthDone]
    /\ UNCHANGED <<sent, asked>>

\* Write(client_sock, line); ok is what it returns
WriteClient(line, ok) ==
    \/ ok  /\ clientUp /\ Talks("client") /\ Finished("client") /\ ClientHears(line)
    \/ ~ok /\ ~clientUp /\ UNCHANGED <<ssl, client, peer>>

\* Write(site_sock, cmd)
WriteSite(cmd, ok) ==
    \/ ok  /\ siteUp /\ Talks("site") /\ Finished("site") /\ toSite' = Append(toSite, cmd)
    \/ ~ok /\ ~siteUp /\ UNCHANGED <<ssl, toSite>>

Goto(where) == pc' = where /\ input' = "none"
Leave       == Goto("gone")

\* a write that sends the thread on to `where`, or out of mainloop
ToClient(line, where) ==
    \E ok \in BOOLEAN :
       /\ WriteClient(line, ok)
       /\ IF ok THEN Goto(where) ELSE Leave

ToSite(cmd, where) ==
    \E ok \in BOOLEAN :
       /\ WriteSite(cmd, ok)
       /\ IF ok THEN Goto(where) ELSE Leave
       /\ UNCHANGED <<client, peer>>

-----------------------------------------------------------------------------
(* Up to the welcome message                                               *)

\* the entry list lets the client in or not
CheckEntry ==
    /\ pc = "entry"
    /\ IF On("using_entry") /\ ~On("client_is_entry") /\ ~On("allow_noentry_connect")
       THEN Leave ELSE Goto("ident")
    /\ UNCHANGED <<config, wires, ups, ssl, tries, flags, peer, client, history>>

AsksIdent == On("use_ident") /\ ~(On("using_entry") /\ On("client_is_entry"))

\* Ident answers, or its connection, write or read fails
AskIdent ==
    /\ pc = "ident"
    /\ \/ Goto("connect")
       \/ AsksIdent /\ On("enforce_ident") /\ Leave
    /\ UNCHANGED <<config, wires, ups, ssl, tries, flags, peer, client, history>>

\* GetSock fails, or the Bind after it
NoSocket == Leave /\ siteUp' = FALSE

\* Connect succeeds, and the welcome message of the site comes or does not
Connect == siteUp' = TRUE /\ fromSite' \in {<<>>, <<"220">>}

\* otherwise it is refused or gives up after connect_timeout
ConnectSite ==
    /\ pc = "connect"
    /\ \/ Connect /\ Goto("idnt") /\ UNCHANGED <<client, peer, ssl>>
       \/ NoSocket /\ UNCHANGED <<fromSite, client, peer, ssl>>
       \/ /\ IF On("show_connect_failmsg") THEN ToClient("no", "gone")
             ELSE Leave /\ UNCHANGED <<client, peer, ssl>>
          /\ UNCHANGED <<siteUp, fromSite>>
    /\ UNCHANGED <<config, toBnc, toSite, clientUp, tries, flags, history>>

\* the first IDNT is for a client that is no entry, the second for a bouncer
\* without entries: without entries both are sent
Idnts ==
    LET idnt == <<"IDNT">>
    IN  IF On("no_idnt_cmd") THEN <<>>
        ELSE (IF ~On("client_is_entry") /\ On("allow_noentry_connect") THEN idnt ELSE <<>>)
             \o (IF ~On("using_entry") THEN idnt ELSE <<>>)

\* the IDNT of an entry comes from the client
ReadsIdnt == ~On("no_idnt_cmd") /\ On("using_entry") /\ On("client_is_entry")

SendIdnt ==
    /\ pc = "idnt"
    /\ \/ /\ siteUp \/ Idnts = <<>>
          /\ toSite' = toSite \o Idnts
          /\ Goto(IF ReadsIdnt THEN "readidnt" ELSE "welcome")
       \/ ~siteUp /\ Idnts # <<>> /\ Leave /\ UNCHANGED toSite
    /\ UNCHANGED <<config, toBnc, fromSite, ups, ssl, tries, flags, peer, client, history>>

\* the IDNT of an entry is read and passed on; a line without an address, a
\* timeout or a closed connection ends the session
ReadIdnt ==
    /\ pc = "readidnt"
    /\ \/ /\ toBnc # <<>>
          /\ toBnc' = Tail(toBnc)
          /\ ToSite(Head(toBnc), IF Head(toBnc) = "IDNT" THEN "welcome" ELSE "gone")
       \/ toBnc = <<>> /\ Leave /\ UNCHANGED <<toBnc, toSite, ssl, client, peer>>
    /\ UNCHANGED <<config, fromSite, ups, tries, flags, history>>

\* the first reply of the site, or fake_serverstring, goes to the client
Welcome ==
    /\ pc = "welcome"
    /\ \/ /\ fromSite # <<>>
          /\ fromSite' = Tail(fromSite)
          /\ ToClient(IF On("fake_serverstring") THEN "220" ELSE Head(fromSite), "select")
       \/ fromSite = <<>> /\ Leave /\ UNCHANGED <<fromSite, ssl, client, peer>>
    /\ UNCHANGED <<config, toBnc, toSite, ups, tries, flags, history>>

-----------------------------------------------------------------------------
(* The select loop.  SSL_read finishes the handshake it finds unfinished   *)
(* and then waits for data on the blocking socket (pc "sslsite" and        *)
(* "sslclient"), unless what follows the handshake is a session ticket.    *)

SiteReadable   == fromSite # <<>> \/ ~siteUp \/ (ssl.site = "started" /\ peer.site.answered)
ClientReadable == toBnc # <<>> \/ ~clientUp \/ (ssl.client # "ready" /\ peer.client.answered)

ReadSite ==
    /\ \/ pc = "select" /\ SiteReadable
       \/ pc = "sslsite"
    /\ \/ /\ fromSite # <<>>
          /\ input' = Head(fromSite) /\ pc' = "reply"
          /\ fromSite' = Tail(fromSite)
          /\ Finished("site")
       \/ /\ fromSite = <<>> /\ ~siteUp /\ Leave
          /\ UNCHANGED <<fromSite, ssl>>
       \/ /\ fromSite = <<>> /\ siteUp /\ pc = "select"
          /\ Finished("site")
          /\ Goto("sslsite") \/ Goto("select")
          /\ UNCHANGED fromSite
    /\ UNCHANGED <<config, toBnc, toSite, ups, tries, flags, peer, client, history>>

\* a handshake the loop does not expect is no line: control_read gives up
ReadClient ==
    /\ \/ pc = "select" /\ ~SiteReadable /\ ClientReadable
       \/ pc = "sslclient"
    /\ \/ /\ ssl.client = "null" /\ peer.client.answered /\ Leave
          /\ UNCHANGED <<toBnc, ssl, lateauth>>
       \/ /\ toBnc # <<>> /\ ~(ssl.client = "null" /\ peer.client.answered)
          /\ input' = Head(toBnc) /\ pc' = "command"
          /\ toBnc' = Tail(toBnc)
          /\ lateauth' = (lateauth \/ (Head(toBnc) \in AuthCommands /\ (gotusercmd \/ relinked)))
          /\ Finished("client")
       \/ /\ toBnc = <<>> /\ ~clientUp /\ Leave
          /\ UNCHANGED <<toBnc, ssl, lateauth>>
       \/ /\ toBnc = <<>> /\ clientUp /\ pc = "select" /\ ssl.client = "started"
          /\ Finished("client")
          /\ Goto("sslclient") \/ Goto("select")
          /\ UNCHANGED <<toBnc, lateauth>>
    /\ UNCHANGED <<config, toSite, fromSite, ups, tries, flags, peer, client,
                   ahead, refused, lost>>

-----------------------------------------------------------------------------
(* A reply of the site before the login is over                            *)

\* Mutant: the relink answers the client without logging in anywhere
StartRelinkMutant(state) == Goto(IF state = 1 THEN "ask331" ELSE "tell230")

\* tryrelink(state): 1 after a refused USER, 0 after a refused PASS
StartRelink(state) == Goto(IF state = 1 THEN "relink1" ELSE "relink0")

\* after the first command: a reply that accepts AUTH starts TLS on both sides
FirstReply ==
    /\ pc = "reply" /\ gotfirstcmd /\ ~gotusercmd
    /\ LET line == IF input = "234 TLS" /\ gotauthsslmsg /\ On("translate_nosslfxp")
                   THEN "234 SSL" ELSE input
       IN  ToClient(line, IF input \in AuthDone THEN "sslconnect" ELSE "select")
    /\ sslprotp' = (sslprotp \/ input = "234 SSL")
    /\ UNCHANGED <<config, wires, ups, tries, got, gotauthsslmsg, transfertype, sscn,
                   relinked, usingssl, history>>

\* after USER: enforce_tls is looked at first, then user_access_denied
UserReply ==
    /\ pc = "reply" /\ gotusercmd /\ ~gotpasscmd
    /\ LET noTls  == On("enforce_tls") /\ ~usingssl
           relink == On("trytorelink") /\ (input = "denied" \/ (noTls /\ On("relink_notls")))
           refuse == noTls /\ ~On("use_ssl_exclude") /\ ~(On("relink_notls") /\ On("trytorelink"))
       IN  IF refuse THEN ToClient("427", "gone")
           ELSE IF relink THEN StartRelink(1) /\ UNCHANGED <<ssl, client, peer>>
           ELSE ToClient(input, IF input = "denied" THEN "gone" ELSE "select")
    /\ UNCHANGED <<config, wires, ups, tries, flags, history>>

\* after PASS: logged in, no more room, or refused, the latter for any other
\* last line
PassReply ==
    /\ pc = "reply" /\ gotusercmd /\ gotpasscmd /\ ~gotwelcomemsg
    /\ gotwelcomemsg' = Endline(input)
    /\ CASE ~Endline(input)  -> ToClient(input, "select")
         [] input = "230"    -> ToClient(input, IF On("enforce_tls") /\ ~usingssl
                                                   /\ On("use_ssl_exclude") /\ ~On("sslexcluded")
                                                THEN "needtls" ELSE "select")
         [] input = "full"   -> ToClient(input, "gone")
         [] OTHER            -> IF On("trytorelink")
                                THEN StartRelink(0) /\ UNCHANGED <<ssl, client, peer>>
                                ELSE ToClient(input, "select")
    /\ UNCHANGED <<config, wires, ups, tries, gotfirstcmd, gotusercmd, gotpasscmd, opts,
                   relinked, usingssl, history>>

\* the user has to come by TLS
RefuseWithoutTls ==
    /\ pc = "needtls"
    /\ ToClient("427", "gone")
    /\ UNCHANGED <<config, wires, ups, tries, flags, history>>

\* the replies before the first command and after the login
OtherReply ==
    /\ pc = "reply"
    /\ \/ ~gotfirstcmd /\ ~gotusercmd
       \/ gotusercmd /\ gotpasscmd /\ gotwelcomemsg
    /\ ToClient(input, "select")
    /\ UNCHANGED <<config, wires, ups, tries, flags, history>>

-----------------------------------------------------------------------------
(* trytls: SslConnect to the site, then SslAccept from the client.  Each   *)
(* tries Spins times; as the socket is writable, the select between two    *)
(* tries does not wait.  After the last try both report success.           *)

LastTry == tries + 1 = Spins

SslConnect ==
    /\ pc = "sslconnect"
    /\ \/ /\ ssl.site = "started" /\ peer.site.answered
          /\ ssl' = [ssl EXCEPT !.site = "ready"]
          /\ Goto("sslaccept") /\ tries' = 0
       \/ /\ siteUp /\ ~(ssl.site = "started" /\ peer.site.answered)
          /\ ssl' = [ssl EXCEPT !.site = "started"]
          /\ IF LastTry
             THEN Goto("sslaccept") /\ tries' = 0
             ELSE tries' = tries + 1 /\ UNCHANGED <<pc, input>>
       \/ Leave /\ UNCHANGED <<ssl, tries>>
    /\ UNCHANGED <<config, wires, ups, flags, peer, client, history>>

\* what the client sent before the reply to AUTH arrived is no handshake
SslAccept ==
    /\ pc = "sslaccept"
    /\ \/ /\ peer.client.answered
          /\ ssl' = [ssl EXCEPT !.client = "ready"]
          /\ Goto("select") /\ tries' = 0 /\ usingssl' = TRUE
       \/ /\ clientUp /\ ~peer.client.answered /\ toBnc = <<>>
          /\ ssl' = [ssl EXCEPT !.client = "started"]
          /\ IF LastTry
             THEN Goto("select") /\ tries' = 0 /\ usingssl' = TRUE
             ELSE tries' = tries + 1 /\ UNCHANGED <<pc, input, usingssl>>
       \/ Leave /\ UNCHANGED <<ssl, tries, usingssl>>
    /\ UNCHANGED <<config, wires, ups, got, opts, relinked, peer, client, history>>

-----------------------------------------------------------------------------
(* tryrelink                                                               *)

\* what Login leaves behind: the SSL object, whether it is connected, what
\* the site takes the connection for
LoggedIn == [ok |-> TRUE, up |-> TRUE, secure |-> On("ssl_relink")]
LoginFails == [ok : {FALSE}, up : BOOLEAN, secure : {FALSE, On("ssl_relink")}]

\* Mutant: sitessl of the first site is kept
RelinkSslMutant(login) == [ssl EXCEPT !.site = IF login.secure THEN "ready" ELSE @]

RelinkSsl(login) == [ssl EXCEPT !.site = IF login.secure THEN "ready" ELSE "null"]

\* where tryrelink goes on after Login
AfterLogin(from) == IF from \in {"relink1", "failed1"} THEN "ask331" ELSE "tell230"

\* Close(site_sock): what is on its way is lost
CloseSite == toSite' = <<>> /\ fromSite' = <<>>

RelinkSite ==
    /\ pc \in {"relink0", "relink1"}
    /\ CloseSite
    /\ \/ /\ NoSocket
          /\ ssl' = [ssl EXCEPT !.site = "null"]
          /\ UNCHANGED <<peer, lost>>
       \/ \E login \in {LoggedIn} \cup LoginFails :
             /\ siteUp' = login.up
             /\ ssl' = RelinkSsl(login)
             /\ peer' = [peer EXCEPT !.site = [tls |-> login.secure, answered |-> login.secure,
                                               user |-> login.ok, in |-> login.ok]]
             /\ lost' = ~login.ok
             /\ IF ~login.ok /\ On("show_connect_failmsg")
                THEN Goto(IF pc = "relink1" THEN "failed1" ELSE "failed0")
                ELSE Goto(AfterLogin(pc))
    /\ UNCHANGED <<config, toBnc, clientUp, tries, flags, client,
                   ahead, lateauth, refused>>

\* the result of this write is not looked at
TellFailure ==
    /\ pc \in {"failed0", "failed1"}
    /\ \E ok \in BOOLEAN : WriteClient("427", ok)
    /\ Goto(AfterLogin(pc))
    /\ UNCHANGED <<config, wires, ups, tries, flags, history>>

\* Mutant: the PASS of the client is not waited for
AskPassMutant ==
    /\ pc = "ask331"
    /\ ToClient("331", "tell230")
    /\ UNCHANGED <<config, wires, ups, tries, flags, history>>

AskPass ==
    /\ pc = "ask331"
    /\ ToClient("331", "askpass")
    /\ UNCHANGED <<config, wires, ups, tries, flags, history>>

\* the loop that waits for PASS and refuses everything else
WaitPass ==
    /\ pc = "askpass"
    /\ \/ /\ toBnc # <<>> /\ Head(toBnc) = "PASS"
          /\ toBnc' = Tail(toBnc)
          /\ Goto("tell230") /\ UNCHANGED <<ssl, client, peer>>
       \/ /\ toBnc # <<>> /\ Head(toBnc) # "PASS"
          /\ toBnc' = Tail(toBnc)
          /\ ToClient("500", "askpass")
       \/ /\ toBnc = <<>> /\ ~clientUp /\ Leave
          /\ UNCHANGED <<toBnc, ssl, client, peer>>
    /\ UNCHANGED <<config, toSite, fromSite, ups, tries, flags, history>>

\* the client is told that it is logged in whatever Login returned
TellLoggedIn ==
    /\ pc = "tell230"
    /\ ToClient("230", "select")
    /\ IF pc' = "select"
       THEN relinked' = TRUE /\ gotusercmd' = TRUE /\ gotpasscmd' = TRUE /\ gotwelcomemsg' = TRUE
       ELSE UNCHANGED <<relinked, gotusercmd, gotpasscmd, gotwelcomemsg>>
    /\ UNCHANGED <<config, wires, ups, tries, gotfirstcmd, opts, usingssl, history>>

-----------------------------------------------------------------------------
(* A command of the client, in the order mainloop compares them            *)

\* Mutant: IDNT is dropped
RefuseIdntMutant ==
    /\ pc = "command" /\ input = "IDNT"
    /\ Goto("select")
    /\ UNCHANGED <<config, wires, ups, ssl, tries, flags, peer, client, history>>

RefuseIdnt ==
    /\ pc = "command" /\ input = "IDNT"
    /\ ToClient("500", "select")
    /\ UNCHANGED <<config, wires, ups, tries, flags, history>>

\* AUTH SSL may be sent as AUTH TLS
Auth ==
    /\ pc = "command" /\ input \in AuthCommands
    /\ LET translated == input = "AUTH SSL" /\ On("translate_nosslfxp")
       IN  /\ ToSite(IF translated THEN "AUTH TLS" ELSE input, "select")
           /\ gotauthsslmsg' = (gotauthsslmsg \/ translated)
    /\ gotfirstcmd' = (gotfirstcmd \/ pc' = "select")
    /\ UNCHANGED <<config, toBnc, fromSite, ups, tries, gotusercmd, gotpasscmd, gotwelcomemsg,
                   sslprotp, transfertype, sscn, relinked, usingssl, history>>

\* Mutant: PROT C is passed on and forgotten
AfterProtMutant(cmd) == IF cmd = "PROT P" THEN sslprotp \/ usingssl ELSE sslprotp

AfterProt(cmd) == cmd = "PROT P" /\ (sslprotp \/ usingssl)

Prot ==
    /\ pc = "command" /\ input \in {"PROT P", "PROT C"}
    /\ sslprotp' = AfterProt(input)
    /\ IF relinked \/ (input = "PROT P" /\ On("translate_nosslfxp"))
       THEN ToClient("200", "select") /\ UNCHANGED toSite
       ELSE ToSite(input, "select")
    /\ UNCHANGED <<config, toBnc, fromSite, ups, tries, got, gotauthsslmsg, transfertype, sscn,
                   relinked, usingssl, history>>

Type ==
    /\ pc = "command" /\ input \in {"TYPE A", "TYPE I"}
    /\ transfertype' = IF input = "TYPE A" THEN 1 ELSE 2
    /\ ToSite(input, "select")
    /\ UNCHANGED <<config, toBnc, fromSite, ups, tries, got, gotauthsslmsg, sslprotp, sscn,
                   relinked, usingssl, history>>

Elsewhere == AuthCommands \cup {"IDNT", "PROT P", "PROT C", "TYPE A", "TYPE I"}

\* before USER everything else goes to the site; USER without a name is the
\* end
BeforeUser ==
    /\ pc = "command" /\ input \notin Elsewhere /\ ~gotusercmd
    /\ ToSite(input, IF input = "empty USER" THEN "gone" ELSE "select")
    /\ LET user == input \in {"USER", "empty USER"}
       IN  /\ gotusercmd' = user
           /\ gotfirstcmd' = (gotfirstcmd \/ user)
    /\ UNCHANGED <<config, toBnc, fromSite, ups, tries, gotpasscmd, gotwelcomemsg, opts,
                   relinked, usingssl, history>>

\* and before PASS
BeforePass ==
    /\ pc = "command" /\ input \notin Elsewhere /\ gotusercmd /\ ~gotpasscmd
    /\ ToSite(input, "select")
    /\ gotpasscmd' = (input = "PASS")
    /\ UNCHANGED <<config, toBnc, fromSite, ups, tries, gotfirstcmd, gotusercmd, gotwelcomemsg,
                   opts, relinked, usingssl, history>>

\* the traffic of the session is told before QUIT goes to the site
Quit ==
    /\ \/ /\ pc = "command" /\ input = "QUIT" /\ gotusercmd /\ gotpasscmd
          /\ IF On("send_traffic_info") /\ ~relinked
             THEN ToClient("221-", "quit") /\ UNCHANGED toSite
             ELSE ToSite("QUIT", "select")
       \/ /\ pc = "quit"
          /\ ToSite("QUIT", "select")
    /\ UNCHANGED <<config, toBnc, fromSite, ups, tries, flags, history>>

\* the bouncer's own role in fxp with TLS; with own_sscn it answers itself
Sscn ==
    /\ pc = "command" /\ input \in {"SSCN ON", "SSCN OFF"} /\ gotusercmd /\ gotpasscmd
    /\ sscn' = (input = "SSCN ON")
    /\ IF On("own_sscn") THEN ToClient("200", "select") /\ UNCHANGED toSite
                         ELSE ToSite(input, "select")
    /\ UNCHANGED <<config, toBnc, fromSite, ups, tries, got, gotauthsslmsg, sslprotp, transfertype,
                   relinked, usingssl, history>>

OtherCommand ==
    /\ pc = "command" /\ input \notin Elsewhere \cup {"QUIT", "SSCN ON", "SSCN OFF"}
    /\ gotusercmd /\ gotpasscmd
    /\ ToSite(input, "select")
    /\ UNCHANGED <<config, toBnc, fromSite, ups, tries, flags, history>>

-----------------------------------------------------------------------------
(* The peers                                                               *)

\* the client waits for a handshake it began before it sends anything else
ClientSends ==
    /\ clientUp /\ pc # "gone" /\ sent < MaxCmds /\ due < MaxDue
    /\ peer.client.tls => peer.client.answered
    /\ \E c \in Commands :
          /\ toBnc' = Append(toBnc, c)
          /\ asked' = c
    /\ sent' = sent + 1 /\ due' = due + 1
    /\ ahead' = (ahead \/ due > 0)
    /\ UNCHANGED <<config, pc, input, toSite, fromSite, ups, ssl, tries, flags, peer, told,
                   believes, lateauth, refused, lost>>

\* what is in front of the handshake is read first
ClientAnswers ==
    /\ clientUp /\ peer.client.tls /\ ~peer.client.answered /\ toBnc = <<>>
    /\ peer' = [peer EXCEPT !.client.answered = TRUE]
    /\ UNCHANGED <<config, pc, input, wires, ups, ssl, tries, flags, client, history>>

SiteAnswers ==
    /\ siteUp /\ ssl.site = "started" /\ ~peer.site.answered /\ toSite = <<>>
    /\ peer' = [peer EXCEPT !.site.answered = TRUE]
    /\ UNCHANGED <<config, pc, input, wires, ups, ssl, tries, flags, client, history>>

No == {<<"no">>}

\* what a site may say to a command
Answers(cmd) ==
    CASE cmd = "IDNT" -> {<<>>}
      [] cmd = "AUTH TLS" -> IF peer.site.tls THEN No ELSE {<<"234 TLS">>} \cup No
      [] cmd = "AUTH SSL" -> IF peer.site.tls THEN No ELSE {<<"234 SSL">>} \cup No
      [] cmd = "USER" -> IF peer.site.in THEN No ELSE {<<"331">>, <<"denied">>}
      [] cmd = "PASS" -> IF peer.site.user /\ ~peer.site.in
                         THEN {<<"230">>, <<"230-", "230">>, <<"530">>, <<"full">>} ELSE No
      [] cmd \in {"PROT P", "PROT C"} -> IF peer.site.tls THEN {<<"200">>} \cup No ELSE No
      [] cmd \in {"SSCN ON", "SSCN OFF"} -> IF peer.site.in THEN {<<"200">>} \cup No ELSE No
      [] cmd = "empty USER" -> No
      [] cmd = "QUIT" -> {<<"221">>}
      [] OTHER -> {<<"200">>} \cup No

\* a site that waits for a handshake closes when it gets a command instead
SiteHandles ==
    /\ siteUp /\ toSite # <<>>
    /\ \/ /\ peer.site.tls /\ ~peer.site.answered
          /\ siteUp' = FALSE /\ toSite' = <<>>
          /\ UNCHANGED <<fromSite, peer, refused>>
       \/ /\ peer.site.tls => peer.site.answered
          /\ toSite' = Tail(toSite)
          /\ \E lines \in Answers(Head(toSite)) :
                LET said(line) == \E i \in DOMAIN lines : lines[i] = line
                IN  /\ fromSite' = fromSite \o lines
                    /\ peer' = [peer EXCEPT !.site.tls  = @ \/ said("234 TLS") \/ said("234 SSL"),
                                          !.site.user = (@ \/ said("331")) /\ ~said("denied"),
                                          !.site.in   = @ \/ said("230")]
                    /\ refused' = refused \cup
                         (IF \E line \in {"no", "530", "denied"} : said(line)
                          THEN {IF Head(toSite) \in {"USER", "PASS"} THEN "login" ELSE "option"}
                          ELSE {})
          /\ UNCHANGED siteUp
    /\ UNCHANGED <<config, pc, input, toBnc, clientUp, ssl, tries, flags, client,
                   ahead, lateauth, lost>>

ClientCloses ==
    /\ clientUp /\ pc # "gone" /\ clientUp' = FALSE
    /\ UNCHANGED <<config, pc, input, wires, siteUp, ssl, tries, flags, peer, client, history>>

SiteCloses ==
    /\ siteUp /\ pc # "gone" /\ siteUp' = FALSE
    /\ UNCHANGED <<config, pc, input, wires, clientUp, ssl, tries, flags, peer, client, history>>

-----------------------------------------------------------------------------
Init ==
    /\ config \in Configs
    /\ pc = "entry" /\ input = "none"
    /\ toBnc \in (IF "client_is_entry" \in config THEN {<<>>, <<"IDNT">>} ELSE {<<>>})
    /\ toSite = <<>> /\ fromSite = <<>>
    /\ clientUp = TRUE /\ siteUp = FALSE
    /\ ssl = [client |-> "null", site |-> "null"] /\ tries = 0
    /\ gotfirstcmd = FALSE /\ gotusercmd = FALSE /\ gotpasscmd = FALSE /\ gotwelcomemsg = FALSE
    /\ relinked = FALSE /\ usingssl = FALSE /\ gotauthsslmsg = FALSE
    /\ sslprotp = FALSE /\ transfertype = 1 /\ sscn = FALSE
    /\ peer = [client |-> [tls |-> FALSE, answered |-> FALSE], site |-> NewSite]
    /\ sent = 0 /\ due = 1 /\ asked = "none" /\ told = "none"
    /\ believes = [private |-> FALSE, ascii |-> TRUE, sscn |-> FALSE]
    /\ ahead = FALSE /\ lateauth = FALSE /\ refused = {} /\ lost = FALSE

Start    == CheckEntry \/ AskIdent \/ ConnectSite \/ SendIdnt \/ ReadIdnt \/ Welcome
Loop     == ReadSite \/ ReadClient
Reply    == FirstReply \/ UserReply \/ PassReply \/ RefuseWithoutTls \/ OtherReply
Trytls   == SslConnect \/ SslAccept
Tryrelink == RelinkSite \/ TellFailure \/ AskPass \/ WaitPass \/ TellLoggedIn
Command  == RefuseIdnt \/ Auth \/ Prot \/ Type \/ BeforeUser \/ BeforePass
              \/ Quit \/ Sscn \/ OtherCommand
Control  == Start \/ Loop \/ Reply \/ Trytls \/ Tryrelink \/ Command
Handshakes == ClientAnswers \/ SiteAnswers
Peers    == ClientSends \/ Handshakes \/ SiteHandles \/ ClientCloses \/ SiteCloses

Next == Control \/ Peers
Spec == Init /\ [][Next]_vars

(* The thread runs when it can.  The peers answer what they are sent.      *)
FairSpec == Spec /\ WF_vars(Control) /\ WF_vars(ClientAnswers) /\ WF_vars(SiteAnswers)
                 /\ WF_vars(SiteHandles)

-----------------------------------------------------------------------------
(* Properties                                                              *)

Places == {"entry", "ident", "connect", "idnt", "readidnt", "welcome", "select", "sslsite",
           "sslclient", "reply", "command", "needtls", "sslconnect", "sslaccept", "relink0",
           "relink1", "failed0", "failed1", "ask331", "askpass", "tell230", "quit", "gone"}

\* The members and the connections have the values the code gives them.
TypeOK ==
    /\ config \in Configs
    /\ pc \in Places
    /\ input \in Replies \cup AllCommands \cup {"none"}
    /\ toBnc \in Seq(AllCommands) /\ toSite \in Seq(AllCommands) /\ fromSite \in Seq(Replies)
    /\ {clientUp, siteUp, gotfirstcmd, gotusercmd, gotpasscmd, gotwelcomemsg, relinked, usingssl,
        gotauthsslmsg, sslprotp, sscn, ahead, lateauth, lost} \subseteq BOOLEAN
    /\ transfertype \in {1, 2}
    /\ ssl \in [{"client", "site"} -> SslState]
    /\ tries \in 0 .. Spins - 1
    /\ peer \in [client : Client, site : Site]
    /\ sent \in 0 .. MaxCmds /\ due \in Int
    /\ asked \in AllCommands \cup {"none"} /\ told \in LoginReplies \cup {"none"}
    /\ believes \in Beliefs /\ refused \subseteq {"login", "option"}

Accepted == \E i \in DOMAIN fromSite : fromSite[i] \in AuthDone

\* Whenever the loop waits for the peers, it and they agree on which of the
\* two connections is a TLS connection, unless the client sent AUTH after USER
\* or a relink, when nobody starts TLS, or did not wait for the reply to AUTH.
\* All variables keep their types.
TlsAgreed ==
    /\ TypeOK
    /\ pc = "select" /\ ~lateauth /\ ~ahead /\ ~Accepted =>
        /\ peer.client.tls <=> ssl.client # "null"
        /\ siteUp => (peer.site.tls <=> ssl.site # "null")
        /\ usingssl <=> ssl.client # "null"

\* A client that waits for its replies is relinked only when the site refused
\* its user or password, or relink_notls says so: a part of a long welcome
\* message is no refusal.
RelinkOnlyWhenRefused ==
    relinked /\ ~ahead =>
        \/ "login" \in refused
        \/ {"enforce_tls", "relink_notls"} \subseteq config /\ ~usingssl

\* A client that was told 230 is logged in at the site it is now connected to,
\* even if it did not wait for its replies, unless the login at the relink site
\* failed: tryrelink tells the client 230 even then.
LoggedInHasSite ==
    told = "230" /\ pc = "select" /\ siteUp => peer.site.in \/ lost

\* No command is answered twice while the session lasts, not by the bouncer and
\* the site and not by two handlers, except that a failed login at the relink
\* site is told with 427 before the 331 or 230 that goes out all the same.
AnsweredOnce == due >= 0 \/ pc = "gone" \/ lost

\* Between two commands of a client that waits, what it takes for agreed is
\* what the data threads will be started with, as long as the site refused
\* nothing and no reply came too much: the members are set when the command is read.  The protection of
\* the data connections matters with TLS only.  translate_nosslfxp promises it
\* without setting it: it answers PROT P before TLS, and AUTH SSL is sent as
\* AUTH TLS.  A late AUTH SSL changes nothing either.
OptionsAgreed ==
    pc = "select" /\ due = 0 /\ ~ahead /\ ~lost /\ "option" \notin refused =>
        /\ (transfertype = 1) <=> believes.ascii
        /\ sscn <=> believes.sscn
        /\ usingssl /\ ~lateauth /\ ~On("translate_nosslfxp") => (sslprotp <=> believes.private)

\* A client that waits is answered in the end, or the session ends, or the
\* thread is in SSL_read of the site's connection, where nothing but the site
\* can wake it.
AnsweredUnlessBlocked == due > 0 ~> (due = 0 \/ pc = "gone" \/ pc = "sslsite" \/ ahead)
=============================================================================
