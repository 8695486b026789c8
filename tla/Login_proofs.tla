----------------------------- MODULE Login_proofs -----------------------------
(***************************************************************************)
(* A session up to its login, for any set of configurations, any number of *)
(* commands, and clients that wait for their replies or do not.            *)
(***************************************************************************)
EXTENDS Login, FiniteSets, TLAPS, FiniteSetTheorems, SequenceTheorems

-----------------------------------------------------------------------------
(* What has arrived and is not yet read, without what nobody is answered to *)

Owed(s, silent) == Cardinality({i \in DOMAIN s : s[i] \notin silent})

LEMMA OwedSet ==
    ASSUME NEW S, NEW s \in Seq(S), NEW silent
    PROVE  /\ IsFiniteSet({i \in DOMAIN s : s[i] \notin silent})
           /\ {i \in DOMAIN s : s[i] \notin silent} \subseteq 1 .. Len(s)
           /\ Owed(s, silent) \in Nat
  <1> DEFINE D == {i \in DOMAIN s : s[i] \notin silent}
  <1>1. D \subseteq 1 .. Len(s)
    OBVIOUS
  <1>2. IsFiniteSet(1 .. Len(s))
    BY FS_Interval
  <1>3. IsFiniteSet(D)
    BY <1>1, <1>2, FS_Subset
  <1>4. Cardinality(D) \in Nat
    BY <1>3, FS_CardinalityType
  <1> QED
    BY <1>1, <1>3, <1>4 DEF Owed

LEMMA OwedNothing ==
    ASSUME NEW silent PROVE Owed(<<>>, silent) = 0
  <1>1. {i \in DOMAIN <<>> : <<>>[i] \notin silent} = {}
    OBVIOUS
  <1> QED
    BY <1>1, FS_EmptySet DEF Owed

\* Nothing is owed for what is silent.
LEMMA OwedZero ==
    ASSUME NEW S, NEW s \in Seq(S), NEW silent
    PROVE  Owed(s, silent) = 0 <=> \A i \in DOMAIN s : s[i] \in silent
  <1> DEFINE D == {i \in DOMAIN s : s[i] \notin silent}
  <1>1. IsFiniteSet(D)
    BY OwedSet
  <1>2. Cardinality(D) = 0 <=> D = {}
    BY <1>1, FS_EmptySet
  <1> QED
    BY <1>2 DEF Owed

LEMMA OwedAppend ==
    ASSUME NEW S, NEW s \in Seq(S), NEW x \in S, NEW silent
    PROVE  Owed(Append(s, x), silent)
             = Owed(s, silent) + (IF x \in silent THEN 0 ELSE 1)
  <1> DEFINE D == {i \in DOMAIN s : s[i] \notin silent}
             n == Len(s) + 1
             E == {i \in DOMAIN Append(s, x) : Append(s, x)[i] \notin silent}
  <1>1. /\ IsFiniteSet(D) /\ n \notin D /\ Cardinality(D) \in Nat
    <2>1. IsFiniteSet(D) /\ D \subseteq 1 .. Len(s)
      BY OwedSet, Zenon
    <2>2. n \notin 1 .. Len(s)
      OBVIOUS
    <2> QED
      BY <2>1, <2>2, FS_CardinalityType
  <1>0. Owed(s, silent) = Cardinality(D) /\ Owed(Append(s, x), silent) = Cardinality(E)
    BY DEF Owed
  <1>2. CASE x \in silent
    <2>1. E = D
      BY <1>2
    <2> HIDE DEF D, E
    <2> QED
      BY <1>0, <1>1, <1>2, <2>1
  <1>3. CASE x \notin silent
    <2>1. E = D \cup {n}
      BY <1>3
    <2>2. Cardinality(D \cup {n}) = Cardinality(D) + 1
      BY <1>1, FS_AddElement
    <2> HIDE DEF D, E
    <2> QED
      BY <1>0, <1>1, <1>3, <2>1, <2>2
  <1> QED
    BY <1>2, <1>3

LEMMA OwedTail ==
    ASSUME NEW S, NEW s \in Seq(S), s # <<>>, NEW silent
    PROVE  Owed(s, silent) = Owed(Tail(s), silent) + (IF Head(s) \in silent THEN 0 ELSE 1)
  <1> DEFINE D == {i \in DOMAIN s : s[i] \notin silent}
             E == {i \in DOMAIN Tail(s) : Tail(s)[i] \notin silent}
             F == {i \in D : i # 1}
             f == [i \in E |-> i + 1]
  <1>1. IsFiniteSet(E) /\ IsFiniteSet(D)
    <2>1. Tail(s) \in Seq(S)
      OBVIOUS
    <2> QED
      BY <2>1, OwedSet, Zenon
  <1>2. /\ \A i \in E : i \in Nat /\ i + 1 \in F
        /\ \A j \in F : j - 1 \in E /\ (j - 1) + 1 = j
    OBVIOUS
  <1>0. Owed(s, silent) = Cardinality(D) /\ Owed(Tail(s), silent) = Cardinality(E)
    BY DEF Owed
  <1>5. /\ 1 \in DOMAIN s /\ s[1] = Head(s)
        /\ 1 \in D <=> Head(s) \notin silent
    OBVIOUS
  <1> HIDE DEF D, E
  <1>3. f \in Bijection(E, F)
    <2>1. f \in [E -> F]
      BY <1>2
    <2>2. \A i, j \in E : f[i] = f[j] => i = j
      BY <1>2
    <2>3. \A j \in F : \E i \in E : f[i] = j
      <3> SUFFICES ASSUME NEW j \in F PROVE f[j - 1] = j /\ j - 1 \in E
        OBVIOUS
      <3> QED
        BY <1>2
    <2> HIDE DEF f, F
    <2>4. f \in Injection(E, F)
      BY <2>1, <2>2 DEF Injection, IsInjective
    <2>5. f \in Surjection(E, F)
      BY <2>1, <2>3 DEF Surjection
    <2> QED
      BY <2>4, <2>5 DEF Bijection
  <1>4. IsFiniteSet(F) /\ Cardinality(F) = Cardinality(E) /\ Cardinality(E) \in Nat
    <2>1. ExistsBijection(E, F)
      BY <1>3 DEF ExistsBijection
    <2>2. IsFiniteSet(F) /\ Cardinality(F) = Cardinality(E)
      BY <1>1, <2>1, FS_Bijection
    <2> QED
      BY <1>1, <2>2, FS_CardinalityType
  <1>6. CASE Head(s) \in silent
    <2>1. D = F
      BY <1>5, <1>6
    <2> HIDE DEF F
    <2> QED
      BY <1>0, <1>4, <1>6, <2>1
  <1>7. CASE Head(s) \notin silent
    <2>1. D = F \cup {1} /\ 1 \notin F
      BY <1>5, <1>7
    <2>2. Cardinality(F \cup {1}) = Cardinality(F) + 1
      BY <1>4, <2>1, FS_AddElement
    <2> HIDE DEF F
    <2> QED
      BY <1>0, <1>4, <1>7, <2>1, <2>2
  <1> QED
    BY <1>6, <1>7

-----------------------------------------------------------------------------
(* Types *)

LEMMA OneReply ==
    ASSUME NEW line \in Replies PROVE <<line>> \in Seq(Replies)
  OBVIOUS

LEMMA ReplyFacts == <<>> \in Seq(Replies) /\ <<>> \in Seq(AllCommands)
  OBVIOUS

\* What is sent by itself is IDNT.
LEMMA IdntFacts ==
    Idnts \in Seq(AllCommands) /\ \A i \in DOMAIN Idnts : Idnts[i] = "IDNT"
  <1> DEFINE S == {"IDNT"}
             a == IF ~On("client_is_entry") /\ On("allow_noentry_connect")
                  THEN <<"IDNT">> ELSE <<>>
             b == IF ~On("using_entry") THEN <<"IDNT">> ELSE <<>>
  <1>0. "IDNT" \in S /\ \A x \in S : x = "IDNT"
    OBVIOUS
  <1> HIDE DEF S
  <1>1. a \in Seq(S) /\ b \in Seq(S) /\ <<>> \in Seq(S)
    <2>1. <<"IDNT">> \in Seq(S) /\ <<>> \in Seq(S)
      BY <1>0
    <2> QED
      BY <2>1
  <1>2. Idnts = <<>> \/ Idnts = a \o b
    BY DEF Idnts
  <1> HIDE DEF a, b
  <1>3. Idnts \in Seq(S)
    <2>1. a \o b \in Seq(S)
      BY <1>1, ConcatProperties
    <2> QED
      BY <1>1, <1>2, <2>1
  <1>4. "IDNT" \in AllCommands
    BY DEF AllCommands
  <1> QED
    BY <1>0, <1>3, <1>4

LEMMA FinishedType ==
    ASSUME TypeOK, NEW p \in {"client", "site"}, Finished(p)
    PROVE  /\ ssl' \in [{"client", "site"} -> SslState]
           /\ (ssl'.client = "null" <=> ssl.client = "null")
           /\ (ssl'.site = "null" <=> ssl.site = "null")
  BY DEF TypeOK, Finished, SslState

LEMMA BelievingType ==
    ASSUME believes \in Beliefs, NEW line PROVE Believing(line) \in Beliefs
  <1>1. /\ \A b \in BOOLEAN : [believes EXCEPT !.private = b] \in Beliefs
        /\ \A b \in BOOLEAN : [believes EXCEPT !.ascii = b] \in Beliefs
        /\ \A b \in BOOLEAN : [believes EXCEPT !.sscn = b] \in Beliefs
    BY DEF Beliefs
  <1> QED
    BY <1>1 DEF Believing

LEMMA HearsType ==
    ASSUME TypeOK, NEW line, ClientHears(line)
    PROVE  /\ due' \in Int /\ due' = IF Endline(line) THEN due - 1 ELSE due
           /\ told' \in LoginReplies \cup {"none"} /\ (told' # told => told' = line)
           /\ believes' \in Beliefs /\ believes' = Believing(line)
           /\ peer' \in [client : Client, site : Site] /\ peer'.site = peer.site
           /\ peer'.client.tls = (peer.client.tls \/ line \in AuthDone)
           /\ peer'.client.answered = peer.client.answered
           /\ sent' = sent /\ asked' = asked
  <1>1. /\ due' = IF Endline(line) THEN due - 1 ELSE due
        /\ told' = IF line \in LoginReplies THEN line ELSE told
        /\ believes' = Believing(line)
        /\ peer' = [peer EXCEPT !.client.tls = @ \/ line \in AuthDone]
        /\ sent' = sent /\ asked' = asked
    BY DEF ClientHears
  <1>2. due \in Int /\ told \in LoginReplies \cup {"none"} /\ believes \in Beliefs
    BY DEF TypeOK
  <1>3. peer \in [client : Client, site : Site]
    BY DEF TypeOK
  <1>4. /\ peer' \in [client : Client, site : Site] /\ peer'.site = peer.site
        /\ peer'.client.tls = (peer.client.tls \/ line \in AuthDone)
        /\ peer'.client.answered = peer.client.answered
    BY <1>1, <1>3 DEF Client
  <1> QED
    BY <1>1, <1>2, <1>4, BelievingType

\* The variables of the thread and of the client after a write to the client.
ClientType ==
    /\ pc' \in Places /\ input' = "none"
    /\ ssl' \in [{"client", "site"} -> SslState]
    /\ due' \in Int /\ told' \in LoginReplies \cup {"none"} /\ believes' \in Beliefs
    /\ peer' \in [client : Client, site : Site]
    /\ sent' = sent /\ asked' = asked

\* What a write to the client changes, where the thread goes on if it succeeds.
LEMMA ToClientStep ==
    ASSUME TypeOK, NEW line, NEW where \in Places, ToClient(line, where)
    PROVE  /\ ClientType /\ pc' \in {where, "gone"}
           /\ (ssl'.client = "null" <=> ssl.client = "null")
           /\ (ssl'.site = "null" <=> ssl.site = "null")
           /\ peer'.site = peer.site
           /\ peer'.client.tls => peer.client.tls \/ line \in AuthDone
           /\ told' # told => told' = line
           /\ pc' # "gone" =>
                /\ pc' = where
                /\ due' = IF Endline(line) THEN due - 1 ELSE due
                /\ believes' = Believing(line)
                /\ peer'.client.tls = (peer.client.tls \/ line \in AuthDone)
  <1>1. PICK ok \in BOOLEAN : WriteClient(line, ok) /\ IF ok THEN Goto(where) ELSE Leave
    BY DEF ToClient
  <1>2. CASE ok
    <2>1. Finished("client") /\ ClientHears(line) /\ pc' = where /\ input' = "none"
      BY <1>1, <1>2 DEF WriteClient, Goto
    <2> QED
      BY <2>1, FinishedType, HearsType DEF ClientType
  <1>3. CASE ~ok
    <2>1. UNCHANGED <<ssl, client, peer>> /\ pc' = "gone" /\ input' = "none"
      BY <1>1, <1>3 DEF WriteClient, Leave, Goto
    <2>2. "gone" \in Places
      BY DEF Places
    <2> QED
      BY <2>1, <2>2 DEF TypeOK, ClientType, client
  <1> QED
    BY <1>2, <1>3

\* What a write to the site changes.
LEMMA ToSiteStep ==
    ASSUME TypeOK, NEW cmd \in AllCommands, NEW where \in Places, ToSite(cmd, where)
    PROVE  /\ pc' \in Places /\ pc' \in {where, "gone"} /\ input' = "none"
           /\ ssl' \in [{"client", "site"} -> SslState]
           /\ (ssl'.client = "null" <=> ssl.client = "null")
           /\ (ssl'.site = "null" <=> ssl.site = "null")
           /\ toSite' \in Seq(AllCommands)
           /\ toSite' = toSite \/ toSite' = Append(toSite, cmd)
           /\ UNCHANGED <<client, peer>>
           /\ pc' # "gone" => pc' = where /\ toSite' = Append(toSite, cmd)
  <1>1. PICK ok \in BOOLEAN :
          /\ WriteSite(cmd, ok)
          /\ IF ok THEN Goto(where) ELSE Leave
          /\ UNCHANGED <<client, peer>>
    BY DEF ToSite
  <1>2. CASE ok
    <2>1. Finished("site") /\ toSite' = Append(toSite, cmd) /\ pc' = where /\ input' = "none"
      BY <1>1, <1>2 DEF WriteSite, Goto
    <2>2. toSite \in Seq(AllCommands)
      BY DEF TypeOK
    <2> QED
      BY <1>1, <2>1, <2>2, FinishedType
  <1>3. CASE ~ok
    <2>1. UNCHANGED <<ssl, toSite>> /\ pc' = "gone" /\ input' = "none"
      BY <1>1, <1>3 DEF WriteSite, Leave, Goto
    <2>2. "gone" \in Places
      BY DEF Places
    <2> QED
      BY <1>1, <2>1, <2>2 DEF TypeOK
  <1> QED
    BY <1>2, <1>3

-----------------------------------------------------------------------------
(* Types of a step *)

\* All but what a write changes.
RestType ==
    /\ config \in Configs
    /\ toBnc \in Seq(AllCommands) /\ toSite \in Seq(AllCommands) /\ fromSite \in Seq(Replies)
    /\ {clientUp, siteUp, gotfirstcmd, gotusercmd, gotpasscmd, gotwelcomemsg, relinked, usingssl,
        gotauthsslmsg, sslprotp, sscn, ahead, lateauth, lost} \subseteq BOOLEAN
    /\ transfertype \in {1, 2}
    /\ tries \in 0 .. Spins - 1
    /\ refused \subseteq {"login", "option"}

LEMMA SpinFacts ==
    /\ Spins \in Nat /\ Spins > 0 /\ 0 \in 0 .. Spins - 1 /\ MaxCmds \in Nat
    /\ Configs \subseteq SUBSET Options /\ Commands \subseteq AllCommands
  BY LoginAssumption

LEMMA RestSame ==
    ASSUME TypeOK, UNCHANGED <<config, wires, ups, tries, flags, history>> PROVE RestType'
  BY DEF TypeOK, RestType, wires, ups, flags, history, got, opts

LEMMA TypeOfClient ==
    ASSUME TypeOK, ClientType, RestType' PROVE TypeOK'
  BY DEF TypeOK, ClientType, RestType

\* A step that writes nothing and leaves the client and the connections alone.
LEMMA TypeOfThread ==
    ASSUME TypeOK, pc' \in Places, input' \in Replies \cup AllCommands \cup {"none"},
           ssl' \in [{"client", "site"} -> SslState], UNCHANGED <<client, peer>>, RestType'
    PROVE  TypeOK'
  BY DEF TypeOK, RestType, client

LEMMA HeadTail ==
    ASSUME NEW S, NEW s \in Seq(S), s # <<>>
    PROVE  Head(s) \in S /\ Tail(s) \in Seq(S)
  OBVIOUS

LEMMA StartType ==
    ASSUME TypeOK, CheckEntry \/ AskIdent PROVE TypeOK'
  <1>1. /\ pc' \in Places /\ input' = "none"
        /\ UNCHANGED <<config, wires, ups, ssl, tries, flags, peer, client, history>>
    BY DEF CheckEntry, AskIdent, Leave, Goto, Places
  <1> QED
    BY <1>1, RestSame, TypeOfThread DEF TypeOK

LEMMA ConnectSiteType ==
    ASSUME TypeOK, ConnectSite PROVE TypeOK'
  <1>1. UNCHANGED <<config, toBnc, toSite, clientUp, tries, flags, history>>
    BY DEF ConnectSite
  <1>2. siteUp' \in BOOLEAN /\ fromSite' \in Seq(Replies)
    <2>1. "220" \in Replies
      BY DEF Replies
    <2>2. <<"220">> \in Seq(Replies) /\ <<>> \in Seq(Replies)
      BY <2>1, OneReply, ReplyFacts
    <2>3. siteUp' \in BOOLEAN /\ (fromSite' = fromSite \/ fromSite' \in {<<>>, <<"220">>})
      BY DEF ConnectSite, Connect, NoSocket, TypeOK
    <2> QED
      BY <2>2, <2>3 DEF TypeOK
  <1>3. RestType'
    BY <1>1, <1>2 DEF TypeOK, RestType, flags, history, got, opts
  <1>4. CASE pc' \in Places /\ input' = "none" /\ UNCHANGED <<client, peer, ssl>>
    BY <1>3, <1>4, TypeOfThread DEF TypeOK
  <1>5. CASE ToClient("no", "gone")
    BY <1>3, <1>5, ToClientStep, TypeOfClient DEF Places
  <1> QED
    BY <1>4, <1>5 DEF ConnectSite, Connect, NoSocket, Leave, Goto, Places

LEMMA SendIdntType ==
    ASSUME TypeOK, SendIdnt PROVE TypeOK'
  <1>1. /\ UNCHANGED <<config, toBnc, fromSite, ups, ssl, tries, flags, peer, client, history>>
        /\ pc' \in Places /\ input' = "none"
        /\ toSite' = toSite \/ toSite' = toSite \o Idnts
    BY DEF SendIdnt, Leave, Goto, Places
  <1>2. Idnts \in Seq(AllCommands)
    BY IdntFacts
  <1>3. toSite' \in Seq(AllCommands)
    <2>1. toSite \in Seq(AllCommands)
      BY DEF TypeOK
    <2>2. toSite \o Idnts \in Seq(AllCommands)
      BY <1>2, <2>1
    <2> QED
      BY <1>1, <2>1, <2>2
  <1>4. RestType'
    BY <1>1, <1>3 DEF TypeOK, RestType, ups, flags, history, got, opts
  <1> QED
    BY <1>1, <1>4, TypeOfThread DEF TypeOK

LEMMA ReadIdntType ==
    ASSUME TypeOK, ReadIdnt PROVE TypeOK'
  <1>1. UNCHANGED <<config, fromSite, ups, tries, flags, history>>
    BY DEF ReadIdnt
  <1>2. CASE toBnc = <<>> /\ Leave /\ UNCHANGED <<toBnc, toSite, ssl, client, peer>>
    <2>1. RestType'
      BY <1>1, <1>2 DEF TypeOK, RestType, ups, flags, history, got, opts
    <2> QED
      BY <1>2, <2>1, TypeOfThread DEF TypeOK, Leave, Goto, Places
  <1>3. CASE /\ toBnc # <<>> /\ toBnc' = Tail(toBnc)
             /\ ToSite(Head(toBnc), IF Head(toBnc) = "IDNT" THEN "welcome" ELSE "gone")
    <2>1. Head(toBnc) \in AllCommands /\ Tail(toBnc) \in Seq(AllCommands)
      BY <1>3, HeadTail DEF TypeOK
    <2>2. (IF Head(toBnc) = "IDNT" THEN "welcome" ELSE "gone") \in Places
      BY DEF Places
    <2>3. /\ pc' \in Places /\ input' = "none" /\ toSite' \in Seq(AllCommands)
          /\ ssl' \in [{"client", "site"} -> SslState] /\ UNCHANGED <<client, peer>>
      BY <1>3, <2>1, <2>2, ToSiteStep
    <2>4. RestType'
      BY <1>1, <1>3, <2>1, <2>3 DEF TypeOK, RestType, ups, flags, history, got, opts
    <2> QED
      BY <2>3, <2>4, TypeOfThread
  <1> QED
    BY <1>2, <1>3 DEF ReadIdnt

LEMMA WelcomeType ==
    ASSUME TypeOK, Welcome PROVE TypeOK'
  <1>1. UNCHANGED <<config, toBnc, toSite, ups, tries, flags, history>>
    BY DEF Welcome
  <1>2. CASE fromSite = <<>> /\ Leave /\ UNCHANGED <<fromSite, ssl, client, peer>>
    <2>1. RestType'
      BY <1>1, <1>2 DEF TypeOK, RestType, ups, flags, history, got, opts
    <2> QED
      BY <1>2, <2>1, TypeOfThread DEF TypeOK, Leave, Goto, Places
  <1>3. CASE /\ fromSite # <<>> /\ fromSite' = Tail(fromSite)
             /\ ToClient(IF On("fake_serverstring") THEN "220" ELSE Head(fromSite), "select")
    <2>1. Tail(fromSite) \in Seq(Replies)
      BY <1>3, HeadTail DEF TypeOK
    <2>2. ClientType
      BY <1>3, ToClientStep DEF Places
    <2>3. RestType'
      BY <1>1, <1>3, <2>1 DEF TypeOK, RestType, ups, flags, history, got, opts
    <2> QED
      BY <2>2, <2>3, TypeOfClient
  <1> QED
    BY <1>2, <1>3 DEF Welcome

LEMMA ReadSiteType ==
    ASSUME TypeOK, ReadSite PROVE TypeOK'
  <1>1. UNCHANGED <<config, toBnc, toSite, ups, tries, flags, peer, client, history>>
    BY DEF ReadSite
  <1>2. ssl' \in [{"client", "site"} -> SslState]
    BY FinishedType DEF ReadSite, TypeOK
  <1>3. fromSite' \in Seq(Replies) /\ (fromSite # <<>> => Head(fromSite) \in Replies)
    <2>1. fromSite \in Seq(Replies)
      BY DEF TypeOK
    <2>2. fromSite # <<>> => Head(fromSite) \in Replies /\ Tail(fromSite) \in Seq(Replies)
      BY <2>1, HeadTail
    <2> QED
      BY <2>1, <2>2 DEF ReadSite
  <1>4. pc' \in Places /\ input' \in Replies \cup {"none"}
    BY <1>3 DEF ReadSite, Leave, Goto, Places
  <1>5. RestType'
    BY <1>1, <1>3 DEF TypeOK, RestType, ups, flags, history, got, opts
  <1> QED
    BY <1>1, <1>2, <1>4, <1>5, TypeOfThread

LEMMA ReadClientType ==
    ASSUME TypeOK, ReadClient PROVE TypeOK'
  <1>1. UNCHANGED <<config, toSite, fromSite, ups, tries, flags, peer, client,
                    ahead, refused, lost>>
    BY DEF ReadClient
  <1>2. ssl' \in [{"client", "site"} -> SslState]
    BY FinishedType DEF ReadClient, TypeOK
  <1>3. toBnc' \in Seq(AllCommands) /\ (toBnc # <<>> => Head(toBnc) \in AllCommands)
    <2>1. toBnc \in Seq(AllCommands)
      BY DEF TypeOK
    <2>2. toBnc # <<>> => Head(toBnc) \in AllCommands /\ Tail(toBnc) \in Seq(AllCommands)
      BY <2>1, HeadTail
    <2> QED
      BY <2>1, <2>2 DEF ReadClient
  <1>4. pc' \in Places /\ input' \in AllCommands \cup {"none"} /\ lateauth' \in BOOLEAN
    <2>1. lateauth \in BOOLEAN
      BY DEF TypeOK
    <2> QED
      BY <1>3, <2>1 DEF ReadClient, Leave, Goto, Places
  <1>5. RestType'
    BY <1>1, <1>3, <1>4 DEF TypeOK, RestType, ups, flags, got, opts
  <1> QED
    BY <1>1, <1>2, <1>4, <1>5, TypeOfThread

LEMMA FirstReplyType ==
    ASSUME TypeOK, FirstReply PROVE TypeOK'
  <1>1. /\ UNCHANGED <<config, wires, ups, tries, got, gotauthsslmsg, transfertype, sscn,
                       relinked, usingssl, history>>
        /\ sslprotp' \in BOOLEAN
    BY DEF FirstReply, TypeOK
  <1>2. \E line : ToClient(line, IF input \in AuthDone THEN "sslconnect" ELSE "select")
    BY DEF FirstReply
  <1>3. ClientType
    BY <1>2, ToClientStep DEF Places
  <1>4. RestType'
    BY <1>1 DEF TypeOK, RestType, wires, ups, got, history
  <1> QED
    BY <1>3, <1>4, TypeOfClient

\* A relink begins, and nothing is written yet.
LEMMA StartRelinkStep ==
    ASSUME NEW state \in {0, 1}, StartRelink(state)
    PROVE  /\ pc' = (IF state = 1 THEN "relink1" ELSE "relink0") /\ input' = "none"
           /\ pc' \in Places
  BY DEF StartRelink, Goto, Places

LEMMA UserReplyType ==
    ASSUME TypeOK, UserReply PROVE TypeOK'
  <1>1. RestType'
    BY RestSame DEF UserReply
  <1>2. CASE StartRelink(1) /\ UNCHANGED <<ssl, client, peer>>
    BY <1>1, <1>2, StartRelinkStep, TypeOfThread DEF TypeOK
  <1>3. ASSUME NEW line, NEW where \in {"gone", "select"}, ToClient(line, where)
        PROVE  TypeOK'
    BY <1>1, <1>3, ToClientStep, TypeOfClient DEF Places
  <1> QED
    BY <1>2, <1>3 DEF UserReply

LEMMA PassReplyType ==
    ASSUME TypeOK, PassReply PROVE TypeOK'
  <1>1. /\ UNCHANGED <<config, wires, ups, tries, gotfirstcmd, gotusercmd, gotpasscmd, opts,
                       relinked, usingssl, history>>
        /\ gotwelcomemsg' \in BOOLEAN
    BY DEF PassReply, Endline
  <1>2. RestType'
    BY <1>1 DEF TypeOK, RestType, wires, ups, opts, history
  <1>3. CASE StartRelink(0) /\ UNCHANGED <<ssl, client, peer>>
    BY <1>2, <1>3, StartRelinkStep, TypeOfThread DEF TypeOK
  <1>4. ASSUME NEW line, NEW where \in {"gone", "select", "needtls"}, ToClient(line, where)
        PROVE  TypeOK'
    BY <1>2, <1>4, ToClientStep, TypeOfClient DEF Places
  <1> QED
    BY <1>3, <1>4 DEF PassReply

\* A step that only writes a line to the client.
LEMMA OnlyWrites ==
    ASSUME TypeOK, NEW line, NEW where \in Places, ToClient(line, where),
           UNCHANGED <<config, wires, ups, tries, flags, history>>
    PROVE  TypeOK'
  BY RestSame, ToClientStep, TypeOfClient

LEMMA PassedOnType ==
    ASSUME TypeOK, RefuseWithoutTls \/ OtherReply \/ AskPass \/ RefuseIdnt PROVE TypeOK'
  <1>1. \E line : \E where \in {"gone", "select", "askpass"} : ToClient(line, where)
    BY DEF RefuseWithoutTls, OtherReply, AskPass, RefuseIdnt
  <1>2. UNCHANGED <<config, wires, ups, tries, flags, history>>
    BY DEF RefuseWithoutTls, OtherReply, AskPass, RefuseIdnt
  <1> QED
    BY <1>1, <1>2, OnlyWrites DEF Places

LEMMA SslConnectType ==
    ASSUME TypeOK, SslConnect PROVE TypeOK'
  <1>1. UNCHANGED <<config, wires, ups, flags, peer, client, history>>
    BY DEF SslConnect
  <1>2. /\ pc' \in Places /\ input' \in Replies \cup AllCommands \cup {"none"}
        /\ ssl' \in [{"client", "site"} -> SslState]
    BY DEF SslConnect, TypeOK, Leave, Goto, Places, SslState
  <1>3. tries' \in 0 .. Spins - 1
    <2>1. tries \in 0 .. Spins - 1
      BY DEF TypeOK
    <2>2. tries' = 0 \/ tries' = tries \/ (tries + 1 # Spins /\ tries' = tries + 1)
      BY DEF SslConnect, LastTry
    <2> QED
      BY <2>1, <2>2, SpinFacts
  <1>4. RestType'
    BY <1>1, <1>3 DEF TypeOK, RestType, wires, ups, flags, got, opts, history
  <1> QED
    BY <1>1, <1>2, <1>4, TypeOfThread

LEMMA SslAcceptType ==
    ASSUME TypeOK, SslAccept PROVE TypeOK'
  <1>1. /\ UNCHANGED <<config, wires, ups, got, opts, relinked, peer, client, history>>
        /\ usingssl' \in BOOLEAN
    BY DEF SslAccept, TypeOK
  <1>2. /\ pc' \in Places /\ input' \in Replies \cup AllCommands \cup {"none"}
        /\ ssl' \in [{"client", "site"} -> SslState]
    BY DEF SslAccept, TypeOK, Leave, Goto, Places, SslState
  <1>3. tries' \in 0 .. Spins - 1
    <2>1. tries \in 0 .. Spins - 1
      BY DEF TypeOK
    <2>2. tries' = 0 \/ tries' = tries \/ (tries + 1 # Spins /\ tries' = tries + 1)
      BY DEF SslAccept, LastTry
    <2> QED
      BY <2>1, <2>2, SpinFacts
  <1>4. RestType'
    BY <1>1, <1>3 DEF TypeOK, RestType, wires, ups, got, opts, history
  <1> QED
    BY <1>1, <1>2, <1>4, TypeOfThread

LEMMA RelinkSiteStep ==
    ASSUME TypeOK, RelinkSite
    PROVE  /\ pc \in {"relink0", "relink1"} /\ pc' \in Places /\ input' = "none"
           /\ toSite' = <<>> /\ fromSite' = <<>>
           /\ UNCHANGED <<config, toBnc, clientUp, tries, flags, client,
                          ahead, lateauth, refused>>
           /\ \/ /\ siteUp' = FALSE /\ UNCHANGED <<peer, lost>> /\ pc' = "gone"
                 /\ ssl' = [ssl EXCEPT !.site = "null"]
              \/ \E login \in {LoggedIn} \cup LoginFails :
                   /\ siteUp' = login.up /\ lost' = ~login.ok /\ ssl' = RelinkSsl(login)
                   /\ peer' = [peer EXCEPT !.site =
                                 [tls |-> login.secure, answered |-> login.secure,
                                  user |-> login.ok, in |-> login.ok]]
                   /\ \/ ~login.ok /\ pc' = (IF pc = "relink1" THEN "failed1" ELSE "failed0")
                      \/ pc' = (IF pc = "relink1" THEN "ask331" ELSE "tell230")
  <1>1. /\ pc \in {"relink0", "relink1"} /\ toSite' = <<>> /\ fromSite' = <<>>
        /\ UNCHANGED <<config, toBnc, clientUp, tries, flags, client,
                       ahead, lateauth, refused>>
    BY DEF RelinkSite, CloseSite
  <1>2. CASE /\ NoSocket
             /\ ssl' = [ssl EXCEPT !.site = "null"]
             /\ UNCHANGED <<peer, lost>>
    <2>1. pc' = "gone" /\ input' = "none" /\ siteUp' = FALSE /\ pc' \in Places
      BY <1>2 DEF NoSocket, Leave, Goto, Places
    <2> QED
      BY <1>1, <1>2, <2>1
  <1>3. ASSUME NEW login \in {LoggedIn} \cup LoginFails,
               siteUp' = login.up,
               ssl' = RelinkSsl(login),
               peer' = [peer EXCEPT !.site = [tls |-> login.secure, answered |-> login.secure,
                                              user |-> login.ok, in |-> login.ok]],
               lost' = ~login.ok,
               IF ~login.ok /\ On("show_connect_failmsg")
               THEN Goto(IF pc = "relink1" THEN "failed1" ELSE "failed0")
               ELSE Goto(AfterLogin(pc))
        PROVE  /\ pc' \in Places /\ input' = "none"
               /\ \/ ~login.ok /\ pc' = (IF pc = "relink1" THEN "failed1" ELSE "failed0")
                  \/ pc' = (IF pc = "relink1" THEN "ask331" ELSE "tell230")
    BY <1>1, <1>3 DEF Goto, AfterLogin, Places
  <1> QED
    BY <1>1, <1>2, <1>3 DEF RelinkSite

LEMMA LoginTypes ==
    ASSUME NEW login \in {LoggedIn} \cup LoginFails
    PROVE  login.ok \in BOOLEAN /\ login.up \in BOOLEAN /\ login.secure \in BOOLEAN
  <1>1. On("ssl_relink") \in BOOLEAN
    BY DEF On
  <1>2. CASE login = LoggedIn
    BY <1>1, <1>2 DEF LoggedIn
  <1>3. CASE login \in LoginFails
    <2>1. login.ok \in {FALSE} /\ login.up \in BOOLEAN /\ login.secure \in {FALSE, On("ssl_relink")}
      BY <1>3 DEF LoginFails
    <2> QED
      BY <1>1, <2>1
  <1> QED
    BY <1>2, <1>3

LEMMA RelinkSiteType ==
    ASSUME TypeOK, RelinkSite PROVE TypeOK'
  <1>1. /\ pc' \in Places /\ input' = "none" /\ toSite' = <<>> /\ fromSite' = <<>>
        /\ UNCHANGED <<config, toBnc, clientUp, tries, flags, client,
                       ahead, lateauth, refused>>
    BY RelinkSiteStep
  <1>2. /\ siteUp' \in BOOLEAN /\ lost' \in BOOLEAN
        /\ ssl' \in [{"client", "site"} -> SslState]
        /\ peer' \in [client : Client, site : Site]
    <2>1. CASE siteUp' = FALSE /\ UNCHANGED <<peer, lost>> /\ ssl' = [ssl EXCEPT !.site = "null"]
      BY <2>1 DEF TypeOK, SslState
    <2>2. ASSUME NEW login \in {LoggedIn} \cup LoginFails,
                 siteUp' = login.up, lost' = ~login.ok, ssl' = RelinkSsl(login),
                 peer' = [peer EXCEPT !.site = [tls |-> login.secure, answered |-> login.secure,
                                                user |-> login.ok, in |-> login.ok]]
          PROVE  /\ siteUp' \in BOOLEAN /\ lost' \in BOOLEAN
                 /\ ssl' \in [{"client", "site"} -> SslState]
                 /\ peer' \in [client : Client, site : Site]
      <3>1. login.ok \in BOOLEAN /\ login.up \in BOOLEAN /\ login.secure \in BOOLEAN
        BY LoginTypes
      <3>2. [tls |-> login.secure, answered |-> login.secure,
             user |-> login.ok, in |-> login.ok] \in Site
        BY <3>1 DEF Site
      <3> QED
        BY <2>2, <3>1, <3>2 DEF TypeOK, SslState, RelinkSsl
    <2> QED
      BY <2>1, <2>2, RelinkSiteStep
  <1>3. RestType'
    BY <1>1, <1>2, ReplyFacts DEF TypeOK, RestType, flags, got, opts
  <1> QED
    BY <1>1, <1>2, <1>3 DEF TypeOK, RestType, client

LEMMA TellFailureStep ==
    ASSUME TypeOK, TellFailure
    PROVE  /\ ClientType /\ pc \in {"failed0", "failed1"}
           /\ pc' = (IF pc = "failed1" THEN "ask331" ELSE "tell230")
           /\ (ssl'.client = "null" <=> ssl.client = "null")
           /\ (ssl'.site = "null" <=> ssl.site = "null")
           /\ peer'.site = peer.site /\ peer'.client.tls = peer.client.tls
           /\ told' \in {told, "427"} /\ due' \in {due, due - 1}
           /\ UNCHANGED <<config, wires, ups, tries, flags, history>>
  <1>1. /\ pc \in {"failed0", "failed1"} /\ Goto(AfterLogin(pc))
        /\ UNCHANGED <<config, wires, ups, tries, flags, history>>
    BY DEF TellFailure
  <1>2. /\ pc' = (IF pc = "failed1" THEN "ask331" ELSE "tell230") /\ input' = "none"
        /\ pc' \in Places
    BY <1>1 DEF Goto, AfterLogin, Places
  <1>3. PICK ok \in BOOLEAN : WriteClient("427", ok)
    BY DEF TellFailure
  <1>4. CASE ok
    <2>1. Finished("client") /\ ClientHears("427")
      BY <1>3, <1>4 DEF WriteClient
    <2>2. Endline("427") /\ "427" \notin AuthDone
      BY DEF Endline, AuthDone
    <2>3. peer.client.tls \in BOOLEAN
      BY DEF TypeOK, Client
    <2> QED
      BY <1>1, <1>2, <2>1, <2>2, <2>3, FinishedType, HearsType DEF ClientType
  <1>5. CASE ~ok
    <2>1. UNCHANGED <<ssl, client, peer>>
      BY <1>3, <1>5 DEF WriteClient
    <2> QED
      BY <1>1, <1>2, <2>1 DEF TypeOK, ClientType, client
  <1> QED
    BY <1>4, <1>5

LEMMA TellFailureType ==
    ASSUME TypeOK, TellFailure PROVE TypeOK'
  BY TellFailureStep, RestSame, TypeOfClient

LEMMA WaitPassType ==
    ASSUME TypeOK, WaitPass PROVE TypeOK'
  <1>1. UNCHANGED <<config, toSite, fromSite, ups, tries, flags, history>>
    BY DEF WaitPass
  <1>2. toBnc' \in Seq(AllCommands)
    <2>1. toBnc \in Seq(AllCommands)
      BY DEF TypeOK
    <2>2. toBnc # <<>> => Tail(toBnc) \in Seq(AllCommands)
      BY <2>1, HeadTail
    <2> QED
      BY <2>1, <2>2 DEF WaitPass
  <1>3. RestType'
    BY <1>1, <1>2 DEF TypeOK, RestType, ups, flags, got, opts, history
  <1>4. CASE (Goto("tell230") \/ Leave) /\ UNCHANGED <<ssl, client, peer>>
    BY <1>3, <1>4, TypeOfThread DEF TypeOK, Leave, Goto, Places
  <1>5. CASE ToClient("500", "askpass")
    BY <1>3, <1>5, ToClientStep, TypeOfClient DEF Places
  <1> QED
    BY <1>4, <1>5 DEF WaitPass

LEMMA TellLoggedInType ==
    ASSUME TypeOK, TellLoggedIn PROVE TypeOK'
  <1>1. /\ UNCHANGED <<config, wires, ups, tries, gotfirstcmd, opts, usingssl, history>>
        /\ {relinked, gotusercmd, gotpasscmd, gotwelcomemsg}' \subseteq BOOLEAN
    BY DEF TellLoggedIn, TypeOK
  <1>2. RestType'
    BY <1>1 DEF TypeOK, RestType, wires, ups, opts, history
  <1>3. ToClient("230", "select")
    BY DEF TellLoggedIn
  <1> QED
    BY <1>2, <1>3, ToClientStep, TypeOfClient DEF Places

\* What a step does that sends the command it has read to the site.
LEMMA SendsOn ==
    ASSUME TypeOK, NEW cmd \in AllCommands, NEW where \in Places, ToSite(cmd, where), RestType'
    PROVE  TypeOK'
  BY ToSiteStep, TypeOfThread

\* In a command the input is one.
LEMMA AuthType ==
    ASSUME TypeOK, Auth PROVE TypeOK'
  <1>1. /\ input \in AuthCommands
        /\ UNCHANGED <<config, toBnc, fromSite, ups, tries, gotusercmd, gotpasscmd, gotwelcomemsg,
                       sslprotp, transfertype, sscn, relinked, usingssl, history>>
        /\ {gotauthsslmsg, gotfirstcmd}' \subseteq BOOLEAN
    BY DEF Auth, TypeOK
  <1>2. PICK cmd \in AuthCommands : ToSite(cmd, "select")
    BY DEF Auth, AuthCommands
  <1>3. cmd \in AllCommands /\ "select" \in Places
    BY DEF AllCommands, Places
  <1>4. toSite' \in Seq(AllCommands)
    BY <1>2, <1>3, ToSiteStep
  <1>5. RestType'
    BY <1>1, <1>4 DEF TypeOK, RestType, ups, history
  <1> QED
    BY <1>2, <1>3, <1>5, SendsOn

LEMMA ProtType ==
    ASSUME TypeOK, Prot PROVE TypeOK'
  <1>1. /\ input \in AllCommands /\ "select" \in Places
        /\ UNCHANGED <<config, toBnc, fromSite, ups, tries, got, gotauthsslmsg, transfertype, sscn,
                       relinked, usingssl, history>>
        /\ sslprotp' \in BOOLEAN
    BY DEF Prot, AfterProt, TypeOK, AllCommands, OptionCommands, Places
  <1>2. ASSUME toSite' \in Seq(AllCommands) PROVE RestType'
    BY <1>1, <1>2 DEF TypeOK, RestType, ups, got, history
  <1>3. CASE ToClient("200", "select") /\ UNCHANGED toSite
    BY <1>1, <1>2, <1>3, ToClientStep, TypeOfClient DEF TypeOK
  <1>4. CASE ToSite(input, "select")
    BY <1>1, <1>2, <1>4, ToSiteStep, SendsOn
  <1> QED
    BY <1>3, <1>4 DEF Prot

LEMMA TypeType ==
    ASSUME TypeOK, Type PROVE TypeOK'
  <1>1. /\ input \in AllCommands /\ "select" \in Places
        /\ UNCHANGED <<config, toBnc, fromSite, ups, tries, got, gotauthsslmsg, sslprotp, sscn,
                       relinked, usingssl, history>>
        /\ transfertype' \in {1, 2}
    BY DEF Type, AllCommands, OptionCommands, Places
  <1>2. ToSite(input, "select")
    BY DEF Type
  <1>3. toSite' \in Seq(AllCommands)
    BY <1>1, <1>2, ToSiteStep
  <1>4. RestType'
    BY <1>1, <1>3 DEF TypeOK, RestType, ups, got, history
  <1> QED
    BY <1>1, <1>2, <1>4, SendsOn

\* What is read at a command is one; the invariant below says so.
LEMMA BeforeUserType ==
    ASSUME TypeOK, input \in AllCommands, BeforeUser PROVE TypeOK'
  <1> DEFINE user == input \in {"USER", "empty USER"}
  <1>1. /\ UNCHANGED <<config, toBnc, fromSite, ups, tries, gotpasscmd, gotwelcomemsg, opts,
                       relinked, usingssl, history>>
        /\ gotusercmd' = user /\ gotfirstcmd' = (gotfirstcmd \/ user)
    BY DEF BeforeUser
  <1>6. user \in BOOLEAN
    OBVIOUS
  <1> HIDE DEF user
  <1>7. gotusercmd' \in BOOLEAN /\ gotfirstcmd' \in BOOLEAN
    BY <1>1, <1>6
  <1>2. PICK where \in {"gone", "select"} : ToSite(input, where)
    BY DEF BeforeUser
  <1>3. where \in Places
    BY DEF Places
  <1>4. toSite' \in Seq(AllCommands)
    BY <1>2, <1>3, ToSiteStep
  <1>5. RestType'
    BY <1>1, <1>4, <1>7 DEF TypeOK, RestType, ups, opts, history
  <1> QED
    BY <1>2, <1>3, <1>5, SendsOn

LEMMA BeforePassType ==
    ASSUME TypeOK, input \in AllCommands, BeforePass PROVE TypeOK'
  <1>1. /\ UNCHANGED <<config, toBnc, fromSite, ups, tries, gotfirstcmd, gotusercmd,
                       gotwelcomemsg, opts, relinked, usingssl, history>>
        /\ gotpasscmd' \in BOOLEAN /\ "select" \in Places
    BY DEF BeforePass, Places
  <1>2. ToSite(input, "select")
    BY DEF BeforePass
  <1>3. toSite' \in Seq(AllCommands)
    BY <1>1, <1>2, ToSiteStep
  <1>4. RestType'
    BY <1>1, <1>3 DEF TypeOK, RestType, ups, opts, history
  <1> QED
    BY <1>1, <1>2, <1>4, SendsOn

\* The steps of a command that set no member.
LEMMA QuitType ==
    ASSUME TypeOK, OtherCommand => input \in AllCommands, Quit \/ OtherCommand PROVE TypeOK'
  <1>1. /\ UNCHANGED <<config, toBnc, fromSite, ups, tries, flags, history>>
        /\ "QUIT" \in AllCommands /\ {"select", "quit"} \subseteq Places
    BY DEF Quit, OtherCommand, AllCommands, Places
  <1>2. ASSUME toSite' \in Seq(AllCommands) PROVE RestType'
    BY <1>1, <1>2 DEF TypeOK, RestType, ups, flags, got, opts, history
  <1>3. CASE ToClient("221-", "quit") /\ UNCHANGED toSite
    BY <1>1, <1>2, <1>3, ToClientStep, TypeOfClient DEF TypeOK
  <1>4. CASE \E cmd \in AllCommands : ToSite(cmd, "select")
    BY <1>1, <1>2, <1>4, ToSiteStep, SendsOn
  <1> QED
    BY <1>1, <1>3, <1>4 DEF Quit, OtherCommand

LEMMA SscnType ==
    ASSUME TypeOK, Sscn PROVE TypeOK'
  <1>1. /\ input \in AllCommands /\ "select" \in Places
        /\ UNCHANGED <<config, toBnc, fromSite, ups, tries, got, gotauthsslmsg, sslprotp,
                       transfertype, relinked, usingssl, history>>
        /\ sscn' \in BOOLEAN
    BY DEF Sscn, AllCommands, OptionCommands, Places
  <1>2. ASSUME toSite' \in Seq(AllCommands) PROVE RestType'
    BY <1>1, <1>2 DEF TypeOK, RestType, ups, got, history
  <1>3. CASE ToClient("200", "select") /\ UNCHANGED toSite
    BY <1>1, <1>2, <1>3, ToClientStep, TypeOfClient DEF TypeOK
  <1>4. CASE ToSite(input, "select")
    BY <1>1, <1>2, <1>4, ToSiteStep, SendsOn
  <1> QED
    BY <1>3, <1>4 DEF Sscn

LEMMA ClientSendsType ==
    ASSUME TypeOK, ClientSends PROVE TypeOK'
  <1>1. PICK c \in Commands : toBnc' = Append(toBnc, c) /\ asked' = c
    BY DEF ClientSends
  <1>2. /\ UNCHANGED <<config, pc, input, toSite, fromSite, ups, ssl, tries, flags, peer, told,
                       believes, lateauth, refused, lost>>
        /\ sent < MaxCmds /\ sent' = sent + 1 /\ due' = due + 1 /\ ahead' = (ahead \/ due > 0)
    BY DEF ClientSends
  <1>3. c \in AllCommands /\ toBnc' \in Seq(AllCommands)
    BY <1>1, SpinFacts DEF TypeOK
  <1>4. sent' \in 0 .. MaxCmds /\ due' \in Int
    <2>1. sent \in 0 .. MaxCmds /\ due \in Int
      BY DEF TypeOK
    <2> QED
      BY <1>2, <2>1, SpinFacts
  <1>5. ahead' \in BOOLEAN
    BY <1>2
  <1>6. RestType'
    BY <1>2, <1>3, <1>5 DEF TypeOK, RestType, ups, flags, got, opts
  <1> QED
    BY <1>1, <1>2, <1>3, <1>4, <1>6 DEF TypeOK, RestType

LEMMA HandshakesType ==
    ASSUME TypeOK, ClientAnswers \/ SiteAnswers PROVE TypeOK'
  <1>1. UNCHANGED <<config, pc, input, wires, ups, ssl, tries, flags, client, history>>
    BY DEF ClientAnswers, SiteAnswers
  <1>2. peer' \in [client : Client, site : Site]
    <2>1. peer \in [client : Client, site : Site]
      BY DEF TypeOK
    <2>2. CASE peer' = [peer EXCEPT !.client.answered = TRUE]
      BY <2>1, <2>2 DEF Client
    <2>3. CASE peer' = [peer EXCEPT !.site.answered = TRUE]
      BY <2>1, <2>3 DEF Site
    <2> QED
      BY <2>2, <2>3 DEF ClientAnswers, SiteAnswers
  <1>3. RestType'
    BY <1>1, RestSame
  <1> QED
    BY <1>1, <1>2, <1>3 DEF TypeOK, RestType, client

\* What a site says to a command.
LEMMA AnswersType ==
    ASSUME NEW cmd \in AllCommands, NEW lines \in Answers(cmd)
    PROVE  \/ lines = <<>> /\ cmd = "IDNT"
           \/ lines = <<"230-", "230">> /\ cmd = "PASS" /\ peer.site.user /\ ~peer.site.in
           \/ \E line \in Replies \ {"230-", "221-", "220"} :
                 /\ lines = <<line>> /\ cmd # "IDNT"
                 /\ line = "230" => cmd = "PASS" /\ peer.site.user /\ ~peer.site.in
  <1>1. /\ \A line \in {"no", "331", "denied", "530", "full", "200", "221", "234 TLS", "234 SSL"} :
             line \in Replies \ {"230-", "221-", "220"} /\ line # "230"
        /\ "230" \in Replies \ {"230-", "221-", "220"}
    BY DEF Replies, LoginReplies, AuthDone
  <1>2. CASE cmd = "IDNT"
    BY <1>2 DEF Answers
  <1>3. CASE cmd = "PASS" /\ peer.site.user /\ ~peer.site.in
    BY <1>1, <1>3 DEF Answers
  <1>4. CASE cmd # "IDNT" /\ ~(cmd = "PASS" /\ peer.site.user /\ ~peer.site.in)
    <2>1. \E line \in {"no", "331", "denied", "200", "221", "234 TLS", "234 SSL"} :
             lines = <<line>>
      BY <1>4 DEF Answers, No
    <2> QED
      BY <1>1, <1>4, <2>1
  <1> QED
    BY <1>2, <1>3, <1>4

LEMMA AnswersLines ==
    ASSUME NEW cmd \in AllCommands, NEW lines \in Answers(cmd)
    PROVE  lines \in Seq(Replies)
  <1>1. {"230-", "230"} \subseteq Replies
    BY DEF Replies, LoginReplies
  <1>2. <<>> \in Seq(Replies) /\ <<"230-", "230">> \in Seq(Replies)
    BY <1>1
  <1>3. CASE lines \in {<<>>, <<"230-", "230">>}
    BY <1>2, <1>3
  <1>4. CASE \E line \in Replies : lines = <<line>>
    BY <1>4, OneReply
  <1> QED
    BY <1>3, <1>4, AnswersType

\* What the site learns from its own answers.
LEMMA SiteHandlesStep ==
    ASSUME TypeOK, SiteHandles
    PROVE  /\ siteUp /\ toSite # <<>> /\ Head(toSite) \in AllCommands
           /\ UNCHANGED <<config, pc, input, toBnc, clientUp, ssl, tries, flags, client,
                          ahead, lateauth, lost>>
           /\ \/ /\ siteUp' = FALSE /\ toSite' = <<>> /\ UNCHANGED <<fromSite, peer, refused>>
                 /\ peer.site.tls /\ ~peer.site.answered
              \/ /\ toSite' = Tail(toSite) /\ siteUp' = siteUp
                 /\ peer.site.tls => peer.site.answered
                 /\ \E lines \in Answers(Head(toSite)) :
                       LET said(line) == \E i \in DOMAIN lines : lines[i] = line
                       IN  /\ fromSite' = fromSite \o lines
                           /\ peer' = [peer EXCEPT !.site.tls  = @ \/ said("234 TLS") \/ said("234 SSL"),
                                                 !.site.user = (@ \/ said("331")) /\ ~said("denied"),
                                                 !.site.in   = @ \/ said("230")]
                           /\ refused' = refused \cup
                                (IF \E line \in {"no", "530", "denied"} : said(line)
                                 THEN {IF Head(toSite) \in {"USER", "PASS"}
                                       THEN "login" ELSE "option"}
                                 ELSE {})
  <1>1. toSite # <<>> /\ toSite \in Seq(AllCommands)
    BY DEF SiteHandles, TypeOK
  <1>2. Head(toSite) \in AllCommands
    BY <1>1, HeadTail
  <1> QED
    BY <1>1, <1>2 DEF SiteHandles

LEMMA SiteHandlesType ==
    ASSUME TypeOK, SiteHandles PROVE TypeOK'
  <1>1. /\ toSite # <<>> /\ Head(toSite) \in AllCommands
        /\ UNCHANGED <<config, pc, input, toBnc, clientUp, ssl, tries, flags, client,
                       ahead, lateauth, lost>>
    BY SiteHandlesStep
  <1>2. /\ toSite \in Seq(AllCommands) /\ fromSite \in Seq(Replies)
        /\ Tail(toSite) \in Seq(AllCommands)
    BY <1>1, HeadTail DEF TypeOK
  <1>3. peer \in [client : Client, site : Site] /\ refused \subseteq {"login", "option"}
    BY DEF TypeOK
  <1>4. /\ toSite' \in Seq(AllCommands) /\ fromSite' \in Seq(Replies) /\ siteUp' \in BOOLEAN
        /\ peer' \in [client : Client, site : Site] /\ refused' \subseteq {"login", "option"}
    <2>1. CASE siteUp' = FALSE /\ toSite' = <<>> /\ UNCHANGED <<fromSite, peer, refused>>
      BY <1>2, <1>3, <2>1, ReplyFacts
    <2>3. ASSUME toSite' = Tail(toSite), siteUp' = siteUp,
                 NEW lines \in Answers(Head(toSite)), fromSite' = fromSite \o lines
          PROVE  toSite' \in Seq(AllCommands) /\ fromSite' \in Seq(Replies) /\ siteUp' \in BOOLEAN
      <3>1. lines \in Seq(Replies)
        BY <1>1, AnswersLines
      <3>2. fromSite \o lines \in Seq(Replies)
        BY <1>2, <3>1
      <3>3. siteUp \in BOOLEAN
        BY DEF TypeOK
      <3> QED
        BY <1>2, <2>3, <3>2, <3>3
    <2>4. ASSUME NEW a \in BOOLEAN, NEW b \in BOOLEAN, NEW d \in BOOLEAN,
                 peer' = [peer EXCEPT !.site.tls = a, !.site.user = b, !.site.in = d]
          PROVE  peer' \in [client : Client, site : Site]
      BY <1>3, <2>4 DEF Site
    <2> QED
      BY <1>3, <2>1, <2>3, <2>4, SiteHandlesStep
  <1> QED
    BY <1>1, <1>4 DEF TypeOK, flags, got, opts, client

LEMMA ClosesType ==
    ASSUME TypeOK, ClientCloses \/ SiteCloses PROVE TypeOK'
  <1>1. /\ UNCHANGED <<config, pc, input, wires, ssl, tries, flags, peer, client, history>>
        /\ clientUp' \in BOOLEAN /\ siteUp' \in BOOLEAN
    BY DEF ClientCloses, SiteCloses, TypeOK
  <1> QED
    BY <1>1 DEF TypeOK, wires, flags, got, opts, client, history

LEMMA InitType ==
    ASSUME Init PROVE TypeOK
  <1>1. toBnc \in Seq(AllCommands) /\ toSite \in Seq(AllCommands) /\ fromSite \in Seq(Replies)
    <2>1. "IDNT" \in AllCommands
      BY DEF AllCommands
    <2>2. <<"IDNT">> \in Seq(AllCommands)
      BY <2>1
    <2> QED
      BY <2>2, ReplyFacts DEF Init
  <1>2. /\ config \in Configs /\ pc \in Places /\ transfertype \in {1, 2}
        /\ input \in Replies \cup AllCommands \cup {"none"}
        /\ asked \in AllCommands \cup {"none"} /\ told \in LoginReplies \cup {"none"}
        /\ refused \subseteq {"login", "option"} /\ due \in Int
    BY DEF Init, Places
  <1>3. ssl \in [{"client", "site"} -> SslState]
    BY DEF Init, SslState
  <1>4. peer \in [client : Client, site : Site]
    BY DEF Init, Client, Site, NewSite
  <1>5. believes \in Beliefs
    BY DEF Init, Beliefs
  <1>6. sent \in 0 .. MaxCmds /\ tries \in 0 .. Spins - 1
    BY SpinFacts DEF Init
  <1> QED
    BY <1>1, <1>2, <1>3, <1>4, <1>5, <1>6 DEF TypeOK, Init

\* A command of the client that is read is one, a reply of the site is one.
InputRead == (pc = "command" => input \in AllCommands) /\ (pc = "reply" => input \in Replies)

LEMMA TypeStep ==
    ASSUME TypeOK, InputRead, Next PROVE TypeOK'
  <1>1. CASE Start
    BY <1>1, StartType, ConnectSiteType, SendIdntType, ReadIdntType, WelcomeType DEF Start
  <1>2. CASE Loop
    BY <1>2, ReadSiteType, ReadClientType DEF Loop
  <1>3. CASE Reply
    BY <1>3, FirstReplyType, UserReplyType, PassReplyType, PassedOnType DEF Reply
  <1>4. CASE Trytls
    BY <1>4, SslConnectType, SslAcceptType DEF Trytls
  <1>5. CASE Tryrelink
    BY <1>5, RelinkSiteType, TellFailureType, PassedOnType, WaitPassType, TellLoggedInType
       DEF Tryrelink
  <1>6. CASE Command
    <2>1. BeforeUser \/ BeforePass \/ OtherCommand => input \in AllCommands
      BY DEF InputRead, BeforeUser, BeforePass, OtherCommand
    <2> QED
      BY <1>6, <2>1, PassedOnType, AuthType, ProtType, TypeType, BeforeUserType,
         BeforePassType, QuitType, SscnType DEF Command
  <1>7. CASE Peers
    BY <1>7, ClientSendsType, HandshakesType, SiteHandlesType, ClosesType DEF Peers, Handshakes
  <1> QED
    BY <1>1, <1>2, <1>3, <1>4, <1>5, <1>6, <1>7 DEF Next, Control

-----------------------------------------------------------------------------
(* What the steps do that do not end the session *)

\* The client has got a line, and nothing else was written.
Heard(line) ==
    /\ due' = IF Endline(line) THEN due - 1 ELSE due
    /\ told' = IF line \in LoginReplies THEN line ELSE told
    /\ believes' = Believing(line)
    /\ peer'.site = peer.site /\ peer'.client.answered = peer.client.answered
    /\ peer'.client.tls = (peer.client.tls \/ line \in AuthDone)
    /\ sent' = sent /\ asked' = asked
    /\ ssl'.site = ssl.site /\ (ssl'.client = "null" <=> ssl.client = "null")

\* A command has been written to the site.
SentOn(cmd) ==
    /\ toSite' = Append(toSite, cmd)
    /\ UNCHANGED <<sent, due, asked, told, believes, peer>>
    /\ ssl'.client = ssl.client /\ (ssl'.site = "null" <=> ssl.site = "null")

\* Nothing has been written.
Silent == UNCHANGED <<sent, due, asked, told, believes, peer, ssl>>

LEMMA FinishedStep ==
    ASSUME TypeOK, NEW p \in {"client", "site"}, Finished(p)
    PROVE  /\ (ssl'[p] = "null" <=> ssl[p] = "null")
           /\ \A q \in {"client", "site"} \ {p} : ssl'[q] = ssl[q]
  BY DEF TypeOK, Finished, SslState

LEMMA HeardBy ==
    ASSUME TypeOK, NEW line, NEW where \in Places, ToClient(line, where), pc' # "gone"
    PROVE  pc' = where /\ input' = "none" /\ Heard(line)
  <1>1. PICK ok \in BOOLEAN : WriteClient(line, ok) /\ IF ok THEN Goto(where) ELSE Leave
    BY DEF ToClient
  <1>2. Finished("client") /\ ClientHears(line) /\ pc' = where /\ input' = "none"
    BY <1>1 DEF WriteClient, Goto, Leave
  <1>3. ssl'.site = ssl.site /\ (ssl'.client = "null" <=> ssl.client = "null")
    BY <1>2, FinishedStep
  <1> QED
    BY <1>2, <1>3, HearsType DEF Heard, ClientHears

LEMMA SentBy ==
    ASSUME TypeOK, NEW cmd, NEW where \in Places, ToSite(cmd, where), pc' # "gone"
    PROVE  pc' = where /\ input' = "none" /\ SentOn(cmd)
  <1>1. PICK ok \in BOOLEAN :
          /\ WriteSite(cmd, ok)
          /\ IF ok THEN Goto(where) ELSE Leave
          /\ UNCHANGED <<client, peer>>
    BY DEF ToSite
  <1>2. Finished("site") /\ toSite' = Append(toSite, cmd) /\ pc' = where /\ input' = "none"
    BY <1>1 DEF WriteSite, Goto, Leave
  <1>3. ssl'.client = ssl.client /\ (ssl'.site = "null" <=> ssl.site = "null")
    BY <1>2, FinishedStep
  <1> QED
    BY <1>1, <1>2, <1>3 DEF SentOn, client

LEMMA BeginStep ==
    ASSUME CheckEntry \/ AskIdent, pc' # "gone"
    PROVE  /\ pc \in {"entry", "ident"} /\ pc' \in {"ident", "connect"} /\ input' = "none"
           /\ UNCHANGED <<config, toBnc, toSite, fromSite, siteUp, gotfirstcmd, gotusercmd,
                          gotpasscmd, gotwelcomemsg, relinked, usingssl, sslprotp, transfertype,
                          sscn, ahead, lateauth, refused, lost>>
           /\ Silent
  BY DEF CheckEntry, AskIdent, Leave, Goto, Silent, wires, ups, flags, got, opts, client, history

LEMMA ConnectSiteStep ==
    ASSUME TypeOK, ConnectSite, pc' # "gone"
    PROVE  /\ pc = "connect" /\ pc' = "idnt" /\ input' = "none"
           /\ siteUp' = TRUE /\ fromSite' \in {<<>>, <<"220">>}
           /\ UNCHANGED <<config, toBnc, toSite, gotfirstcmd, gotusercmd,
                          gotpasscmd, gotwelcomemsg, relinked, usingssl, sslprotp, transfertype,
                          sscn, ahead, lateauth, refused, lost>>
           /\ Silent
  <1>1. /\ pc = "connect"
        /\ UNCHANGED <<config, toBnc, toSite, clientUp, tries, flags, history>>
    BY DEF ConnectSite
  <1>2. ~ToClient("no", "gone")
    BY HeardBy DEF Places
  <1>3. Connect /\ Goto("idnt") /\ UNCHANGED <<client, peer, ssl>>
    BY <1>2 DEF ConnectSite, NoSocket, Leave, Goto
  <1> QED
    BY <1>1, <1>3 DEF Connect, Goto, Silent, flags, got, opts, client, history

LEMMA SendIdntStep ==
    ASSUME SendIdnt, pc' # "gone"
    PROVE  /\ pc = "idnt" /\ pc' = (IF ReadsIdnt THEN "readidnt" ELSE "welcome")
           /\ input' = "none" /\ toSite' = toSite \o Idnts
           /\ UNCHANGED <<config, toBnc, fromSite, siteUp, gotfirstcmd, gotusercmd,
                          gotpasscmd, gotwelcomemsg, relinked, usingssl, sslprotp, transfertype,
                          sscn, ahead, lateauth, refused, lost>>
           /\ Silent
  BY DEF SendIdnt, Leave, Goto, Silent, wires, ups, flags, got, opts, client, history

LEMMA ReadIdntStep ==
    ASSUME TypeOK, ReadIdnt, pc' # "gone"
    PROVE  /\ pc = "readidnt" /\ pc' = "welcome" /\ input' = "none"
           /\ toBnc # <<>> /\ Head(toBnc) = "IDNT" /\ toBnc' = Tail(toBnc)
           /\ SentOn("IDNT")
           /\ UNCHANGED <<config, fromSite, siteUp, gotfirstcmd, gotusercmd,
                          gotpasscmd, gotwelcomemsg, relinked, usingssl, sslprotp, transfertype,
                          sscn, ahead, lateauth, refused, lost>>
  <1>1. /\ pc = "readidnt" /\ toBnc # <<>> /\ toBnc' = Tail(toBnc)
        /\ ToSite(Head(toBnc), IF Head(toBnc) = "IDNT" THEN "welcome" ELSE "gone")
        /\ UNCHANGED <<config, fromSite, ups, tries, flags, history>>
    BY DEF ReadIdnt, Leave, Goto
  <1>2. (IF Head(toBnc) = "IDNT" THEN "welcome" ELSE "gone") \in Places
    BY DEF Places
  <1>3. /\ pc' = IF Head(toBnc) = "IDNT" THEN "welcome" ELSE "gone"
        /\ input' = "none" /\ SentOn(Head(toBnc))
    BY <1>1, <1>2, SentBy
  <1> QED
    BY <1>1, <1>3 DEF ups, flags, got, opts, history

LEMMA WelcomeStep ==
    ASSUME TypeOK, Welcome, pc' # "gone"
    PROVE  /\ pc = "welcome" /\ pc' = "select" /\ input' = "none"
           /\ fromSite # <<>> /\ fromSite' = Tail(fromSite)
           /\ \E line \in {"220", Head(fromSite)} : Heard(line)
           /\ UNCHANGED <<config, toBnc, toSite, siteUp, gotfirstcmd, gotusercmd,
                          gotpasscmd, gotwelcomemsg, relinked, usingssl, sslprotp, transfertype,
                          sscn, ahead, lateauth, refused, lost>>
  <1>1. /\ pc = "welcome" /\ fromSite # <<>> /\ fromSite' = Tail(fromSite)
        /\ \E line \in {"220", Head(fromSite)} : ToClient(line, "select")
        /\ UNCHANGED <<config, toBnc, toSite, ups, tries, flags, history>>
    BY DEF Welcome, Leave, Goto
  <1>2. pc' = "select" /\ input' = "none" /\ \E line \in {"220", Head(fromSite)} : Heard(line)
    BY <1>1, HeardBy DEF Places
  <1> QED
    BY <1>1, <1>2 DEF ups, flags, got, opts, history

\* The loop takes a reply, or finishes a handshake and waits.
LEMMA ReadSiteStep ==
    ASSUME TypeOK, ReadSite, pc' # "gone"
    PROVE  /\ pc \in {"select", "sslsite"}
           /\ UNCHANGED <<config, toBnc, toSite, siteUp, gotfirstcmd, gotusercmd,
                          gotpasscmd, gotwelcomemsg, relinked, usingssl, sslprotp, transfertype,
                          sscn, ahead, lateauth, refused, lost>>
           /\ UNCHANGED <<sent, due, asked, told, believes, peer>>
           /\ ssl'.client = ssl.client /\ (ssl'.site = "null" <=> ssl.site = "null")
           /\ \/ /\ pc' = "reply" /\ fromSite # <<>> /\ input' = Head(fromSite)
                 /\ fromSite' = Tail(fromSite) /\ input' \in Replies
              \/ pc' \in {"select", "sslsite"} /\ input' = "none" /\ fromSite' = fromSite
  <1>1. Finished("site") /\ pc \in {"select", "sslsite"}
    BY DEF ReadSite, Leave, Goto
  <1>2. ssl'.client = ssl.client /\ (ssl'.site = "null" <=> ssl.site = "null")
    BY <1>1, FinishedStep
  <1>3. fromSite # <<>> => Head(fromSite) \in Replies
    BY HeadTail DEF TypeOK
  <1> QED
    BY <1>1, <1>2, <1>3 DEF ReadSite, Leave, Goto, ups, flags, got, opts, client, history

\* The loop takes a command, or finishes a handshake and waits.
LEMMA ReadClientStep ==
    ASSUME TypeOK, ReadClient, pc' # "gone"
    PROVE  /\ pc \in {"select", "sslclient"}
           /\ UNCHANGED <<config, toSite, fromSite, siteUp, gotfirstcmd, gotusercmd,
                          gotpasscmd, gotwelcomemsg, relinked, usingssl, sslprotp, transfertype,
                          sscn, ahead, refused, lost>>
           /\ UNCHANGED <<sent, due, asked, told, believes, peer>>
           /\ ssl'.site = ssl.site /\ (ssl'.client = "null" <=> ssl.client = "null")
           /\ \/ /\ pc' = "command" /\ toBnc # <<>> /\ input' = Head(toBnc)
                 /\ toBnc' = Tail(toBnc) /\ input' \in AllCommands
                 /\ lateauth' = (lateauth \/ (input' \in AuthCommands
                                              /\ (gotusercmd \/ relinked)))
              \/ /\ pc' \in {"select", "sslclient"} /\ input' = "none" /\ toBnc' = toBnc
                 /\ lateauth' = lateauth
  <1>1. Finished("client") /\ pc \in {"select", "sslclient"}
    BY DEF ReadClient, Leave, Goto
  <1>2. ssl'.site = ssl.site /\ (ssl'.client = "null" <=> ssl.client = "null")
    BY <1>1, FinishedStep
  <1>3. toBnc # <<>> => Head(toBnc) \in AllCommands
    BY HeadTail DEF TypeOK
  <1>4. /\ UNCHANGED <<config, toSite, fromSite, ups, tries, flags, peer, client,
                       ahead, refused, lost>>
        /\ \/ /\ toBnc # <<>> /\ input' = Head(toBnc) /\ pc' = "command"
              /\ toBnc' = Tail(toBnc)
              /\ lateauth' = (lateauth \/ (Head(toBnc) \in AuthCommands
                                           /\ (gotusercmd \/ relinked)))
           \/ /\ pc' \in {"select", "sslclient"} /\ input' = "none" /\ toBnc' = toBnc
              /\ lateauth' = lateauth
    BY DEF ReadClient, Leave, Goto
  <1> QED
    BY <1>1, <1>2, <1>3, <1>4 DEF ups, flags, got, opts, client

\* relink_notls sends a user without TLS to another site
MustRelink ==
    On("enforce_tls") /\ On("relink_notls") /\ On("trytorelink") /\ ~usingssl

\* A reply of the site is passed on, or begins a relink.
ReplyPassed ==
    /\ pc' \in {"select", "needtls", "sslconnect"}
    /\ pc' = "sslconnect" => input \in AuthDone /\ gotfirstcmd /\ ~gotusercmd
    /\ input \in AuthDone /\ gotfirstcmd /\ ~gotusercmd => pc' = "sslconnect"
    /\ gotusercmd /\ ~gotpasscmd => ~MustRelink
    /\ \E line : /\ line = input \/ (line = "234 SSL" /\ input = "234 TLS"
                                     /\ On("translate_nosslfxp"))
                 /\ Heard(line)

ReplyRelinks ==
    /\ Silent
    /\ \/ /\ pc' = "relink1" /\ gotusercmd /\ ~gotpasscmd /\ gotwelcomemsg' = gotwelcomemsg
          /\ input = "denied" \/ MustRelink
       \/ /\ pc' = "relink0" /\ gotusercmd /\ gotpasscmd /\ ~gotwelcomemsg /\ gotwelcomemsg'
          /\ Endline(input) /\ input \notin {"230", "full"}

LEMMA ReplyStep ==
    ASSUME TypeOK, FirstReply \/ UserReply \/ PassReply \/ OtherReply, pc' # "gone"
    PROVE  /\ pc = "reply" /\ input' = "none"
           /\ UNCHANGED <<config, toBnc, toSite, fromSite, siteUp, gotfirstcmd, gotusercmd,
                          gotpasscmd, relinked, usingssl, transfertype,
                          sscn, ahead, lateauth, refused, lost>>
           /\ sslprotp' \in BOOLEAN
           /\ sslprotp' <=> sslprotp \/ (input = "234 SSL" /\ gotfirstcmd /\ ~gotusercmd)
           /\ gotwelcomemsg' <=>
                gotwelcomemsg \/ (gotusercmd /\ gotpasscmd /\ Endline(input))
           /\ ReplyPassed \/ ReplyRelinks
  <1>0. {"select", "needtls", "sslconnect"} \subseteq Places
    BY DEF Places
  <1>1. CASE FirstReply
    <2>1. /\ pc = "reply" /\ gotfirstcmd /\ ~gotusercmd
          /\ sslprotp' = (sslprotp \/ input = "234 SSL")
          /\ UNCHANGED <<config, wires, ups, tries, got, gotauthsslmsg, transfertype, sscn,
                         relinked, usingssl, history>>
      BY <1>1 DEF FirstReply
    <2>2. PICK line : /\ line = input \/ (line = "234 SSL" /\ input = "234 TLS"
                                          /\ On("translate_nosslfxp"))
                      /\ ToClient(line, IF input \in AuthDone THEN "sslconnect" ELSE "select")
      BY <1>1 DEF FirstReply
    <2>3. /\ pc' = (IF input \in AuthDone THEN "sslconnect" ELSE "select")
          /\ input' = "none" /\ Heard(line)
      BY <1>0, <2>2, HeardBy
    <2>4. ReplyPassed
      BY <2>1, <2>2, <2>3 DEF ReplyPassed
    <2>5. sslprotp' \in BOOLEAN
      BY <2>1 DEF TypeOK
    <2> QED
      BY <2>1, <2>3, <2>4, <2>5 DEF wires, ups, got, history
  <1>2. CASE UserReply
    <2>1. /\ pc = "reply" /\ gotusercmd /\ ~gotpasscmd
          /\ UNCHANGED <<config, wires, ups, tries, flags, history>>
      BY <1>2 DEF UserReply
    <2>2. ~ToClient(input, "gone") /\ ~ToClient("427", "gone")
      BY HeardBy DEF Places
    <2>3. \/ ToClient(input, "select") /\ ~MustRelink
          \/ /\ StartRelink(1) /\ UNCHANGED <<ssl, client, peer>>
             /\ input = "denied" \/ MustRelink
      BY <1>2, <2>2 DEF UserReply, MustRelink
    <2>4. CASE ToClient(input, "select") /\ ~MustRelink
      <3>1. pc' = "select" /\ input' = "none" /\ Heard(input)
        BY <1>0, <2>4, HeardBy
      <3>2. ReplyPassed
        BY <2>1, <2>4, <3>1 DEF ReplyPassed
      <3> QED
        BY <2>1, <3>1, <3>2 DEF wires, ups, flags, got, opts, history, TypeOK
    <2>5. CASE /\ StartRelink(1) /\ UNCHANGED <<ssl, client, peer>>
               /\ input = "denied" \/ MustRelink
      <3>1. pc' = "relink1" /\ input' = "none"
        BY <2>5, StartRelinkStep
      <3>2. ReplyRelinks
        BY <2>1, <2>5, <3>1 DEF ReplyRelinks, Silent, client, flags, got
      <3> QED
        BY <2>1, <3>1, <3>2 DEF wires, ups, flags, got, opts, history, TypeOK
    <2> QED
      BY <2>3, <2>4, <2>5
  <1>3. CASE PassReply
    <2>1. /\ pc = "reply" /\ gotusercmd /\ gotpasscmd /\ ~gotwelcomemsg
          /\ gotwelcomemsg' = Endline(input)
          /\ UNCHANGED <<config, wires, ups, tries, gotfirstcmd, gotusercmd, gotpasscmd, opts,
                         relinked, usingssl, history>>
      BY <1>3 DEF PassReply
    <2>2. \/ \E where \in {"select", "needtls", "gone"} : ToClient(input, where)
          \/ /\ StartRelink(0) /\ UNCHANGED <<ssl, client, peer>>
             /\ Endline(input) /\ input \notin {"230", "full"}
      BY <1>3 DEF PassReply
    <2>3. CASE \E where \in {"select", "needtls", "gone"} : ToClient(input, where)
      <3>1. pc' \in {"select", "needtls"} /\ input' = "none" /\ Heard(input)
        BY <2>3, HeardBy DEF Places
      <3>2. ReplyPassed
        BY <2>1, <3>1 DEF ReplyPassed
      <3> QED
        BY <2>1, <3>1, <3>2 DEF wires, ups, opts, history, TypeOK
    <2>4. CASE /\ StartRelink(0) /\ UNCHANGED <<ssl, client, peer>>
               /\ Endline(input) /\ input \notin {"230", "full"}
      <3>1. pc' = "relink0" /\ input' = "none"
        BY <2>4, StartRelinkStep
      <3>2. ReplyRelinks
        BY <2>1, <2>4, <3>1 DEF ReplyRelinks, Silent, client
      <3> QED
        BY <2>1, <3>1, <3>2 DEF wires, ups, opts, history, TypeOK
    <2> QED
      BY <2>2, <2>3, <2>4
  <1>4. CASE OtherReply
    <2>1. /\ pc = "reply" /\ ToClient(input, "select")
          /\ \/ ~gotfirstcmd /\ ~gotusercmd
             \/ gotusercmd /\ gotpasscmd /\ gotwelcomemsg
          /\ UNCHANGED <<config, wires, ups, tries, flags, history>>
      BY <1>4 DEF OtherReply
    <2>2. pc' = "select" /\ input' = "none" /\ Heard(input)
      BY <1>0, <2>1, HeardBy
    <2>3. ReplyPassed
      BY <2>1, <2>2 DEF ReplyPassed
    <2> QED
      BY <2>1, <2>2, <2>3 DEF wires, ups, flags, got, opts, history, TypeOK
  <1> QED
    BY <1>1, <1>2, <1>3, <1>4

LEMMA SslConnectStep ==
    ASSUME TypeOK, SslConnect, pc' # "gone"
    PROVE  /\ pc = "sslconnect" /\ pc' \in {"sslconnect", "sslaccept"}
           /\ input' \in {input, "none"}
           /\ ssl'.client = ssl.client /\ ssl'.site # "null"
           /\ UNCHANGED <<config, toBnc, toSite, fromSite, siteUp, gotfirstcmd, gotusercmd,
                          gotpasscmd, gotwelcomemsg, relinked, usingssl, sslprotp, transfertype,
                          sscn, ahead, lateauth, refused, lost>>
           /\ UNCHANGED <<sent, due, asked, told, believes, peer>>
  <1>1. /\ pc = "sslconnect" /\ pc' \in {"sslconnect", "sslaccept"} /\ input' \in {input, "none"}
        /\ ssl' = [ssl EXCEPT !.site = "ready"] \/ ssl' = [ssl EXCEPT !.site = "started"]
        /\ UNCHANGED <<config, wires, ups, flags, peer, client, history>>
    BY DEF SslConnect, Leave, Goto
  <1> QED
    BY <1>1 DEF TypeOK, wires, ups, flags, got, opts, client, history

LEMMA SslAcceptStep ==
    ASSUME TypeOK, SslAccept, pc' # "gone"
    PROVE  /\ pc = "sslaccept" /\ pc' \in {"sslaccept", "select"}
           /\ input' \in {input, "none"}
           /\ ssl'.site = ssl.site /\ ssl'.client # "null"
           /\ usingssl' = IF pc' = "select" THEN TRUE ELSE usingssl
           /\ UNCHANGED <<config, toBnc, toSite, fromSite, siteUp, gotfirstcmd, gotusercmd,
                          gotpasscmd, gotwelcomemsg, relinked, sslprotp, transfertype,
                          sscn, ahead, lateauth, refused, lost>>
           /\ UNCHANGED <<sent, due, asked, told, believes, peer>>
  <1>1. /\ pc = "sslaccept"
        /\ \/ pc' = "select" /\ input' = "none" /\ usingssl' = TRUE
           \/ pc' = pc /\ input' = input /\ usingssl' = usingssl
        /\ ssl' = [ssl EXCEPT !.client = "ready"] \/ ssl' = [ssl EXCEPT !.client = "started"]
        /\ UNCHANGED <<config, wires, ups, got, opts, relinked, peer, client, history>>
    BY DEF SslAccept, Leave, Goto
  <1> QED
    BY <1>1 DEF TypeOK, wires, ups, got, opts, client, history

\* The places of tryrelink after its first step, and the members it leaves alone.
LEMMA RelinkedStep ==
    ASSUME TypeOK, RelinkSite, pc' # "gone"
    PROVE  /\ pc \in {"relink0", "relink1"} /\ input' = "none"
           /\ toSite' = <<>> /\ fromSite' = <<>>
           /\ ssl'.client = ssl.client /\ peer'.client = peer.client
           /\ peer'.site.tls <=> ssl'.site # "null"
           /\ lost' <=> ~peer'.site.in
           /\ peer'.site.user <=> peer'.site.in
           /\ pc' \in {"failed0", "failed1", "ask331", "tell230"}
           /\ pc' \in {"failed0", "failed1"} => lost'
           /\ UNCHANGED <<config, toBnc, gotfirstcmd, gotusercmd, gotpasscmd,
                          gotwelcomemsg, relinked, usingssl, sslprotp, transfertype, sscn,
                          ahead, lateauth, refused>>
           /\ UNCHANGED <<sent, due, asked, told, believes>>
  <1>1. /\ pc \in {"relink0", "relink1"} /\ input' = "none"
        /\ toSite' = <<>> /\ fromSite' = <<>>
        /\ UNCHANGED <<config, toBnc, clientUp, tries, flags, client,
                       ahead, lateauth, refused>>
    BY RelinkSiteStep
  <1>2. PICK login \in {LoggedIn} \cup LoginFails :
          /\ lost' = ~login.ok /\ ssl' = RelinkSsl(login)
          /\ peer' = [peer EXCEPT !.site = [tls |-> login.secure, answered |-> login.secure,
                                            user |-> login.ok, in |-> login.ok]]
          /\ \/ ~login.ok /\ pc' = (IF pc = "relink1" THEN "failed1" ELSE "failed0")
             \/ pc' = (IF pc = "relink1" THEN "ask331" ELSE "tell230")
    BY RelinkSiteStep
  <1>3. login.ok \in BOOLEAN /\ login.secure \in BOOLEAN
    BY LoginTypes
  <1>4. /\ ssl \in [{"client", "site"} -> SslState] /\ peer \in [client : Client, site : Site]
    BY DEF TypeOK
  <1>5. /\ ssl'.client = ssl.client
        /\ ssl'.site = IF login.secure THEN "ready" ELSE "null"
    BY <1>2, <1>4 DEF RelinkSsl
  <1>6. /\ peer'.client = peer.client
        /\ peer'.site = [tls |-> login.secure, answered |-> login.secure,
                         user |-> login.ok, in |-> login.ok]
    BY <1>2, <1>4
  <1>7. /\ peer'.site.tls = login.secure /\ peer'.site.user = login.ok
        /\ peer'.site.in = login.ok
    BY <1>6
  <1>8. peer'.site.tls <=> ssl'.site # "null"
    BY <1>3, <1>5, <1>7
  <1>9. (lost' <=> ~peer'.site.in) /\ (peer'.site.user <=> peer'.site.in)
    BY <1>2, <1>3, <1>7
  <1>10. /\ pc' \in {"failed0", "failed1", "ask331", "tell230"}
         /\ pc' \in {"failed0", "failed1"} => lost'
    BY <1>1, <1>2, <1>3
  <1> QED
    BY <1>1, <1>5, <1>6, <1>8, <1>9, <1>10 DEF flags, got, opts, client

LEMMA AskPassStep ==
    ASSUME TypeOK, AskPass, pc' # "gone"
    PROVE  /\ pc = "ask331" /\ pc' = "askpass" /\ input' = "none" /\ Heard("331")
           /\ UNCHANGED <<config, toBnc, toSite, fromSite, siteUp, gotfirstcmd, gotusercmd,
                          gotpasscmd, gotwelcomemsg, relinked, usingssl, sslprotp, transfertype,
                          sscn, ahead, lateauth, refused, lost>>
  <1>1. pc' = "askpass" /\ input' = "none" /\ Heard("331")
    BY HeardBy DEF AskPass, Places
  <1> QED
    BY <1>1 DEF AskPass, wires, ups, flags, got, opts, history

LEMMA WaitPassStep ==
    ASSUME TypeOK, WaitPass, pc' # "gone"
    PROVE  /\ pc = "askpass" /\ input' = "none" /\ toBnc # <<>> /\ toBnc' = Tail(toBnc)
           /\ \/ pc' = "tell230" /\ Head(toBnc) = "PASS" /\ Silent
              \/ pc' = "askpass" /\ Heard("500")
           /\ UNCHANGED <<config, toSite, fromSite, siteUp, gotfirstcmd, gotusercmd,
                          gotpasscmd, gotwelcomemsg, relinked, usingssl, sslprotp, transfertype,
                          sscn, ahead, lateauth, refused, lost>>
  <1>1. ToClient("500", "askpass") => pc' = "askpass" /\ input' = "none" /\ Heard("500")
    BY HeardBy DEF Places
  <1>2. /\ toBnc # <<>> /\ toBnc' = Tail(toBnc)
        /\ \/ Head(toBnc) = "PASS" /\ Goto("tell230") /\ UNCHANGED <<ssl, client, peer>>
           \/ ToClient("500", "askpass")
    BY DEF WaitPass, Leave, Goto
  <1> QED
    BY <1>1, <1>2 DEF WaitPass, Goto, Silent, ups, flags, got, opts, client, history

LEMMA TellLoggedInStep ==
    ASSUME TypeOK, TellLoggedIn, pc' # "gone"
    PROVE  /\ pc = "tell230" /\ pc' = "select" /\ input' = "none" /\ Heard("230")
           /\ relinked' = TRUE /\ gotusercmd' = TRUE /\ gotpasscmd' = TRUE
           /\ gotwelcomemsg' = TRUE
           /\ UNCHANGED <<config, toBnc, toSite, fromSite, siteUp, gotfirstcmd,
                          usingssl, sslprotp, transfertype,
                          sscn, ahead, lateauth, refused, lost>>
  <1>1. pc' = "select" /\ input' = "none" /\ Heard("230")
    BY HeardBy DEF TellLoggedIn, Places
  <1> QED
    BY <1>1 DEF TellLoggedIn, wires, ups, opts, history

LEMMA ToldFailureStep ==
    ASSUME TypeOK, TellFailure, pc' # "gone"
    PROVE  /\ pc \in {"failed0", "failed1"} /\ input' = "none"
           /\ pc' = (IF pc = "failed1" THEN "ask331" ELSE "tell230")
           /\ Heard("427") \/ Silent
           /\ UNCHANGED <<config, toBnc, toSite, fromSite, siteUp, gotfirstcmd, gotusercmd,
                          gotpasscmd, gotwelcomemsg, relinked, usingssl, sslprotp, transfertype,
                          sscn, ahead, lateauth, refused, lost>>
  <1>1. /\ pc \in {"failed0", "failed1"} /\ pc' = (IF pc = "failed1" THEN "ask331" ELSE "tell230")
        /\ input' = "none"
        /\ UNCHANGED <<config, wires, ups, tries, flags, history>>
    BY DEF TellFailure, Goto, AfterLogin
  <1>2. PICK ok \in BOOLEAN : WriteClient("427", ok)
    BY DEF TellFailure
  <1>3. CASE ok
    <2>1. Finished("client") /\ ClientHears("427")
      BY <1>2, <1>3 DEF WriteClient
    <2>2. ssl'.site = ssl.site /\ (ssl'.client = "null" <=> ssl.client = "null")
      BY <2>1, FinishedStep
    <2>3. Heard("427")
      BY <2>1, <2>2, HearsType DEF Heard, ClientHears
    <2> QED
      BY <1>1, <2>3 DEF wires, ups, flags, got, opts, history
  <1>4. CASE ~ok
    <2>1. Silent
      BY <1>2, <1>4 DEF WriteClient, Silent, client
    <2> QED
      BY <1>1, <2>1 DEF wires, ups, flags, got, opts, history
  <1> QED
    BY <1>3, <1>4

\* AUTH SSL may be sent as AUTH TLS.
Forwarded(cmd) == IF cmd = "AUTH SSL" /\ On("translate_nosslfxp") THEN "AUTH TLS" ELSE cmd

SscnCommands == {"SSCN ON", "SSCN OFF"}
ProtCommands == {"PROT P", "PROT C"}

\* The bouncer answers a command itself, passes it on, or begins the answer to QUIT.
Answered ==
    /\ pc = "command" /\ pc' = "select" /\ toSite' = toSite
    /\ \/ input = "IDNT" /\ Heard("500")
       \/ /\ input \in ProtCommands /\ Heard("200")
          /\ relinked \/ (input = "PROT P" /\ On("translate_nosslfxp"))
       \/ input \in SscnCommands /\ gotusercmd /\ gotpasscmd /\ Heard("200")

PassedOn ==
    /\ pc = "command" /\ pc' = "select" /\ input # "IDNT"
    /\ SentOn(Forwarded(input))

Quits ==
    \/ /\ pc = "command" /\ input = "QUIT" /\ pc' = "quit" /\ toSite' = toSite
       /\ gotpasscmd /\ gotusercmd /\ Heard("221-")
    \/ pc = "quit" /\ pc' = "select" /\ SentOn("QUIT")

\* What a command does to the members.
MembersSet ==
    /\ gotfirstcmd => gotfirstcmd'
    /\ pc = "command" /\ input \in AuthCommands => gotfirstcmd'
    /\ gotusercmd' <=> gotusercmd \/ (pc = "command" /\ input = "USER")
    /\ gotpasscmd' <=> gotpasscmd \/ (pc = "command" /\ input = "PASS" /\ gotusercmd)
    /\ transfertype' = IF pc = "command" /\ input = "TYPE A" THEN 1
                       ELSE IF pc = "command" /\ input = "TYPE I" THEN 2 ELSE transfertype
    /\ sslprotp' <=> IF pc = "command" /\ input \in ProtCommands
                     THEN input = "PROT P" /\ (sslprotp \/ usingssl) ELSE sslprotp
    /\ sscn' <=> IF pc = "command" /\ input \in SscnCommands /\ gotusercmd /\ gotpasscmd
                 THEN input = "SSCN ON" ELSE sscn

CommandSteps ==
    RefuseIdnt \/ Auth \/ Prot \/ Type \/ BeforeUser \/ BeforePass \/ Quit \/ Sscn \/ OtherCommand

LEMMA CommandCases ==
    ASSUME TypeOK, CommandSteps, pc' # "gone"
    PROVE  /\ input' = "none"
           /\ UNCHANGED <<config, toBnc, fromSite, siteUp, gotwelcomemsg, relinked, usingssl,
                          ahead, lateauth, refused, lost>>
           /\ Answered \/ PassedOn \/ Quits
  <1>0. {"select", "quit"} \subseteq Places
    BY DEF Places
  <1>1. UNCHANGED <<config, toBnc, fromSite, siteUp, gotwelcomemsg, relinked, usingssl,
                    ahead, lateauth, refused, lost>>
    <2>1. CASE RefuseIdnt \/ Quit \/ OtherCommand
      BY <2>1 DEF RefuseIdnt, Quit, OtherCommand, wires, ups, flags, got, history
    <2>2. CASE Auth \/ BeforeUser \/ BeforePass
      BY <2>2 DEF Auth, BeforeUser, BeforePass, ups, history
    <2>3. CASE Prot \/ Type \/ Sscn
      BY <2>3 DEF Prot, Type, Sscn, ups, got, history
    <2> QED
      BY <2>1, <2>2, <2>3 DEF CommandSteps
  <1>2. CASE RefuseIdnt
    <2>1. pc' = "select" /\ input' = "none" /\ Heard("500")
      BY <1>0, <1>2, HeardBy DEF RefuseIdnt
    <2> QED
      BY <1>1, <1>2, <2>1 DEF RefuseIdnt, Answered, wires
  <1>3. CASE Auth
    <2>1. ToSite(Forwarded(input), "select") /\ pc = "command" /\ input # "IDNT"
      BY <1>3 DEF Auth, AuthCommands, Forwarded
    <2> QED
      BY <1>0, <1>1, <2>1, SentBy DEF PassedOn
  <1>4. CASE Type \/ BeforeUser \/ BeforePass \/ OtherCommand
    <2>1. /\ pc = "command" /\ input \notin AuthCommands \cup {"IDNT"}
          /\ \/ ToSite(input, "select")
             \/ ToSite(input, "gone")
      BY <1>4 DEF Type, BeforeUser, BeforePass, OtherCommand, Elsewhere, AuthCommands
    <2>2. ~ToSite(input, "gone")
      BY SentBy DEF Places
    <2>3. Forwarded(input) = input
      BY <2>1 DEF Forwarded, AuthCommands
    <2> QED
      BY <1>0, <1>1, <2>1, <2>2, <2>3, SentBy DEF PassedOn
  <1>5. CASE Prot
    <2>1. /\ pc = "command" /\ input \in ProtCommands
          /\ \/ /\ ToClient("200", "select") /\ UNCHANGED toSite
                /\ relinked \/ (input = "PROT P" /\ On("translate_nosslfxp"))
             \/ ToSite(input, "select")
      BY <1>5 DEF Prot, ProtCommands
    <2>2. Forwarded(input) = input /\ input # "IDNT"
      BY <2>1 DEF Forwarded, ProtCommands
    <2> QED
      BY <1>0, <1>1, <2>1, <2>2, HeardBy, SentBy DEF Answered, PassedOn
  <1>6. CASE Sscn
    <2>1. /\ pc = "command" /\ input \in SscnCommands /\ gotusercmd /\ gotpasscmd
          /\ \/ ToClient("200", "select") /\ UNCHANGED toSite
             \/ ToSite(input, "select")
      BY <1>6 DEF Sscn, SscnCommands
    <2>2. Forwarded(input) = input /\ input # "IDNT"
      BY <2>1 DEF Forwarded, SscnCommands
    <2> QED
      BY <1>0, <1>1, <2>1, <2>2, HeardBy, SentBy DEF Answered, PassedOn
  <1>7. CASE Quit
    <2>1. \/ /\ pc = "command" /\ input = "QUIT" /\ gotusercmd /\ gotpasscmd
             /\ \/ ToClient("221-", "quit") /\ UNCHANGED toSite
                \/ ToSite("QUIT", "select")
          \/ pc = "quit" /\ ToSite("QUIT", "select")
      BY <1>7 DEF Quit
    <2>2. Forwarded("QUIT") = "QUIT"
      BY DEF Forwarded
    <2> QED
      BY <1>0, <1>1, <2>1, <2>2, HeardBy, SentBy DEF Quits, PassedOn
  <1> QED
    BY <1>2, <1>3, <1>4, <1>5, <1>6, <1>7 DEF CommandSteps

LEMMA MembersStep ==
    ASSUME TypeOK, CommandSteps, pc' # "gone" PROVE MembersSet
  <1>0. /\ {gotfirstcmd, gotusercmd, gotpasscmd, sslprotp, sscn, usingssl} \subseteq BOOLEAN
    BY DEF TypeOK
  <1>1. CASE RefuseIdnt \/ OtherCommand \/ Quit
    <2>1. UNCHANGED <<gotfirstcmd, gotusercmd, gotpasscmd, transfertype, sslprotp, sscn>>
      BY <1>1 DEF RefuseIdnt, OtherCommand, Quit, flags, got, opts
    <2>2. pc = "command" =>
            \/ input = "IDNT" \/ (input = "QUIT" /\ gotusercmd /\ gotpasscmd)
            \/ /\ gotusercmd /\ gotpasscmd
               /\ input \notin Elsewhere \cup {"QUIT", "SSCN ON", "SSCN OFF"}
      BY <1>1 DEF RefuseIdnt, OtherCommand, Quit
    <2> QED
      BY <1>0, <2>1, <2>2 DEF MembersSet, Elsewhere, AuthCommands, SscnCommands, ProtCommands
  <1>2. CASE Auth
    <2>1. pc' = "select"
      BY <1>2, SentBy DEF Auth, Places
    <2> QED
      BY <1>0, <1>2, <2>1 DEF Auth, MembersSet, AuthCommands, SscnCommands, ProtCommands
  <1>3. CASE Prot
    BY <1>0, <1>3 DEF Prot, MembersSet, got, AuthCommands, SscnCommands, ProtCommands, AfterProt
  <1>4. CASE Type
    BY <1>0, <1>4 DEF Type, MembersSet, got, AuthCommands, SscnCommands, ProtCommands
  <1>5. CASE BeforeUser
    <2>1. input # "empty USER"
      BY <1>5, SentBy DEF BeforeUser, Places
    <2> QED
      BY <1>0, <1>5, <2>1 DEF BeforeUser, MembersSet, opts, Elsewhere, AuthCommands, SscnCommands,
         ProtCommands
  <1>6. CASE BeforePass
    BY <1>0, <1>6 DEF BeforePass, MembersSet, opts, Elsewhere, AuthCommands, SscnCommands,
       ProtCommands
  <1>7. CASE Sscn
    BY <1>0, <1>7 DEF Sscn, MembersSet, got, AuthCommands, SscnCommands, ProtCommands
  <1> QED
    BY <1>1, <1>2, <1>3, <1>4, <1>5, <1>6, <1>7 DEF CommandSteps

LEMMA ClientSendsStep ==
    ASSUME TypeOK, ClientSends
    PROVE  /\ asked' \in Commands /\ asked' \in AllCommands /\ toBnc' = Append(toBnc, asked')
           /\ due' = due + 1 /\ ahead' \in BOOLEAN /\ (ahead' <=> ahead \/ due > 0)
           /\ pc # "gone"
           /\ UNCHANGED <<config, pc, input, toSite, fromSite, siteUp, ssl, gotfirstcmd, gotusercmd,
                          gotpasscmd, gotwelcomemsg, relinked, usingssl, sslprotp, transfertype,
                          sscn, peer, told, believes, lateauth, refused, lost>>
           /\ peer.client.tls => peer.client.answered
  <1>1. PICK c \in Commands : toBnc' = Append(toBnc, c) /\ asked' = c
    BY DEF ClientSends
  <1>2. ahead' = (ahead \/ due > 0)
    BY DEF ClientSends
  <1> QED
    BY <1>1, <1>2, SpinFacts DEF ClientSends, TypeOK, ups, flags, got, opts

\* A handshake that arrives changes neither what the peers nor what the thread
\* takes for TLS.
LEMMA HandshakesStep ==
    ASSUME TypeOK, Handshakes
    PROVE  /\ (peer'.site.tls <=> peer.site.tls) /\ (peer'.site.user <=> peer.site.user)
           /\ (peer'.site.in <=> peer.site.in) /\ (peer'.client.tls <=> peer.client.tls)
           /\ UNCHANGED <<config, pc, input, toBnc, toSite, fromSite, siteUp, ssl, gotfirstcmd,
                          gotusercmd, gotpasscmd, gotwelcomemsg, relinked, usingssl, sslprotp,
                          transfertype, sscn, sent, due, asked, told, believes,
                          ahead, lateauth, refused, lost>>
  <1>1. peer \in [client : Client, site : Site]
    BY DEF TypeOK
  <1>2. \/ peer' = [peer EXCEPT !.client.answered = TRUE]
        \/ peer' = [peer EXCEPT !.site.answered = TRUE]
    BY DEF Handshakes, ClientAnswers, SiteAnswers
  <1>3. /\ (peer'.site.tls <=> peer.site.tls) /\ (peer'.site.user <=> peer.site.user)
        /\ (peer'.site.in <=> peer.site.in) /\ (peer'.client.tls <=> peer.client.tls)
    BY <1>1, <1>2 DEF Client, Site
  <1>4. UNCHANGED <<config, pc, input, wires, ups, ssl, tries, flags, client, history>>
    BY DEF Handshakes, ClientAnswers, SiteAnswers
  <1> QED
    BY <1>3, <1>4 DEF wires, ups, flags, got, opts, client, history

LEMMA ClosesStep ==
    ASSUME ClientCloses \/ SiteCloses
    PROVE  /\ siteUp' => siteUp
           /\ UNCHANGED <<config, pc, input, toBnc, toSite, fromSite, ssl, gotfirstcmd,
                          gotusercmd, gotpasscmd, gotwelcomemsg, relinked, usingssl, sslprotp,
                          transfertype, sscn, sent, due, asked, told, believes, peer,
                          ahead, lateauth, refused, lost>>
  BY DEF ClientCloses, SiteCloses, wires, flags, got, opts, client, history

\* The site answers one command with one line or a long welcome message, or
\* is only told an address, or closes.
SiteLine(line) ==
    /\ line \in Replies \ {"230-", "221-", "220"} /\ <<line>> \in Answers(Head(toSite))
    /\ line = "230" => Head(toSite) = "PASS" /\ peer.site.user /\ ~peer.site.in
    /\ Head(toSite) # "IDNT"
    /\ toSite' = Tail(toSite) /\ fromSite' = Append(fromSite, line)
    /\ peer'.site.tls <=> peer.site.tls \/ line \in AuthDone
    /\ peer'.site.user <=> (peer.site.user \/ line = "331") /\ line # "denied"
    /\ peer'.site.in <=> peer.site.in \/ line = "230"
    /\ refused' = refused \cup (IF line \in {"no", "530", "denied"}
                                THEN {IF Head(toSite) \in {"USER", "PASS"}
                                      THEN "login" ELSE "option"}
                                ELSE {})
    /\ siteUp' = siteUp

SiteWelcomes ==
    /\ Head(toSite) = "PASS" /\ peer.site.user /\ ~peer.site.in
    /\ toSite' = Tail(toSite) /\ fromSite' = fromSite \o <<"230-", "230">>
    /\ (peer'.site.tls <=> peer.site.tls) /\ (peer'.site.user <=> peer.site.user) /\ peer'.site.in
    /\ refused' = refused /\ siteUp' = siteUp

SiteKeeps ==
    /\ fromSite' = fromSite /\ refused' = refused
    /\ (peer'.site.tls <=> peer.site.tls) /\ (peer'.site.user <=> peer.site.user)
    /\ (peer'.site.in <=> peer.site.in)
    /\ \/ siteUp' = FALSE /\ toSite' = <<>>
       \/ Head(toSite) = "IDNT" /\ toSite' = Tail(toSite) /\ siteUp' = siteUp

LEMMA AppendOne ==
    ASSUME NEW S, NEW s \in Seq(S), NEW x \in S PROVE s \o <<x>> = Append(s, x)
  OBVIOUS

LEMMA SiteSays ==
    ASSUME TypeOK, SiteHandles
    PROVE  /\ siteUp /\ toSite # <<>> /\ Head(toSite) \in AllCommands
           /\ Tail(toSite) \in Seq(AllCommands)
           /\ UNCHANGED <<config, pc, input, toBnc, ssl, gotfirstcmd,
                          gotusercmd, gotpasscmd, gotwelcomemsg, relinked, usingssl, sslprotp,
                          transfertype, sscn, sent, due, asked, told, believes,
                          ahead, lateauth, lost>>
           /\ peer'.client = peer.client
           /\ SiteKeeps \/ SiteWelcomes \/ \E line \in Replies : SiteLine(line)
  <1>1. /\ siteUp /\ toSite # <<>> /\ Head(toSite) \in AllCommands
        /\ UNCHANGED <<config, pc, input, toBnc, clientUp, ssl, tries, flags, client,
                       ahead, lateauth, lost>>
    BY SiteHandlesStep
  <1>2. /\ toSite \in Seq(AllCommands) /\ fromSite \in Seq(Replies)
        /\ Tail(toSite) \in Seq(AllCommands)
    BY <1>1, HeadTail DEF TypeOK
  <1>3. peer \in [client : Client, site : Site] /\ refused \subseteq {"login", "option"}
    BY DEF TypeOK
  <1>4. CASE siteUp' = FALSE /\ toSite' = <<>> /\ UNCHANGED <<fromSite, peer, refused>>
    <2>1. SiteKeeps
      BY <1>4 DEF SiteKeeps
    <2> QED
      BY <1>1, <1>2, <1>4, <2>1 DEF flags, got, opts, client
  <1> DEFINE said(lines, line) == \E i \in DOMAIN lines : lines[i] = line
  <1>5. ASSUME toSite' = Tail(toSite), siteUp' = siteUp,
               NEW lines \in Answers(Head(toSite)), fromSite' = fromSite \o lines,
               peer' = [peer EXCEPT !.site.tls  = @ \/ said(lines, "234 TLS")
                                                     \/ said(lines, "234 SSL"),
                                    !.site.user = (@ \/ said(lines, "331"))
                                                     /\ ~said(lines, "denied"),
                                    !.site.in   = @ \/ said(lines, "230")],
               refused' = refused \cup
                            (IF \E line \in {"no", "530", "denied"} : said(lines, line)
                             THEN {IF Head(toSite) \in {"USER", "PASS"} THEN "login" ELSE "option"}
                             ELSE {})
        PROVE  /\ peer'.client = peer.client
               /\ SiteKeeps \/ SiteWelcomes \/ \E line \in Replies : SiteLine(line)
    <2>1. /\ peer'.client = peer.client
          /\ peer'.site.tls <=> \/ peer.site.tls \/ said(lines, "234 TLS")
                                \/ said(lines, "234 SSL")
          /\ peer'.site.user <=> (peer.site.user \/ said(lines, "331")) /\ ~said(lines, "denied")
          /\ peer'.site.in <=> peer.site.in \/ said(lines, "230")
          /\ peer'.site.tls \in BOOLEAN /\ peer'.site.user \in BOOLEAN /\ peer'.site.in \in BOOLEAN
          /\ peer.site.tls \in BOOLEAN /\ peer.site.user \in BOOLEAN /\ peer.site.in \in BOOLEAN
      <3>1. peer.site \in Site /\ peer' \in [client : Client, site : Site]
        BY <1>3, SiteHandlesType DEF TypeOK
      <3>2. /\ peer.site.tls \in BOOLEAN /\ peer.site.user \in BOOLEAN /\ peer.site.in \in BOOLEAN
            /\ peer'.site.tls \in BOOLEAN /\ peer'.site.user \in BOOLEAN
            /\ peer'.site.in \in BOOLEAN
        BY <3>1 DEF Site
      <3> HIDE DEF said
      <3>3. peer'.site.tls = (peer.site.tls \/ said(lines, "234 TLS") \/ said(lines, "234 SSL"))
        BY <1>3, <1>5 DEF Site
      <3>4. peer'.site.user = ((peer.site.user \/ said(lines, "331")) /\ ~said(lines, "denied"))
        BY <1>3, <1>5 DEF Site
      <3>5. peer'.site.in = (peer.site.in \/ said(lines, "230")) /\ peer'.client = peer.client
        BY <1>3, <1>5 DEF Site
      <3> QED
        BY <3>2, <3>3, <3>4, <3>5
    <2>2. CASE lines = <<>> /\ Head(toSite) = "IDNT"
      <3>1. \A line : ~said(lines, line)
        BY <2>2
      <3>2. fromSite' = fromSite
        BY <1>2, <1>5, <2>2
      <3> HIDE DEF said
      <3>3. refused' = refused
        BY <1>3, <1>5, <3>1
      <3>4. SiteKeeps
        BY <1>5, <2>1, <2>2, <3>1, <3>2, <3>3 DEF SiteKeeps
      <3> QED
        BY <2>1, <3>4
    <2>3. CASE /\ lines = <<"230-", "230">> /\ Head(toSite) = "PASS"
               /\ peer.site.user /\ ~peer.site.in
      <3>1. \A line : said(lines, line) <=> line \in {"230-", "230"}
        BY <2>3
      <3>5. /\ ~said(lines, "234 TLS") /\ ~said(lines, "234 SSL") /\ ~said(lines, "331")
            /\ ~said(lines, "denied") /\ said(lines, "230")
        <4>1. \A i \in DOMAIN lines : lines[i] \in {"230-", "230"}
          BY <2>3
        <4>2. said(lines, "230")
          BY <2>3
        <4> QED
          BY <4>1, <4>2
      <3> HIDE DEF said
      <3>2. refused' = refused
        BY <1>3, <1>5, <3>1
      <3>4. /\ (peer'.site.tls <=> peer.site.tls) /\ (peer'.site.user <=> peer.site.user)
            /\ peer'.site.in
        BY <2>1, <3>5
      <3>3. SiteWelcomes
        BY <1>5, <2>3, <3>2, <3>4 DEF SiteWelcomes
      <3> QED
        BY <2>1, <3>3
    <2>4. ASSUME NEW x \in Replies \ {"230-", "221-", "220"},
                 lines = <<x>>, Head(toSite) # "IDNT",
                 x = "230" => Head(toSite) = "PASS" /\ peer.site.user /\ ~peer.site.in
          PROVE  SiteLine(x)
      <3>1. \A line : said(lines, line) <=> line = x
        BY <2>4
      <3>2. fromSite' = Append(fromSite, x)
        BY <1>2, <1>5, <2>4, AppendOne
      <3> HIDE DEF said
      <3>3. refused' = refused \cup (IF x \in {"no", "530", "denied"}
                                     THEN {IF Head(toSite) \in {"USER", "PASS"}
                                           THEN "login" ELSE "option"}
                                     ELSE {})
        BY <1>5, <3>1
      <3> QED
        BY <1>5, <2>1, <2>4, <3>1, <3>2, <3>3 DEF SiteLine, AuthDone
    <2> QED
      BY <1>1, <1>5, <2>1, <2>2, <2>3, <2>4, AnswersType
  <1> QED
    BY <1>1, <1>2, <1>4, <1>5, SiteHandlesStep DEF flags, got, opts, client

\* The steps that do not end the session.
Steps ==
    \/ CheckEntry \/ AskIdent \/ ConnectSite \/ SendIdnt \/ ReadIdnt \/ Welcome
    \/ ReadSite \/ ReadClient
    \/ FirstReply \/ UserReply \/ PassReply \/ OtherReply
    \/ SslConnect \/ SslAccept
    \/ RelinkSite \/ TellFailure \/ AskPass \/ WaitPass \/ TellLoggedIn
    \/ CommandSteps
    \/ ClientSends \/ Handshakes \/ SiteHandles \/ ClientCloses \/ SiteCloses

LEMMA StepCases ==
    ASSUME TypeOK, Next, pc' # "gone" PROVE Steps /\ pc # "gone"
  <1>1. ~RefuseWithoutTls
    BY HeardBy DEF RefuseWithoutTls, Places
  <1>2. Steps
    BY <1>1 DEF Next, Control, Start, Loop, Reply, Trytls, Tryrelink, Command, CommandSteps,
       Peers, Steps
  <1>3. pc # "gone"
    <2>1. CASE Peers
      BY <2>1, ClientSendsStep, HandshakesStep, SiteSays, ClosesStep DEF Peers
    <2>2. CASE Start \/ Loop \/ Reply
      BY <2>2 DEF Start, Loop, Reply, CheckEntry, AskIdent, ConnectSite, SendIdnt, ReadIdnt,
         Welcome, ReadSite, ReadClient, FirstReply, UserReply, PassReply, RefuseWithoutTls,
         OtherReply
    <2>3. CASE Trytls \/ Tryrelink
      BY <2>3 DEF Trytls, Tryrelink, SslConnect, SslAccept, RelinkSite, TellFailure, AskPass,
         WaitPass, TellLoggedIn
    <2>4. CASE Command
      BY <2>4 DEF Command, RefuseIdnt, Auth, Prot, Type, BeforeUser, BeforePass, Quit, Sscn,
         OtherCommand
    <2> QED
      BY <2>1, <2>2, <2>3, <2>4 DEF Next, Control
  <1> QED
    BY <1>2, <1>3

-----------------------------------------------------------------------------
(* What is on its way *)

Among(x, s) == \E i \in DOMAIN s : s[i] = x

LEMMA AmongNothing ==
    ASSUME NEW x PROVE ~Among(x, <<>>)
  BY DEF Among

LEMMA AmongTail ==
    ASSUME NEW S, NEW s \in Seq(S), s # <<>>
    PROVE  \A x : Among(x, s) <=> x = Head(s) \/ Among(x, Tail(s))
  <1> TAKE x
  <1>1. /\ 1 \in DOMAIN s /\ s[1] = Head(s)
        /\ \A i \in DOMAIN Tail(s) : i + 1 \in DOMAIN s /\ Tail(s)[i] = s[i + 1]
        /\ \A i \in DOMAIN s : i = 1 \/ (i - 1 \in DOMAIN Tail(s) /\ Tail(s)[i - 1] = s[i])
    OBVIOUS
  <1> QED
    BY <1>1 DEF Among

LEMMA AmongAppend ==
    ASSUME NEW S, NEW s \in Seq(S), NEW y \in S
    PROVE  \A x : Among(x, Append(s, y)) <=> x = y \/ Among(x, s)
  <1> TAKE x
  <1>1. /\ \A i \in DOMAIN s : i \in DOMAIN Append(s, y) /\ Append(s, y)[i] = s[i]
        /\ Len(s) + 1 \in DOMAIN Append(s, y) /\ Append(s, y)[Len(s) + 1] = y
        /\ \A i \in DOMAIN Append(s, y) : i \in DOMAIN s \/ i = Len(s) + 1
    OBVIOUS
  <1> QED
    BY <1>1 DEF Among

\* The long welcome message is two lines.
LEMMA LongWelcome ==
    ASSUME NEW s \in Seq(Replies)
    PROVE  /\ s \o <<"230-", "230">> = Append(Append(s, "230-"), "230")
           /\ {"230-", "230"} \subseteq Replies /\ Append(s, "230-") \in Seq(Replies)
  <1>1. {"230-", "230"} \subseteq Replies
    BY DEF Replies, LoginReplies
  <1>2. Append(s, "230-") \in Seq(Replies)
    BY <1>1
  <1>3. s \o <<"230-", "230">> = Append(Append(s, "230-"), "230")
    BY <1>1
  <1> QED
    BY <1>1, <1>2, <1>3

LEMMA AmongWelcome ==
    ASSUME NEW s \in Seq(Replies)
    PROVE  \A x : Among(x, s \o <<"230-", "230">>) <=> x \in {"230-", "230"} \/ Among(x, s)
  <1>1. \A x : Among(x, Append(s, "230-")) <=> x = "230-" \/ Among(x, s)
    BY LongWelcome, AmongAppend
  <1>2. \A x : Among(x, Append(Append(s, "230-"), "230"))
                 <=> x = "230" \/ Among(x, Append(s, "230-"))
    BY LongWelcome, AmongAppend
  <1> QED
    BY <1>1, <1>2, LongWelcome

LEMMA AmongIdnts ==
    \A x : Among(x, Idnts) => x = "IDNT"
  BY IdntFacts DEF Among

\* No PASS comes after a USER.
NoPassAfterUser(s) ==
    \A j \in DOMAIN s : s[j] = "PASS" => \A i \in DOMAIN s : i < j => s[i] # "USER"

LEMMA OrderTail ==
    ASSUME NEW S, NEW s \in Seq(S), s # <<>>, NoPassAfterUser(s)
    PROVE  /\ NoPassAfterUser(Tail(s))
           /\ Head(s) = "USER" => ~Among("PASS", Tail(s))
  <1>1. /\ 1 \in DOMAIN s /\ s[1] = Head(s)
        /\ \A i \in DOMAIN Tail(s) : /\ i \in Nat /\ i > 0 /\ i + 1 \in DOMAIN s
                                     /\ Tail(s)[i] = s[i + 1]
    OBVIOUS
  <1> QED
    BY <1>1 DEF NoPassAfterUser, Among

LEMMA OrderAppend ==
    ASSUME NEW S, NEW s \in Seq(S), NEW y \in S, NoPassAfterUser(s),
           y = "PASS" => ~Among("USER", s)
    PROVE  NoPassAfterUser(Append(s, y))
  <1>1. /\ \A i \in DOMAIN s : /\ i \in Nat /\ i < Len(s) + 1
                               /\ Append(s, y)[i] = s[i]
        /\ Append(s, y)[Len(s) + 1] = y /\ Len(s) \in Nat
        /\ \A i \in DOMAIN Append(s, y) : i \in DOMAIN s \/ i = Len(s) + 1
    OBVIOUS
  <1> QED
    BY <1>1 DEF NoPassAfterUser, Among

\* Nothing is on its way in both, or nobody is asked.
LEMMA OrderNothing ==
    NoPassAfterUser(<<>>)
  BY DEF NoPassAfterUser

LEMMA OrderWithoutPass ==
    ASSUME NEW s, ~Among("PASS", s) PROVE NoPassAfterUser(s)
  BY DEF NoPassAfterUser, Among

-----------------------------------------------------------------------------
(* The stages of a session *)

Starting     == pc \in {"entry", "ident", "connect", "idnt", "readidnt"}
RelinkPlaces == {"relink0", "relink1", "failed0", "failed1", "ask331", "askpass", "tell230"}
Moved        == relinked \/ pc \in RelinkPlaces

\* The site has said the line, and it is not passed on yet.
Has(line) == Among(line, fromSite) \/ (pc = "reply" /\ input = line)

Stage ==
    /\ InputRead
    /\ pc \in {"entry", "ident", "connect"} => toSite = <<>> /\ fromSite = <<>>
    /\ pc = "idnt" => toSite = <<>>
    /\ pc \in {"idnt", "readidnt", "welcome"} =>
         /\ \A x : Among(x, toSite) => x = "IDNT"
         /\ \A x : Among(x, fromSite) => x = "220"
    /\ Starting \/ pc = "welcome" => told = "none" /\ ~Moved
    /\ pc \in RelinkPlaces => gotusercmd /\ ~relinked
    /\ pc \in {"relink0", "relink1"} => ~lost
    /\ relinked => gotwelcomemsg
    /\ gotwelcomemsg => gotpasscmd
    /\ gotpasscmd => gotusercmd
    /\ lost => Moved
    /\ ~Has("221-")

\* Before PASS the site has not let anybody in, as it has seen no PASS after USER.
LoginOrder ==
    ~Moved =>
      /\ peer.site.user \/ Among("USER", toSite) => gotusercmd
      /\ ~gotpasscmd =>
           /\ ~peer.site.in /\ ~Has("230-") /\ ~Has("230")
           /\ NoPassAfterUser(toSite) /\ ~(Among("PASS", toSite) /\ peer.site.user)

\* Who was told 230 is in, or the login at the relink site has failed.
ToldIsIn ==
    pc \notin {"relink0", "relink1"} /\ siteUp =>
      /\ Has("230") \/ told = "230" => peer.site.in \/ lost
      /\ pc \in RelinkPlaces => peer.site.in \/ lost

LoginInv == TypeOK /\ (pc # "gone" => Stage /\ LoginOrder /\ ToldIsIn)

LEMMA LoginInit ==
    ASSUME Init PROVE LoginInv
  <1>1. TypeOK
    BY InitType
  <1>2. /\ pc = "entry" /\ toSite = <<>> /\ fromSite = <<>> /\ told = "none" /\ ~lost
        /\ ~gotusercmd /\ ~gotpasscmd /\ ~gotwelcomemsg /\ ~relinked /\ siteUp = FALSE
        /\ peer.site = NewSite
    BY DEF Init
  <1>3. peer.site.user = FALSE /\ peer.site.in = FALSE
    BY <1>2 DEF NewSite
  <1>4. \A x : ~Among(x, <<>>)
    BY AmongNothing
  <1>5. Stage
    BY <1>2, <1>4 DEF Stage, InputRead, Starting, Moved, RelinkPlaces, Has
  <1>6. LoginOrder
    BY <1>2, <1>3, <1>4, OrderNothing DEF LoginOrder, Moved, RelinkPlaces, Has
  <1>7. ToldIsIn
    BY <1>2 DEF ToldIsIn
  <1> QED
    BY <1>1, <1>5, <1>6, <1>7 DEF LoginInv

LEMMA EndlineFacts ==
    ASSUME NEW line PROVE Endline(line) <=> line # "230-" /\ line # "221-"
  BY DEF Endline

LEMMA HeardLogin ==
    ASSUME NEW line, Heard(line)
    PROVE  /\ told' = told \/ told' = line
           /\ peer'.site = peer.site
           /\ line \notin LoginReplies => told' = told
  BY DEF Heard

LEMMA FromTail ==
    ASSUME TypeOK, fromSite # <<>>
    PROVE  \A x : Among(x, fromSite) <=> x = Head(fromSite) \/ Among(x, Tail(fromSite))
  <1>1. fromSite \in Seq(Replies)
    BY DEF TypeOK
  <1> QED
    BY <1>1, AmongTail

LEMMA ToTail ==
    ASSUME TypeOK, toSite # <<>>
    PROVE  \A x : Among(x, toSite) <=> x = Head(toSite) \/ Among(x, Tail(toSite))
  <1>1. toSite \in Seq(AllCommands)
    BY DEF TypeOK
  <1> QED
    BY <1>1, AmongTail

LEMMA ToAppend ==
    ASSUME TypeOK, NEW cmd \in AllCommands, toSite' = Append(toSite, cmd)
    PROVE  \A x : Among(x, toSite') <=> x = cmd \/ Among(x, toSite)
  <1>1. toSite \in Seq(AllCommands)
    BY DEF TypeOK
  <1> QED
    BY <1>1, AmongAppend

\* A reply that is read is no longer on its way.
LEMMA ReadReply ==
    ASSUME TypeOK, ReadSite, pc' # "gone" PROVE \A line : Has(line)' <=> Has(line)
  <1>1. pc \in {"select", "sslsite"}
    BY ReadSiteStep
  <1>2. CASE /\ pc' = "reply" /\ fromSite # <<>> /\ input' = Head(fromSite)
             /\ fromSite' = Tail(fromSite)
    BY <1>1, <1>2, FromTail DEF Has
  <1>3. CASE pc' \in {"select", "sslsite"} /\ fromSite' = fromSite
    BY <1>1, <1>3 DEF Has
  <1> QED
    BY <1>2, <1>3, ReadSiteStep

\* What the site has said after it handled a command.
LEMMA SaidLine ==
    ASSUME TypeOK, NEW line \in Replies, SiteLine(line), pc' = pc, input' = input
    PROVE  \A x : Has(x)' <=> x = line \/ Has(x)
  <1>1. fromSite \in Seq(Replies) /\ fromSite' = Append(fromSite, line)
    BY DEF TypeOK, SiteLine
  <1>2. \A x : Among(x, fromSite') <=> x = line \/ Among(x, fromSite)
    BY <1>1, AmongAppend
  <1> QED
    BY <1>2 DEF Has

LEMMA SaidWelcome ==
    ASSUME TypeOK, SiteWelcomes, pc' = pc, input' = input
    PROVE  \A x : Has(x)' <=> x \in {"230-", "230"} \/ Has(x)
  <1>1. fromSite \in Seq(Replies) /\ fromSite' = fromSite \o <<"230-", "230">>
    BY DEF TypeOK, SiteWelcomes
  <1>2. \A x : Among(x, fromSite') <=> x \in {"230-", "230"} \/ Among(x, fromSite)
    BY <1>1, AmongWelcome
  <1> QED
    BY <1>2 DEF Has

\* Up to the welcome message
LEMMA StageStart ==
    ASSUME TypeOK, Stage, pc' # "gone",
           CheckEntry \/ AskIdent \/ ConnectSite \/ SendIdnt \/ ReadIdnt \/ Welcome
    PROVE  Stage'
  <1>1. CASE CheckEntry \/ AskIdent
    BY <1>1, BeginStep DEF Stage, InputRead, Starting, Moved, RelinkPlaces, Has, Silent
  <1>2. CASE ConnectSite
    <2>1. \A x : Among(x, fromSite') => x = "220"
      <3>1. fromSite' = <<>> \/ fromSite' = <<"220">>
        BY <1>2, ConnectSiteStep
      <3> QED
        BY <3>1 DEF Among
    <2>2. \A x : ~Among(x, <<>>)
      BY AmongNothing
    <2> QED
      BY <1>2, <2>1, <2>2, ConnectSiteStep
      DEF Stage, InputRead, Starting, Moved, RelinkPlaces, Has, Silent
  <1>3. CASE SendIdnt
    <2>1. \A x : Among(x, toSite') => x = "IDNT"
      <3>1. Idnts \in Seq(AllCommands) /\ toSite' = <<>> \o Idnts
        BY <1>3, SendIdntStep, IdntFacts DEF Stage
      <3>2. toSite' = Idnts
        BY <3>1
      <3> QED
        BY <3>2, AmongIdnts
    <2> QED
      BY <1>3, <2>1, SendIdntStep
      DEF Stage, InputRead, Starting, Moved, RelinkPlaces, Has, Silent
  <1>4. CASE ReadIdnt
    <2>1. \A x : Among(x, toSite') => x = "IDNT"
      <3>1. toSite \in Seq(AllCommands) /\ "IDNT" \in AllCommands
        BY DEF TypeOK, AllCommands
      <3>2. toSite' = Append(toSite, "IDNT") /\ pc = "readidnt"
        BY <1>4, ReadIdntStep DEF SentOn
      <3> QED
        BY <3>1, <3>2, AmongAppend DEF Stage
    <2> QED
      BY <1>4, <2>1, ReadIdntStep
      DEF Stage, InputRead, Starting, Moved, RelinkPlaces, Has, SentOn
  <1>5. CASE Welcome
    <2>1. pc = "welcome" /\ fromSite # <<>> /\ fromSite' = Tail(fromSite)
      BY <1>5, WelcomeStep
    <2>3. \A x : Among(x, fromSite) => x = "220"
      BY <2>1 DEF Stage
    <2>2. Head(fromSite) = "220" /\ \A x : Among(x, fromSite') => x = "220"
      BY <2>1, <2>3, FromTail
    <2> QED
      BY <1>5, <2>2, WelcomeStep
      DEF Stage, InputRead, Starting, Moved, RelinkPlaces, Has
  <1> QED
    BY <1>1, <1>2, <1>3, <1>4, <1>5

\* What the loop reads, and a reply of the site
LEMMA StageRead ==
    ASSUME TypeOK, Stage, LoginOrder, pc' # "gone",
           ReadSite \/ ReadClient \/ FirstReply \/ UserReply \/ PassReply \/ OtherReply
    PROVE  Stage'
  <1>1. CASE ReadSite
    <2>1. ~Has("221-")'
      BY <1>1, ReadReply DEF Stage
    <2> QED
      BY <1>1, <2>1, ReadSiteStep DEF Stage, InputRead, Starting, Moved, RelinkPlaces
  <1>2. CASE ReadClient
    BY <1>2, ReadClientStep DEF Stage, InputRead, Starting, Moved, RelinkPlaces, Has
  <1>3. CASE FirstReply \/ UserReply \/ PassReply \/ OtherReply
    <2>1. /\ pc = "reply" /\ input' = "none"
          /\ UNCHANGED <<toSite, fromSite, gotusercmd, gotpasscmd, relinked, lost>>
          /\ gotwelcomemsg' <=> gotwelcomemsg \/ (gotusercmd /\ gotpasscmd /\ Endline(input))
      BY <1>3, ReplyStep
    <2>2. pc' \in {"select", "needtls", "sslconnect"} \/ (gotusercmd /\ ~relinked /\ ~lost
                                                          /\ pc' \in {"relink0", "relink1"})
      BY <1>3, <2>1, ReplyStep
      DEF ReplyPassed, ReplyRelinks, Stage, Moved, RelinkPlaces
    <2> QED
      BY <2>1, <2>2 DEF Stage, InputRead, Starting, Moved, RelinkPlaces, Has
  <1> QED
    BY <1>1, <1>2, <1>3

\* trytls and tryrelink
LEMMA StageTls ==
    ASSUME TypeOK, Stage, pc' # "gone",
           SslConnect \/ SslAccept \/ RelinkSite \/ TellFailure \/ AskPass \/ WaitPass
           \/ TellLoggedIn
    PROVE  Stage'
  <1>1. CASE SslConnect
    BY <1>1, SslConnectStep DEF Stage, InputRead, Starting, Moved, RelinkPlaces, Has
  <1>2. CASE SslAccept
    BY <1>2, SslAcceptStep DEF Stage, InputRead, Starting, Moved, RelinkPlaces, Has
  <1>3. CASE RelinkSite
    <2>1. ~Has("221-")'
      BY <1>3, RelinkedStep, AmongNothing DEF Has
    <2> QED
      BY <1>3, <2>1, RelinkedStep DEF Stage, InputRead, Starting, Moved, RelinkPlaces
  <1>4. CASE TellFailure
    BY <1>4, ToldFailureStep DEF Stage, InputRead, Starting, Moved, RelinkPlaces, Has
  <1>5. CASE AskPass
    BY <1>5, AskPassStep DEF Stage, InputRead, Starting, Moved, RelinkPlaces, Has
  <1>6. CASE WaitPass
    BY <1>6, WaitPassStep DEF Stage, InputRead, Starting, Moved, RelinkPlaces, Has
  <1>7. CASE TellLoggedIn
    BY <1>7, TellLoggedInStep DEF Stage, InputRead, Starting, Moved, RelinkPlaces, Has
  <1> QED
    BY <1>1, <1>2, <1>3, <1>4, <1>5, <1>6, <1>7

\* Where a command leaves the thread.
LEMMA CommandPlaces ==
    ASSUME TypeOK, CommandSteps, pc' # "gone"
    PROVE  /\ pc \in {"command", "quit"} /\ pc' \in {"select", "quit"} /\ input' = "none"
           /\ gotusercmd => gotusercmd'
           /\ gotpasscmd => gotpasscmd'
           /\ gotpasscmd' => gotpasscmd \/ gotusercmd'
           /\ UNCHANGED <<config, toBnc, fromSite, siteUp, gotwelcomemsg, relinked, usingssl,
                          ahead, lateauth, refused, lost>>
  BY CommandCases, MembersStep DEF Answered, PassedOn, Quits, MembersSet

\* The commands, and the peers
LEMMA StagePeers ==
    ASSUME TypeOK, Stage, pc' # "gone",
           CommandSteps \/ ClientSends \/ Handshakes \/ SiteHandles \/ ClientCloses \/ SiteCloses
    PROVE  Stage'
  <1>1. CASE CommandSteps
    BY <1>1, CommandPlaces DEF Stage, InputRead, Starting, Moved, RelinkPlaces, Has
  <1>2. CASE ClientSends
    BY <1>2, ClientSendsStep DEF Stage, InputRead, Starting, Moved, RelinkPlaces, Has
  <1>3. CASE Handshakes
    BY <1>3, HandshakesStep DEF Stage, InputRead, Starting, Moved, RelinkPlaces, Has
  <1>4. CASE SiteHandles
    <2>1. /\ toSite # <<>>
          /\ UNCHANGED <<config, pc, input, gotusercmd, gotpasscmd, gotwelcomemsg, relinked,
                         told, lost>>
      BY <1>4, SiteSays
    <2>2. Among(Head(toSite), toSite)
      BY <2>1, ToTail
    <2>3. ~Has("221-")' /\ \A x : Among(x, toSite') => Among(x, toSite)
      <3>1. CASE SiteKeeps
        BY <2>1, <3>1, ToTail, AmongNothing DEF SiteKeeps, Has, Stage
      <3>2. CASE SiteWelcomes
        BY <2>1, <3>2, ToTail, SaidWelcome DEF SiteWelcomes, Stage
      <3>3. ASSUME NEW line \in Replies, SiteLine(line)
            PROVE  ~Has("221-")' /\ \A x : Among(x, toSite') => Among(x, toSite)
        BY <2>1, <3>3, ToTail, SaidLine DEF SiteLine, Stage
      <3> QED
        BY <1>4, <3>1, <3>2, <3>3, SiteSays
    <2>4. pc \in {"idnt", "readidnt", "welcome"} => fromSite' = fromSite
      BY <1>4, <2>2, SiteSays DEF SiteKeeps, SiteWelcomes, SiteLine, Stage
    <2> QED
      BY <2>1, <2>3, <2>4 DEF Stage, InputRead, Starting, Moved, RelinkPlaces
  <1>5. CASE ClientCloses \/ SiteCloses
    BY <1>5, ClosesStep DEF Stage, InputRead, Starting, Moved, RelinkPlaces, Has
  <1> QED
    BY <1>1, <1>2, <1>3, <1>4, <1>5

LEMMA StageStep ==
    ASSUME TypeOK, Stage, LoginOrder, Steps, pc' # "gone" PROVE Stage'
  BY StageStart, StageRead, StageTls, StagePeers DEF Steps

\* A step that changes nothing at the site and has it say nothing new.
LEMMA OrderKept ==
    ASSUME LoginOrder, ~Moved' => ~Moved, toSite' = toSite,
           (peer'.site.user <=> peer.site.user), (peer'.site.in <=> peer.site.in),
           gotusercmd => gotusercmd', gotpasscmd => gotpasscmd',
           Has("230-")' => Has("230-"), Has("230")' => Has("230")
    PROVE  LoginOrder'
  BY DEF LoginOrder

LEMMA ToldKept ==
    ASSUME ToldIsIn, pc \notin {"relink0", "relink1"}, siteUp' => siteUp, lost => lost',
           peer.site.in => peer'.site.in, Has("230")' => Has("230"),
           told' = "230" => told = "230" \/ Has("230"),
           pc' \in RelinkPlaces \ {"relink0", "relink1"} => pc \in RelinkPlaces
    PROVE  ToldIsIn'
  BY DEF ToldIsIn

LEMMA OrderStart ==
    ASSUME TypeOK, Stage, LoginOrder, ToldIsIn, pc' # "gone",
           CheckEntry \/ AskIdent \/ ConnectSite \/ SendIdnt \/ ReadIdnt \/ Welcome
    PROVE  LoginOrder' /\ ToldIsIn'
  <1>1. CASE CheckEntry \/ AskIdent
    <2>1. /\ UNCHANGED <<toSite, fromSite, siteUp, told, peer, lost, relinked, gotusercmd,
                         gotpasscmd>>
          /\ pc \in {"entry", "ident"} /\ pc' \in {"ident", "connect"}
      BY <1>1, BeginStep DEF Silent
    <2> QED
      BY <2>1, OrderKept, ToldKept DEF Has, Moved, RelinkPlaces
  <1>2. CASE ConnectSite
    <2>1. /\ UNCHANGED <<toSite, told, peer, lost, relinked, gotusercmd, gotpasscmd>>
          /\ pc = "connect" /\ pc' = "idnt" /\ fromSite' \in {<<>>, <<"220">>}
      BY <1>2, ConnectSiteStep DEF Silent
    <2>2. ~Has("230-")' /\ ~Has("230")'
      <3>1. \A x : Among(x, fromSite') => x = "220"
        BY <2>1 DEF Among
      <3> QED
        BY <2>1, <3>1 DEF Has
    <2>3. LoginOrder'
      BY <2>1, <2>2, OrderKept DEF Moved, RelinkPlaces
    <2>4. ToldIsIn'
      BY <2>1, <2>2 DEF ToldIsIn, Stage, Starting, RelinkPlaces
    <2> QED
      BY <2>3, <2>4
  <1>3. CASE SendIdnt \/ ReadIdnt
    <2>1. /\ UNCHANGED <<fromSite, siteUp, told, peer, lost, relinked, gotusercmd, gotpasscmd>>
          /\ pc \in {"idnt", "readidnt"} /\ pc' \in {"readidnt", "welcome"}
      BY <1>3, SendIdntStep, ReadIdntStep DEF Silent, SentOn
    <2>2. \A x : Among(x, toSite') => x = "IDNT"
      BY <1>3, <2>1, StageStart DEF Stage
    <2>3. NoPassAfterUser(toSite')
      BY <2>2, OrderWithoutPass
    <2>4. LoginOrder'
      BY <2>1, <2>2, <2>3 DEF LoginOrder, Moved, RelinkPlaces, Has
    <2>5. ToldIsIn'
      BY <2>1, ToldKept DEF Has, RelinkPlaces
    <2> QED
      BY <2>4, <2>5
  <1>4. CASE Welcome
    <2>1. /\ UNCHANGED <<toSite, siteUp, lost, relinked, gotusercmd, gotpasscmd>>
          /\ pc = "welcome" /\ pc' = "select" /\ fromSite # <<>> /\ fromSite' = Tail(fromSite)
      BY <1>4, WelcomeStep
    <2>2. PICK line \in {"220", Head(fromSite)} : Heard(line)
      BY <1>4, WelcomeStep
    <2>3. /\ Head(fromSite) = "220" /\ ~Has("230-")' /\ ~Has("230")'
      BY <2>1, FromTail DEF Stage, Has
    <2>4. told' = told /\ peer'.site = peer.site
      BY <2>2, <2>3 DEF Heard, LoginReplies
    <2> QED
      BY <2>1, <2>3, <2>4, OrderKept, ToldKept DEF Moved, RelinkPlaces
  <1> QED
    BY <1>1, <1>2, <1>3, <1>4

LEMMA OrderRead ==
    ASSUME TypeOK, Stage, LoginOrder, ToldIsIn, pc' # "gone",
           ReadSite \/ ReadClient \/ FirstReply \/ UserReply \/ PassReply \/ OtherReply
    PROVE  LoginOrder' /\ ToldIsIn'
  <1>1. CASE ReadSite
    <2>1. /\ UNCHANGED <<toSite, siteUp, told, peer, lost, relinked, gotusercmd, gotpasscmd>>
          /\ pc \in {"select", "sslsite"} /\ pc' \in {"reply", "select", "sslsite"}
      BY <1>1, ReadSiteStep
    <2>2. \A line : Has(line)' <=> Has(line)
      BY <1>1, ReadReply
    <2> QED
      BY <2>1, <2>2, OrderKept, ToldKept DEF Moved, RelinkPlaces
  <1>2. CASE ReadClient
    <2>1. /\ UNCHANGED <<toSite, fromSite, siteUp, told, peer, lost, relinked, gotusercmd,
                         gotpasscmd>>
          /\ pc \in {"select", "sslclient"} /\ pc' \in {"command", "select", "sslclient"}
      BY <1>2, ReadClientStep
    <2> QED
      BY <2>1, OrderKept, ToldKept DEF Has, Moved, RelinkPlaces
  <1>3. CASE FirstReply \/ UserReply \/ PassReply \/ OtherReply
    <2>1. /\ UNCHANGED <<toSite, fromSite, siteUp, lost, relinked, gotusercmd, gotpasscmd>>
          /\ pc = "reply" /\ pc' \in {"select", "needtls", "sslconnect", "relink0", "relink1"}
          /\ peer'.site = peer.site
          /\ told' = "230" => told = "230" \/ Has("230")
      BY <1>3, ReplyStep DEF ReplyPassed, ReplyRelinks, Silent, Heard, Has, LoginReplies
    <2> QED
      BY <2>1, OrderKept, ToldKept DEF Has, Moved, RelinkPlaces
  <1> QED
    BY <1>1, <1>2, <1>3

LEMMA OrderTls ==
    ASSUME TypeOK, Stage, LoginOrder, ToldIsIn, pc' # "gone",
           SslConnect \/ SslAccept \/ RelinkSite \/ TellFailure \/ AskPass \/ WaitPass
           \/ TellLoggedIn
    PROVE  LoginOrder' /\ ToldIsIn'
  <1>1. CASE SslConnect \/ SslAccept
    <2>1. /\ UNCHANGED <<toSite, fromSite, siteUp, told, peer, lost, relinked, gotusercmd,
                         gotpasscmd>>
          /\ pc \in {"sslconnect", "sslaccept"} /\ pc' \in {"sslconnect", "sslaccept", "select"}
      BY <1>1, SslConnectStep, SslAcceptStep
    <2> QED
      BY <2>1, OrderKept, ToldKept DEF Has, Moved, RelinkPlaces
  <1>2. CASE RelinkSite
    <2>1. /\ pc' \in {"failed0", "failed1", "ask331", "tell230"}
          /\ lost' <=> ~peer'.site.in
      BY <1>2, RelinkedStep
    <2> QED
      BY <2>1 DEF LoginOrder, ToldIsIn, Moved, RelinkPlaces
  <1>3. CASE TellFailure \/ AskPass \/ WaitPass
    <2>1. /\ UNCHANGED <<fromSite, siteUp, lost>> /\ input' = "none"
          /\ pc \in RelinkPlaces \ {"relink0", "relink1"}
          /\ pc' \in RelinkPlaces \ {"relink0", "relink1"}
          /\ told' = "230" => told = "230"
          /\ peer'.site = peer.site
      BY <1>3, ToldFailureStep, AskPassStep, WaitPassStep DEF Silent, Heard, RelinkPlaces
    <2>2. LoginOrder'
      BY <2>1 DEF LoginOrder, Moved
    <2>3. ToldIsIn'
      BY <2>1, ToldKept DEF Has, RelinkPlaces
    <2> QED
      BY <2>2, <2>3
  <1>4. CASE TellLoggedIn
    <2>1. /\ UNCHANGED <<fromSite, siteUp, lost>> /\ input' = "none"
          /\ pc = "tell230" /\ pc' = "select" /\ relinked'
          /\ peer'.site = peer.site
      BY <1>4, TellLoggedInStep DEF Heard
    <2> QED
      BY <2>1 DEF LoginOrder, ToldIsIn, Moved, RelinkPlaces, Has
  <1> QED
    BY <1>1, <1>2, <1>3, <1>4

LEMMA ForwardedFacts ==
    ASSUME NEW cmd \in AllCommands
    PROVE  /\ Forwarded(cmd) \in AllCommands
           /\ \A c \in AllCommands \ AuthCommands : Forwarded(cmd) = c <=> cmd = c
           /\ Forwarded(cmd) \in AuthCommands <=> cmd \in AuthCommands
  BY DEF Forwarded, AllCommands, AuthCommands

\* 331 is said to USER only.
LEMMA UserAnswer ==
    ASSUME NEW cmd \in AllCommands, <<"331">> \in Answers(cmd) PROVE cmd = "USER"
  <1>1. \A line \in {"no", "200", "221", "230", "530", "full", "234 TLS", "234 SSL"} :
           <<"331">> # <<line>>
    OBVIOUS
  <1>2. <<"331">> # <<>> /\ <<"331">> # <<"230-", "230">>
    OBVIOUS
  <1> QED
    BY <1>1, <1>2 DEF Answers, No

LEMMA OrderCommand ==
    ASSUME TypeOK, Stage, LoginOrder, ToldIsIn, pc' # "gone", CommandSteps
    PROVE  LoginOrder' /\ ToldIsIn'
  <1>1. /\ pc \in {"command", "quit"} /\ pc' \in {"select", "quit"} /\ input' = "none"
        /\ gotusercmd => gotusercmd'
        /\ gotpasscmd => gotpasscmd'
        /\ UNCHANGED <<fromSite, siteUp, relinked, lost>>
    BY CommandPlaces
  <1>2. /\ \A line : Has(line)' => Has(line)
        /\ Moved' <=> Moved
        /\ pc' \notin RelinkPlaces
    BY <1>1 DEF Has, Moved, RelinkPlaces
  <1>3. ASSUME toSite' = toSite, NEW line \in {"500", "200", "221-"}, Heard(line)
        PROVE  LoginOrder' /\ ToldIsIn'
    <2>1. peer'.site = peer.site /\ told' = told
      BY <1>3 DEF Heard, LoginReplies
    <2>2. LoginOrder'
      BY <1>1, <1>2, <1>3, <2>1, OrderKept
    <2>3. ToldIsIn'
      BY <1>1, <1>2, <2>1, ToldKept
    <2> QED
      BY <2>2, <2>3
  <1>9. CASE Answered
    BY <1>3, <1>9 DEF Answered
  <1>4. ASSUME NEW cmd \in AllCommands, SentOn(cmd),
               cmd = "USER" => gotusercmd',
               cmd = "PASS" => gotpasscmd' \/ ~gotusercmd
        PROVE  LoginOrder' /\ ToldIsIn'
    <2>1. /\ toSite' = Append(toSite, cmd) /\ peer' = peer /\ told' = told
      BY <1>4 DEF SentOn
    <2>2. \A x : Among(x, toSite') <=> x = cmd \/ Among(x, toSite)
      BY <2>1, ToAppend
    <2>3. ASSUME ~Moved', ~gotpasscmd'
          PROVE  /\ ~peer.site.in /\ ~Has("230-")' /\ ~Has("230")'
                 /\ NoPassAfterUser(toSite')
                 /\ ~(Among("PASS", toSite') /\ peer.site.user)
      <3>1. ~gotpasscmd /\ ~Moved
        BY <1>1, <1>2, <2>3
      <3>2. toSite \in Seq(AllCommands) /\ NoPassAfterUser(toSite)
        BY <3>1 DEF TypeOK, LoginOrder
      <3>3. cmd = "PASS" => ~Among("USER", toSite) /\ ~peer.site.user
        BY <1>4, <2>3, <3>1 DEF LoginOrder
      <3>4. NoPassAfterUser(toSite')
        BY <2>1, <3>2, <3>3, OrderAppend
      <3> QED
        BY <1>2, <2>2, <3>1, <3>3, <3>4 DEF LoginOrder
    <2>4. LoginOrder'
      BY <1>1, <1>2, <1>4, <2>1, <2>2, <2>3 DEF LoginOrder
    <2>5. ToldIsIn'
      BY <1>1, <1>2, <2>1, ToldKept
    <2> QED
      BY <2>4, <2>5
  <1>5. CASE PassedOn
    <2>1. pc = "command" /\ input \in AllCommands /\ SentOn(Forwarded(input))
      BY <1>5 DEF PassedOn, Stage, InputRead
    <2>2. /\ Forwarded(input) \in AllCommands
          /\ Forwarded(input) = "USER" <=> input = "USER"
          /\ Forwarded(input) = "PASS" <=> input = "PASS"
      <3>1. "USER" \in AllCommands \ AuthCommands /\ "PASS" \in AllCommands \ AuthCommands
        BY DEF AllCommands, AuthCommands
      <3> QED
        BY <2>1, <3>1, ForwardedFacts
    <2> QED
      BY <1>4, <2>1, <2>2, MembersStep DEF MembersSet
  <1>6. CASE SentOn("QUIT")
    BY <1>4, <1>6 DEF AllCommands
  <1>7. CASE Quits
    BY <1>3, <1>6, <1>7 DEF Quits
  <1>8. Answered \/ PassedOn \/ Quits
    BY CommandCases
  <1> QED
    BY <1>5, <1>7, <1>8, <1>9

LEMMA OrderSite ==
    ASSUME TypeOK, Stage, LoginOrder, ToldIsIn, pc' # "gone", SiteHandles
    PROVE  LoginOrder' /\ ToldIsIn'
  <1>1. /\ siteUp /\ toSite # <<>> /\ Head(toSite) \in AllCommands
        /\ UNCHANGED <<pc, input, gotusercmd, gotpasscmd, relinked, told, lost>>
    BY SiteSays
  <1>2. Moved' <=> Moved
    BY <1>1 DEF Moved
  <1>3. \A x : Among(x, toSite) <=> x = Head(toSite) \/ Among(x, Tail(toSite))
    BY <1>1, ToTail
  <1>4. ASSUME NoPassAfterUser(toSite)
        PROVE  /\ NoPassAfterUser(Tail(toSite))
               /\ Head(toSite) = "USER" => ~Among("PASS", Tail(toSite))
    <2>1. toSite \in Seq(AllCommands)
      BY DEF TypeOK
    <2> QED
      BY <1>1, <1>4, <2>1, OrderTail
  <1>5. CASE SiteKeeps
    <2>1. /\ fromSite' = fromSite /\ (peer'.site.user <=> peer.site.user)
          /\ peer'.site.in <=> peer.site.in
          /\ siteUp' => siteUp
          /\ toSite' = <<>> \/ toSite' = Tail(toSite)
      BY <1>1, <1>5 DEF SiteKeeps
    <2>2. /\ \A x : Among(x, toSite') => Among(x, toSite)
          /\ NoPassAfterUser(toSite) => NoPassAfterUser(toSite')
      BY <1>3, <1>4, <2>1, AmongNothing, OrderNothing
    <2>3. \A x : Has(x)' <=> Has(x)
      BY <1>1, <2>1 DEF Has
    <2>4. LoginOrder'
      BY <1>1, <1>2, <2>1, <2>2, <2>3 DEF LoginOrder
    <2>5. ToldIsIn'
      BY <1>1, <2>1, <2>3 DEF ToldIsIn
    <2> QED
      BY <2>4, <2>5
  <1>6. CASE SiteWelcomes
    <2>1. /\ peer'.site.in /\ peer.site.user /\ (peer'.site.user <=> peer.site.user)
          /\ Among("PASS", toSite) /\ toSite' = Tail(toSite)
      BY <1>3, <1>6 DEF SiteWelcomes
    <2>2. LoginOrder'
      BY <1>1, <1>2, <1>3, <2>1 DEF LoginOrder
    <2> QED
      BY <2>1, <2>2 DEF ToldIsIn
  <1>7. ASSUME NEW line \in Replies, SiteLine(line)
        PROVE  LoginOrder' /\ ToldIsIn'
    <2>1. /\ toSite' = Tail(toSite) /\ siteUp' = siteUp
          /\ line = "230" => Head(toSite) = "PASS" /\ peer.site.user /\ ~peer.site.in
          /\ line = "331" => Head(toSite) = "USER"
          /\ line # "230-"
          /\ peer'.site.user => peer.site.user \/ line = "331"
          /\ peer'.site.in <=> peer.site.in \/ line = "230"
      BY <1>1, <1>7, UserAnswer DEF SiteLine
    <2>2. \A x : Has(x)' <=> x = line \/ Has(x)
      BY <1>1, <1>7, SaidLine
    <2>3. ASSUME ~Moved PROVE peer'.site.user \/ Among("USER", toSite') => gotusercmd
      BY <1>3, <2>1, <2>3 DEF LoginOrder
    <2>4. ASSUME ~Moved, ~gotpasscmd
          PROVE  /\ ~peer'.site.in /\ ~Has("230-")' /\ ~Has("230")'
                 /\ NoPassAfterUser(toSite') /\ ~(Among("PASS", toSite') /\ peer'.site.user)
      <3>1. /\ NoPassAfterUser(toSite) /\ ~(Among("PASS", toSite) /\ peer.site.user)
            /\ ~peer.site.in /\ ~Has("230-") /\ ~Has("230")
        BY <2>4 DEF LoginOrder
      <3>2. line # "230"
        BY <1>3, <2>1, <3>1
      <3> QED
        BY <1>3, <1>4, <2>1, <2>2, <3>1, <3>2
    <2>5. LoginOrder'
      BY <1>1, <1>2, <2>3, <2>4 DEF LoginOrder
    <2>6. ToldIsIn'
      BY <1>1, <2>1, <2>2 DEF ToldIsIn
    <2> QED
      BY <2>5, <2>6
  <1> QED
    BY <1>5, <1>6, <1>7, SiteSays

LEMMA OrderPeers ==
    ASSUME TypeOK, Stage, LoginOrder, ToldIsIn, pc' # "gone",
           ClientSends \/ Handshakes \/ ClientCloses \/ SiteCloses
    PROVE  LoginOrder' /\ ToldIsIn'
  <1>1. /\ UNCHANGED <<pc, input, toSite, fromSite, gotusercmd, gotpasscmd, relinked, told, lost>>
        /\ peer'.site.user <=> peer.site.user
        /\ peer'.site.in <=> peer.site.in
        /\ siteUp' => siteUp
    BY ClientSendsStep, HandshakesStep, ClosesStep
  <1>2. LoginOrder'
    BY <1>1, OrderKept DEF Moved, Has
  <1>3. ToldIsIn'
    BY <1>1 DEF ToldIsIn, Has
  <1> QED
    BY <1>2, <1>3

LEMMA LoginStep ==
    ASSUME LoginInv, Next PROVE LoginInv'
  <1>1. TypeOK'
    <2>1. CASE pc = "gone"
      BY <2>1, TypeStep DEF LoginInv, InputRead
    <2>2. CASE pc # "gone"
      BY <2>2, TypeStep DEF LoginInv, Stage
    <2> QED
      BY <2>1, <2>2
  <1>2. ASSUME pc' # "gone" PROVE Stage' /\ LoginOrder' /\ ToldIsIn'
    <2>1. TypeOK /\ Steps /\ Stage /\ LoginOrder /\ ToldIsIn
      BY <1>2, StepCases DEF LoginInv
    <2>2. Stage'
      BY <1>2, <2>1, StageStep
    <2>3. LoginOrder' /\ ToldIsIn'
      BY <1>2, <2>1, OrderStart, OrderRead, OrderTls, OrderCommand, OrderSite, OrderPeers
      DEF Steps
    <2> QED
      BY <2>2, <2>3
  <1> QED
    BY <1>1, <1>2 DEF LoginInv

LEMMA LoginStutter ==
    ASSUME LoginInv, UNCHANGED vars PROVE LoginInv'
  BY DEF LoginInv, TypeOK, Stage, LoginOrder, ToldIsIn, InputRead, Starting, Moved, Has, On,
     vars, wires, ups, flags, got, opts, client, history

\* Everything above holds always.
THEOREM LoginInvariant == Spec => []LoginInv
  <1>1. LoginInv /\ [Next]_vars => LoginInv'
    BY LoginStep, LoginStutter
  <1> QED
    BY LoginInit, <1>1, PTL DEF Spec

\* A client that was told 230 is logged in at the site it is connected to, or
\* the login at the relink site has failed, whatever it sends and however far
\* ahead of its replies.
THEOREM ToldAreIn == Spec => []LoggedInHasSite
  <1>1. LoginInv => LoggedInHasSite
    BY DEF LoginInv, ToldIsIn, LoggedInHasSite
  <1> QED
    BY <1>1, LoginInvariant, PTL

-----------------------------------------------------------------------------
(* How many replies the client can still get.                              *)

\* The parts of a reply that are not its last line
Parts == {"230-", "221-"}

\* Where IDNT is no command of a session, the peer of the session is no entry:
\* the IDNT an entry sends of its own is otherwise answered with 500, a reply
\* nobody waits for.
EntriesMatch ==
    \A c \in Configs : "client_is_entry" \in c => "using_entry" \in c /\ "no_idnt_cmd" \notin c

\* The IDNT of an entry is not asked for by the client.
Unasked == IF Starting /\ On("client_is_entry") /\ toBnc # <<>> THEN 1 ELSE 0

\* The replies the thread will write before it reads on
InHand ==
    IF pc \in {"failed0", "failed1"} THEN 2
    ELSE IF pc \in {"entry", "ident", "connect", "command", "relink0", "relink1", "ask331",
                    "tell230", "quit"} \/ (pc = "reply" /\ Endline(input)) THEN 1
    ELSE 0

\* A failed login at the relink site is told with a line too many.
Extra == IF lost THEN 1 ELSE 0

AtClient == Owed(toBnc, {})
AtSite   == Owed(toSite, {"IDNT"})
AtBnc    == Owed(fromSite, Parts)

\* Every reply that can still come is waited for.
Balance == due + Extra - AtClient + Unasked - AtSite - AtBnc - InHand
Counted == Balance >= 0

LEMMA NumberTypes ==
    Unasked \in 0 .. 1 /\ InHand \in 0 .. 2 /\ Extra \in 0 .. 1
  BY DEF Unasked, InHand, Extra

LEMMA WireTypes ==
    ASSUME TypeOK PROVE AtClient \in Nat /\ AtSite \in Nat /\ AtBnc \in Nat /\ due \in Int
  <1>1. /\ toBnc \in Seq(AllCommands) /\ toSite \in Seq(AllCommands)
        /\ fromSite \in Seq(Replies) /\ due \in Int
    BY DEF TypeOK
  <1>2. AtClient \in Nat
    BY <1>1, OwedSet DEF AtClient
  <1>3. AtSite \in Nat
    BY <1>1, OwedSet DEF AtSite
  <1>4. AtBnc \in Nat
    BY <1>1, OwedSet DEF AtBnc
  <1> QED
    BY <1>1, <1>2, <1>3, <1>4

LEMMA NumberTypesPrime ==
    /\ Unasked \in 0 .. 1 /\ InHand \in 0 .. 2 /\ Extra \in 0 .. 1
    /\ Unasked' \in 0 .. 1 /\ InHand' \in 0 .. 2 /\ Extra' \in 0 .. 1
  BY DEF Unasked, InHand, Extra

LEMMA WireTypesPrime ==
    ASSUME TypeOK'
    PROVE  AtClient' \in Nat /\ AtSite' \in Nat /\ AtBnc' \in Nat /\ due' \in Int
  <1>1. /\ toBnc' \in Seq(AllCommands) /\ toSite' \in Seq(AllCommands)
        /\ fromSite' \in Seq(Replies) /\ due' \in Int
    BY DEF TypeOK
  <1>2. Owed(toBnc', {}) \in Nat
    BY <1>1, OwedSet
  <1>3. Owed(toSite', {"IDNT"}) \in Nat
    BY <1>1, OwedSet
  <1>4. Owed(fromSite', Parts) \in Nat
    BY <1>1, OwedSet
  <1> QED
    BY <1>1, <1>2, <1>3, <1>4 DEF AtClient, AtSite, AtBnc

LEMMA Numbers ==
    ASSUME TypeOK, TypeOK'
    PROVE  /\ due \in Int /\ due' \in Int /\ Extra \in 0 .. 1 /\ Extra' \in 0 .. 1
           /\ AtClient \in Nat /\ AtClient' \in Nat /\ AtSite \in Nat /\ AtSite' \in Nat
           /\ AtBnc \in Nat /\ AtBnc' \in Nat /\ Unasked \in 0 .. 1 /\ Unasked' \in 0 .. 1
           /\ InHand \in 0 .. 2 /\ InHand' \in 0 .. 2
           /\ Balance \in Int /\ Balance' \in Int
           /\ Balance = due + Extra - AtClient + Unasked - AtSite - AtBnc - InHand
           /\ Balance' = due' + Extra' - AtClient' + Unasked' - AtSite' - AtBnc' - InHand'
  <1>1. /\ Unasked \in 0 .. 1 /\ InHand \in 0 .. 2 /\ Extra \in 0 .. 1
        /\ Unasked' \in 0 .. 1 /\ InHand' \in 0 .. 2 /\ Extra' \in 0 .. 1
    BY NumberTypesPrime
  <1>2. AtClient \in Nat /\ AtSite \in Nat /\ AtBnc \in Nat /\ due \in Int
    BY WireTypes
  <1>3. AtClient' \in Nat /\ AtSite' \in Nat /\ AtBnc' \in Nat /\ due' \in Int
    BY WireTypesPrime
  <1> QED
    BY <1>1, <1>2, <1>3 DEF Balance

\* Where nobody counts, the numbers of a place.
LEMMA NobodyStarts ==
    ASSUME pc \notin {"entry", "ident", "connect", "idnt", "readidnt"} PROVE Unasked = 0
  BY DEF Unasked, Starting

LEMMA ClientTaken ==
    ASSUME TypeOK, toBnc # <<>>, toBnc' = Tail(toBnc) PROVE AtClient' = AtClient - 1
  <1>1. toBnc \in Seq(AllCommands) /\ Tail(toBnc) \in Seq(AllCommands)
    BY HeadTail DEF TypeOK
  <1>2. Owed(toBnc, {}) = Owed(Tail(toBnc), {}) + (IF Head(toBnc) \in {} THEN 0 ELSE 1)
    BY <1>1, OwedTail
  <1>3. Owed(Tail(toBnc), {}) \in Nat
    BY <1>1, OwedSet
  <1> QED
    BY <1>2, <1>3 DEF AtClient

LEMMA SiteTaken ==
    ASSUME TypeOK, toSite # <<>>, toSite' = Tail(toSite)
    PROVE  AtSite' = AtSite - (IF Head(toSite) = "IDNT" THEN 0 ELSE 1)
  <1>1. toSite \in Seq(AllCommands) /\ Tail(toSite) \in Seq(AllCommands)
    BY HeadTail DEF TypeOK
  <1>2. Owed(toSite, {"IDNT"})
          = Owed(Tail(toSite), {"IDNT"}) + (IF Head(toSite) \in {"IDNT"} THEN 0 ELSE 1)
    BY <1>1, OwedTail
  <1>3. Owed(Tail(toSite), {"IDNT"}) \in Nat
    BY <1>1, OwedSet
  <1> QED
    BY <1>2, <1>3 DEF AtSite

LEMMA BncTaken ==
    ASSUME TypeOK, fromSite # <<>>, fromSite' = Tail(fromSite)
    PROVE  AtBnc' = AtBnc - (IF Endline(Head(fromSite)) THEN 1 ELSE 0)
  <1>1. fromSite \in Seq(Replies) /\ Tail(fromSite) \in Seq(Replies)
    BY HeadTail DEF TypeOK
  <1>2. Owed(fromSite, Parts)
          = Owed(Tail(fromSite), Parts) + (IF Head(fromSite) \in Parts THEN 0 ELSE 1)
    BY <1>1, OwedTail
  <1>3. Owed(Tail(fromSite), Parts) \in Nat
    BY <1>1, OwedSet
  <1> QED
    BY <1>2, <1>3 DEF AtBnc, Parts, Endline

LEMMA ClientGiven ==
    ASSUME TypeOK, NEW cmd \in AllCommands, toBnc' = Append(toBnc, cmd)
    PROVE  AtClient' = AtClient + 1
  <1>1. toBnc \in Seq(AllCommands)
    BY DEF TypeOK
  <1>2. Owed(Append(toBnc, cmd), {}) = Owed(toBnc, {}) + (IF cmd \in {} THEN 0 ELSE 1)
    BY <1>1, OwedAppend
  <1> QED
    BY <1>2 DEF AtClient

LEMMA SiteGiven ==
    ASSUME TypeOK, NEW cmd \in AllCommands, toSite' = Append(toSite, cmd)
    PROVE  AtSite' = AtSite + (IF cmd = "IDNT" THEN 0 ELSE 1)
  <1>1. toSite \in Seq(AllCommands)
    BY DEF TypeOK
  <1>2. Owed(Append(toSite, cmd), {"IDNT"})
          = Owed(toSite, {"IDNT"}) + (IF cmd \in {"IDNT"} THEN 0 ELSE 1)
    BY <1>1, OwedAppend
  <1> QED
    BY <1>2 DEF AtSite

LEMMA BncGiven ==
    ASSUME NEW s \in Seq(Replies), NEW line \in Replies
    PROVE  Owed(Append(s, line), Parts) = Owed(s, Parts) + (IF Endline(line) THEN 1 ELSE 0)
  <1>1. Owed(Append(s, line), Parts) = Owed(s, Parts) + (IF line \in Parts THEN 0 ELSE 1)
    BY OwedAppend
  <1> QED
    BY <1>1 DEF Parts, Endline

\* A wire that loses what is on it owes nothing.
LEMMA WiresCut ==
    /\ toSite' = <<>> => AtSite' = 0
    /\ fromSite' = <<>> => AtBnc' = 0
  BY OwedNothing DEF AtSite, AtBnc

LEMMA WiresKept ==
    /\ toBnc' = toBnc => AtClient' = AtClient
    /\ toSite' = toSite => AtSite' = AtSite
    /\ fromSite' = fromSite => AtBnc' = AtBnc
    /\ (lost' <=> lost) => Extra' = Extra
  BY DEF AtClient, AtSite, AtBnc, Extra

\* Up to the welcome message
LEMMA CountStart ==
    ASSUME TypeOK, TypeOK', EntriesMatch, Stage, Stage', Counted, pc' # "gone",
           CheckEntry \/ AskIdent \/ ConnectSite \/ SendIdnt \/ ReadIdnt \/ Welcome
    PROVE  Counted'
  <1>1. CASE CheckEntry \/ AskIdent
    <2>1. /\ pc \in {"entry", "ident"} /\ pc' \in {"ident", "connect"} /\ due' = due
          /\ UNCHANGED <<config, toBnc, toSite, fromSite, lost>>
      BY <1>1, BeginStep DEF Silent
    <2>2. InHand = 1 /\ InHand' = 1 /\ Unasked' = Unasked
      BY <2>1 DEF InHand, Unasked, Starting, On
    <2> QED
      BY <2>1, <2>2, WiresKept, Numbers DEF Counted
  <1>2. CASE ConnectSite
    <2>1. /\ pc = "connect" /\ pc' = "idnt" /\ due' = due
          /\ fromSite' = <<>> \/ fromSite' = <<"220">>
          /\ UNCHANGED <<config, toBnc, toSite, lost>>
      BY <1>2, ConnectSiteStep DEF Silent
    <2>2. InHand = 1 /\ InHand' = 0 /\ Unasked' = Unasked
      BY <2>1 DEF InHand, Unasked, Starting, On
    <2>3. AtBnc = 0
      BY <2>1, OwedNothing DEF Stage, AtBnc
    <2>4. Owed(<<"220">>, Parts) = 1
      <3>1. <<>> \in Seq(Replies) /\ "220" \in Replies /\ Append(<<>>, "220") = <<"220">>
        BY DEF Replies
      <3>2. Owed(Append(<<>>, "220"), Parts) = Owed(<<>>, Parts) + 1
        BY <3>1, BncGiven DEF Endline
      <3> QED
        BY <3>1, <3>2, OwedNothing
    <2>5. AtBnc' \in {0, 1}
      BY <2>1, <2>4, OwedNothing DEF AtBnc
    <2> QED
      BY <2>1, <2>2, <2>3, <2>5, WiresKept, Numbers DEF Counted
  <1>3. CASE SendIdnt
    <2>1. /\ pc = "idnt" /\ pc' = (IF ReadsIdnt THEN "readidnt" ELSE "welcome") /\ due' = due
          /\ UNCHANGED <<config, toBnc, fromSite, lost>>
      BY <1>3, SendIdntStep DEF Silent
    <2>2. InHand = 0 /\ InHand' = 0
      BY <2>1 DEF InHand
    <2>3. Unasked' = Unasked
      <3>1. config \in Configs /\ config' = config
        BY <2>1 DEF TypeOK
      <3> QED
        BY <2>1, <3>1 DEF EntriesMatch, ReadsIdnt, Unasked, Starting, On
    <2>4. toSite' \in Seq(AllCommands) /\ \A i \in DOMAIN toSite' : toSite'[i] \in {"IDNT"}
      BY <2>1 DEF TypeOK, Stage, Among
    <2>5. AtSite' = 0
      BY <2>4, OwedZero DEF AtSite
    <2> QED
      BY <2>1, <2>2, <2>3, <2>5, WiresKept, Numbers DEF Counted
  <1>4. CASE ReadIdnt
    <2>1. /\ pc = "readidnt" /\ pc' = "welcome" /\ toBnc # <<>> /\ toBnc' = Tail(toBnc)
          /\ due' = due /\ toSite' = Append(toSite, "IDNT")
          /\ UNCHANGED <<fromSite, lost>>
      BY <1>4, ReadIdntStep DEF SentOn
    <2>2. InHand = 0 /\ InHand' = 0 /\ Unasked' = 0
      BY <2>1 DEF InHand, Unasked, Starting
    <2>3. AtSite' = AtSite
      <3>1. "IDNT" \in AllCommands
        BY DEF AllCommands
      <3>2. AtSite' = AtSite + (IF "IDNT" = "IDNT" THEN 0 ELSE 1)
        BY <2>1, <3>1, SiteGiven
      <3> QED
        BY <3>2, WireTypes
    <2>4. AtClient' = AtClient - 1 /\ AtBnc' = AtBnc /\ Extra' = Extra /\ due' = due
      BY <2>1, ClientTaken, WiresKept
    <2> QED
      BY <2>2, <2>3, <2>4, Numbers DEF Counted
  <1>5. CASE Welcome
    <2>1. /\ pc = "welcome" /\ pc' = "select" /\ fromSite # <<>> /\ fromSite' = Tail(fromSite)
          /\ \E line \in {"220", Head(fromSite)} : Heard(line)
          /\ UNCHANGED <<toBnc, toSite, lost>>
      BY <1>5, WelcomeStep
    <2>2. Head(fromSite) = "220"
      BY <2>1, FromTail DEF Stage
    <2>3. due' = due - 1
      BY <2>1, <2>2 DEF Heard, Endline
    <2>4. AtBnc' = AtBnc - 1
      BY <2>1, <2>2, BncTaken DEF Endline
    <2>5. InHand = 0 /\ InHand' = 0 /\ Unasked = 0 /\ Unasked' = 0
      BY <2>1 DEF InHand, Unasked, Starting
    <2>6. AtClient' = AtClient /\ AtSite' = AtSite /\ Extra' = Extra
      BY <2>1, WiresKept
    <2> QED
      BY <2>3, <2>4, <2>5, <2>6, Numbers DEF Counted
  <1> QED
    BY <1>1, <1>2, <1>3, <1>4, <1>5

\* What the loop reads, and a reply of the site
LEMMA CountRead ==
    ASSUME TypeOK, TypeOK', Stage, LoginOrder, Counted, pc' # "gone",
           ReadSite \/ ReadClient \/ FirstReply \/ UserReply \/ PassReply \/ OtherReply
    PROVE  Counted'
  <1>1. CASE ReadSite
    <2>1. /\ pc \in {"select", "sslsite"} /\ due' = due
          /\ UNCHANGED <<toBnc, toSite, lost>>
      BY <1>1, ReadSiteStep
    <2>2. Unasked = 0 /\ InHand = 0
      BY <2>1 DEF Unasked, Starting, InHand
    <2>3. CASE /\ pc' = "reply" /\ fromSite # <<>> /\ input' = Head(fromSite)
               /\ fromSite' = Tail(fromSite)
      <3>1. Unasked' = 0 /\ InHand' = IF Endline(Head(fromSite)) THEN 1 ELSE 0
        BY <2>3 DEF Unasked, Starting, InHand, Endline
      <3> QED
        BY <2>1, <2>2, <2>3, <3>1, BncTaken, WiresKept, Numbers DEF Counted
    <2>4. CASE pc' \in {"select", "sslsite"} /\ fromSite' = fromSite
      <3>1. Unasked' = 0 /\ InHand' = 0
        BY <2>4 DEF Unasked, Starting, InHand
      <3> QED
        BY <2>1, <2>2, <2>4, <3>1, WiresKept, Numbers DEF Counted
    <2> QED
      BY <1>1, <2>3, <2>4, ReadSiteStep
  <1>2. CASE ReadClient
    <2>1. /\ pc \in {"select", "sslclient"} /\ due' = due
          /\ UNCHANGED <<toSite, fromSite, lost>>
      BY <1>2, ReadClientStep
    <2>2. Unasked = 0 /\ InHand = 0
      BY <2>1 DEF Unasked, Starting, InHand
    <2>3. CASE pc' = "command" /\ toBnc # <<>> /\ toBnc' = Tail(toBnc)
      <3>1. Unasked' = 0 /\ InHand' = 1
        BY <2>3 DEF Unasked, Starting, InHand
      <3> QED
        BY <2>1, <2>2, <2>3, <3>1, ClientTaken, WiresKept, Numbers DEF Counted
    <2>4. CASE pc' \in {"select", "sslclient"} /\ toBnc' = toBnc
      <3>1. Unasked' = 0 /\ InHand' = 0
        BY <2>4 DEF Unasked, Starting, InHand
      <3> QED
        BY <2>1, <2>2, <2>4, <3>1, WiresKept, Numbers DEF Counted
    <2> QED
      BY <1>2, <2>3, <2>4, ReadClientStep
  <1>3. CASE FirstReply \/ UserReply \/ PassReply \/ OtherReply
    <2>1. pc = "reply" /\ UNCHANGED <<toBnc, toSite, fromSite, lost>>
      BY <1>3, ReplyStep
    <2>2. Unasked = 0 /\ InHand = IF Endline(input) THEN 1 ELSE 0
      BY <2>1 DEF Unasked, Starting, InHand
    <2>3. CASE ReplyPassed
      <3>1. Unasked' = 0 /\ InHand' = 0
        BY <2>3 DEF ReplyPassed, Unasked, Starting, InHand
      <3>2. due' = IF Endline(input) THEN due - 1 ELSE due
        <4>1. PICK line : /\ line = input \/ (line = "234 SSL" /\ input = "234 TLS")
                          /\ Heard(line)
          BY <2>3 DEF ReplyPassed
        <4>2. Endline(line) <=> Endline(input)
          BY <4>1 DEF Endline
        <4> QED
          BY <4>1, <4>2 DEF Heard
      <3>3. /\ AtClient' = AtClient /\ AtSite' = AtSite /\ AtBnc' = AtBnc /\ Extra' = Extra
        BY <2>1, WiresKept
      <3> QED
        BY <2>2, <3>1, <3>2, <3>3, Numbers DEF Counted
    <2>4. CASE ReplyRelinks
      <3>1. due' = due /\ pc' \in {"relink0", "relink1"}
        BY <2>4 DEF ReplyRelinks, Silent
      <3>2. Unasked' = 0 /\ InHand' = 1
        BY <3>1 DEF Unasked, Starting, InHand
      <3>3. AtClient' = AtClient /\ AtSite' = AtSite /\ AtBnc' = AtBnc /\ Extra' = Extra
        BY <2>1, WiresKept
      <3>4. Endline(input)
        <4>1. CASE gotusercmd /\ ~gotpasscmd
          BY <2>1, <4>1, EndlineFacts DEF Stage, LoginOrder, Moved, RelinkPlaces, Has
        <4> QED
          BY <2>4, <4>1 DEF ReplyRelinks
      <3> QED
        BY <2>2, <3>1, <3>2, <3>3, <3>4, Numbers DEF Counted
    <2> QED
      BY <1>3, <2>3, <2>4, ReplyStep
  <1> QED
    BY <1>1, <1>2, <1>3

\* trytls and tryrelink
LEMMA CountTls ==
    ASSUME TypeOK, TypeOK', Stage, Stage', Counted, pc' # "gone",
           SslConnect \/ SslAccept \/ RelinkSite \/ TellFailure \/ AskPass \/ WaitPass
           \/ TellLoggedIn
    PROVE  Counted'
  <1>1. CASE SslConnect \/ SslAccept
    <2>1. /\ pc \in {"sslconnect", "sslaccept"} /\ pc' \in {"sslconnect", "sslaccept", "select"}
          /\ due' = due /\ UNCHANGED <<toBnc, toSite, fromSite, lost>>
      BY <1>1, SslConnectStep, SslAcceptStep
    <2>2. Unasked = 0 /\ Unasked' = 0 /\ InHand = 0 /\ InHand' = 0
      BY <2>1 DEF Unasked, Starting, InHand
    <2>3. /\ AtClient' = AtClient /\ AtSite' = AtSite /\ AtBnc' = AtBnc /\ Extra' = Extra
          /\ due' = due
      BY <2>1, WiresKept
    <2> QED
      BY <2>2, <2>3, Numbers DEF Counted
  <1>2. CASE RelinkSite
    <2>1. /\ pc \in {"relink0", "relink1"} /\ toSite' = <<>> /\ fromSite' = <<>>
          /\ pc' \in {"failed0", "failed1", "ask331", "tell230"}
          /\ pc' \in {"failed0", "failed1"} => lost'
          /\ toBnc' = toBnc /\ due' = due
      BY <1>2, RelinkedStep
    <2>2. ~lost
      BY <2>1 DEF Stage
    <2>3. Unasked = 0 /\ Unasked' = 0 /\ InHand = 1
      BY <2>1 DEF Unasked, Starting, InHand
    <2>4. Extra = 0 /\ (InHand' = 1 \/ (InHand' = 2 /\ Extra' = 1))
      BY <2>1, <2>2 DEF InHand, Extra
    <2>5. AtSite' = 0 /\ AtBnc' = 0 /\ AtClient' = AtClient /\ due' = due
      BY <2>1, WiresCut, WiresKept
    <2> QED
      BY <2>3, <2>4, <2>5, Numbers DEF Counted
  <1>3. CASE TellFailure
    <2>1. /\ pc \in {"failed0", "failed1"} /\ pc' \in {"ask331", "tell230"}
          /\ Heard("427") \/ Silent
          /\ UNCHANGED <<toBnc, toSite, fromSite, lost>>
      BY <1>3, ToldFailureStep
    <2>2. due' = due \/ due' = due - 1
      BY <2>1 DEF Heard, Silent
    <2>3. Unasked = 0 /\ Unasked' = 0 /\ InHand = 2 /\ InHand' = 1
      BY <2>1 DEF Unasked, Starting, InHand
    <2>4. AtClient' = AtClient /\ AtSite' = AtSite /\ AtBnc' = AtBnc /\ Extra' = Extra
      BY <2>1, WiresKept
    <2> QED
      BY <2>2, <2>3, <2>4, Numbers DEF Counted
  <1>4. CASE AskPass
    <2>1. /\ pc = "ask331" /\ pc' = "askpass" /\ Heard("331")
          /\ UNCHANGED <<toBnc, toSite, fromSite, lost>>
      BY <1>4, AskPassStep
    <2>2. due' = due - 1
      BY <2>1 DEF Heard, Endline
    <2>3. Unasked = 0 /\ Unasked' = 0 /\ InHand = 1 /\ InHand' = 0
      BY <2>1 DEF Unasked, Starting, InHand
    <2>4. AtClient' = AtClient /\ AtSite' = AtSite /\ AtBnc' = AtBnc /\ Extra' = Extra
      BY <2>1, WiresKept
    <2> QED
      BY <2>2, <2>3, <2>4, Numbers DEF Counted
  <1>5. CASE WaitPass
    <2>1. /\ pc = "askpass" /\ toBnc # <<>> /\ toBnc' = Tail(toBnc)
          /\ (pc' = "tell230" /\ Silent) \/ (pc' = "askpass" /\ Heard("500"))
          /\ UNCHANGED <<toSite, fromSite, lost>>
      BY <1>5, WaitPassStep
    <2>2. Unasked = 0 /\ Unasked' = 0 /\ InHand = 0
      BY <2>1 DEF Unasked, Starting, InHand
    <2>3. (due' = due /\ InHand' = 1) \/ (due' = due - 1 /\ InHand' = 0)
      BY <2>1 DEF Heard, Endline, Silent, InHand
    <2>4. AtClient' = AtClient - 1 /\ AtSite' = AtSite /\ AtBnc' = AtBnc /\ Extra' = Extra
      BY <2>1, ClientTaken, WiresKept
    <2> QED
      BY <2>2, <2>3, <2>4, Numbers DEF Counted
  <1>6. CASE TellLoggedIn
    <2>1. /\ pc = "tell230" /\ pc' = "select" /\ Heard("230")
          /\ UNCHANGED <<toBnc, toSite, fromSite, lost>>
      BY <1>6, TellLoggedInStep
    <2>2. due' = due - 1
      BY <2>1 DEF Heard, Endline
    <2>3. Unasked = 0 /\ Unasked' = 0 /\ InHand = 1 /\ InHand' = 0
      BY <2>1 DEF Unasked, Starting, InHand
    <2>4. AtClient' = AtClient /\ AtSite' = AtSite /\ AtBnc' = AtBnc /\ Extra' = Extra
      BY <2>1, WiresKept
    <2> QED
      BY <2>2, <2>3, <2>4, Numbers DEF Counted
  <1> QED
    BY <1>1, <1>2, <1>3, <1>4, <1>5, <1>6

\* A command is answered or passed on, never both.
LEMMA CountCommand ==
    ASSUME TypeOK, TypeOK', Stage, Counted, CommandSteps, pc' # "gone" PROVE Counted'
  <1>1. /\ pc \in {"command", "quit"} /\ pc' \in {"select", "quit"}
        /\ UNCHANGED <<toBnc, fromSite, lost>>
    BY CommandPlaces
  <1>2. /\ Unasked = 0 /\ Unasked' = 0 /\ InHand = 1
        /\ InHand' = IF pc' = "quit" THEN 1 ELSE 0
    BY <1>1 DEF Unasked, Starting, InHand
  <1>3. AtClient' = AtClient /\ AtBnc' = AtBnc /\ Extra' = Extra
    BY <1>1, WiresKept
  <1>4. ASSUME NEW cmd \in AllCommands, SentOn(cmd), pc' = "select" PROVE Counted'
    <2>1. AtSite' = AtSite \/ AtSite' = AtSite + 1
      <3>1. AtSite' = AtSite + (IF cmd = "IDNT" THEN 0 ELSE 1)
        BY <1>4, SiteGiven DEF SentOn
      <3> QED
        BY <3>1, WireTypes
    <2>2. InHand' = 0 /\ due' = due
      BY <1>2, <1>4 DEF SentOn
    <2> QED
      BY <1>2, <1>3, <2>1, <2>2, Numbers DEF Counted
  <1>5. CASE Answered
    <2>1. due' = due - 1 /\ toSite' = toSite /\ pc' = "select"
      BY <1>5 DEF Answered, Heard, Endline
    <2>2. AtSite' = AtSite /\ InHand' = 0 /\ due' = due - 1
      BY <1>2, <2>1, WiresKept
    <2> QED
      BY <1>2, <1>3, <2>2, Numbers DEF Counted
  <1>6. CASE PassedOn
    <2>1. pc = "command" /\ input \in AllCommands /\ SentOn(Forwarded(input)) /\ pc' = "select"
      BY <1>6 DEF PassedOn, Stage, InputRead
    <2> QED
      BY <1>4, <2>1, ForwardedFacts
  <1>7. CASE Quits
    <2>1. CASE toSite' = toSite /\ Heard("221-") /\ pc' = "quit"
      <3>1. due' = due /\ AtSite' = AtSite /\ InHand' = 1
        BY <1>2, <2>1, WiresKept DEF Heard, Endline
      <3> QED
        BY <1>2, <1>3, <3>1, Numbers DEF Counted
    <2>2. CASE SentOn("QUIT") /\ pc' = "select"
      BY <1>4, <2>2 DEF AllCommands
    <2> QED
      BY <1>7, <2>1, <2>2 DEF Quits
  <1> QED
    BY <1>5, <1>6, <1>7, CommandCases

LEMMA CountSite ==
    ASSUME TypeOK, TypeOK', Counted, SiteHandles PROVE Counted'
  <1>1. /\ toSite # <<>> /\ due' = due /\ fromSite \in Seq(Replies)
        /\ UNCHANGED <<config, pc, input, toBnc, lost>>
    BY SiteSays DEF TypeOK
  <1>2. /\ Unasked' = Unasked /\ InHand' = InHand /\ due' = due
    BY <1>1 DEF Unasked, Starting, InHand, On, Endline
  <1>3. AtClient' = AtClient /\ Extra' = Extra
    BY <1>1, WiresKept
  <1>4. toSite' = Tail(toSite) => AtSite' = AtSite - (IF Head(toSite) = "IDNT" THEN 0 ELSE 1)
    BY <1>1, SiteTaken
  <1>5. CASE SiteKeeps
    <2>1. AtSite' = 0 \/ AtSite' = AtSite
      <3>1. CASE toSite' = <<>>
        BY <3>1, WiresCut
      <3>2. CASE Head(toSite) = "IDNT" /\ toSite' = Tail(toSite)
        BY <1>4, <3>2, WireTypes
      <3> QED
        BY <1>5, <3>1, <3>2 DEF SiteKeeps
    <2>2. AtBnc' = AtBnc
      BY <1>5, WiresKept DEF SiteKeeps
    <2> QED
      BY <1>2, <1>3, <2>1, <2>2, Numbers DEF Counted
  <1>6. CASE SiteWelcomes
    <2>1. AtSite' = AtSite - 1
      BY <1>4, <1>6, WireTypes DEF SiteWelcomes
    <2>2. AtBnc' = AtBnc + 1
      <3>1. "230-" \in Replies /\ "230" \in Replies
        BY DEF Replies, LoginReplies
      <3>2. Append(fromSite, "230-") \in Seq(Replies)
        BY <1>1, <3>1
      <3>3. fromSite' = Append(Append(fromSite, "230-"), "230")
        BY <1>1, <1>6, <3>1, LongWelcome DEF SiteWelcomes
      <3>4. Owed(Append(fromSite, "230-"), Parts) = Owed(fromSite, Parts) + 0
        BY <1>1, <3>1, BncGiven DEF Endline
      <3>5. Owed(fromSite', Parts) = Owed(Append(fromSite, "230-"), Parts) + 1
        BY <3>1, <3>2, <3>3, BncGiven DEF Endline
      <3> QED
        BY <3>4, <3>5, WireTypes DEF AtBnc
    <2> QED
      BY <1>2, <1>3, <2>1, <2>2, Numbers DEF Counted
  <1>7. ASSUME NEW line \in Replies, SiteLine(line) PROVE Counted'
    <2>1. AtSite' = AtSite - 1
      BY <1>4, <1>7, WireTypes DEF SiteLine
    <2>2. AtBnc' = AtBnc + 1
      <3>1. fromSite' = Append(fromSite, line) /\ Endline(line)
        BY <1>7 DEF SiteLine, Endline
      <3>2. Owed(Append(fromSite, line), Parts) = Owed(fromSite, Parts) + 1
        BY <1>1, <3>1, BncGiven
      <3> QED
        BY <3>1, <3>2 DEF AtBnc
    <2> QED
      BY <1>2, <1>3, <2>1, <2>2, Numbers DEF Counted
  <1> QED
    BY <1>5, <1>6, <1>7, SiteSays

LEMMA CountPeers ==
    ASSUME TypeOK, TypeOK', Counted, ClientSends \/ Handshakes \/ ClientCloses \/ SiteCloses
    PROVE  Counted'
  <1>1. CASE ClientSends
    <2>1. /\ asked' \in AllCommands /\ toBnc' = Append(toBnc, asked') /\ due' = due + 1
          /\ UNCHANGED <<config, pc, input, toSite, fromSite, lost>>
      BY <1>1, ClientSendsStep
    <2>2. toBnc' # <<>>
      BY <2>1, <1>1 DEF TypeOK
    <2>3. Unasked' = Unasked \/ (Unasked = 0 /\ Unasked' = 1)
      BY <2>1, <2>2 DEF Unasked, Starting, On
    <2>4. InHand' = InHand
      BY <2>1 DEF InHand, Endline
    <2>5. /\ AtSite' = AtSite /\ AtBnc' = AtBnc /\ Extra' = Extra /\ due' = due + 1
          /\ AtClient' = AtClient + 1
      BY <2>1, ClientGiven, WiresKept
    <2> QED
      BY <2>3, <2>4, <2>5, Numbers DEF Counted
  <1>2. CASE Handshakes \/ ClientCloses \/ SiteCloses
    <2>1. /\ due' = due
          /\ UNCHANGED <<config, pc, input, toBnc, toSite, fromSite, lost>>
      BY <1>2, HandshakesStep, ClosesStep
    <2>2. Unasked' = Unasked /\ InHand' = InHand
      BY <2>1 DEF Unasked, Starting, On, InHand, Endline
    <2>3. /\ AtClient' = AtClient /\ AtSite' = AtSite /\ AtBnc' = AtBnc /\ Extra' = Extra
          /\ due' = due
      BY <2>1, WiresKept
    <2> QED
      BY <2>2, <2>3, Numbers DEF Counted
  <1> QED
    BY <1>1, <1>2

CountInv == LoginInv /\ (pc # "gone" => Counted)

LEMMA CountInit ==
    ASSUME Init PROVE CountInv
  <1>1. LoginInv
    BY LoginInit
  <1>2. /\ pc = "entry" /\ due = 1 /\ toSite = <<>> /\ fromSite = <<>> /\ lost = FALSE
        /\ toBnc = <<>> \/ (toBnc = <<"IDNT">> /\ On("client_is_entry"))
    BY DEF Init, On
  <1>3. InHand = 1 /\ Extra = 0 /\ AtSite = 0 /\ AtBnc = 0
    BY <1>2, OwedNothing DEF InHand, Extra, AtSite, AtBnc
  <1>4. (AtClient = 0 /\ Unasked = 0) \/ (AtClient = 1 /\ Unasked = 1)
    <2>1. CASE toBnc = <<>>
      BY <1>2, <2>1, OwedNothing DEF AtClient, Unasked
    <2>2. CASE toBnc = <<"IDNT">> /\ On("client_is_entry")
      <3>1. <<>> \in Seq(AllCommands) /\ "IDNT" \in AllCommands /\ toBnc = Append(<<>>, "IDNT")
        BY <2>2 DEF AllCommands
      <3>2. Owed(toBnc, {}) = Owed(<<>>, {}) + (IF "IDNT" \in {} THEN 0 ELSE 1)
        BY <3>1, OwedAppend
      <3>3. AtClient = 1
        BY <3>2, OwedNothing DEF AtClient
      <3>4. Unasked = 1
        BY <1>2, <2>2 DEF Unasked, Starting
      <3> QED
        BY <3>3, <3>4
    <2> QED
      BY <1>2, <2>1, <2>2
  <1> QED
    BY <1>1, <1>2, <1>3, <1>4 DEF CountInv, Counted, Balance

LEMMA CountStep ==
    ASSUME EntriesMatch, CountInv, Next PROVE CountInv'
  <1>1. LoginInv'
    BY LoginStep DEF CountInv
  <1>2. ASSUME pc' # "gone" PROVE Counted'
    <2>1. TypeOK /\ TypeOK' /\ Steps /\ Stage /\ LoginOrder /\ Stage' /\ Counted
      BY <1>1, <1>2, StepCases DEF LoginInv, CountInv
    <2> QED
      BY <1>2, <2>1, CountStart, CountRead, CountTls, CountCommand, CountSite, CountPeers
      DEF Steps
  <1> QED
    BY <1>1, <1>2 DEF CountInv

LEMMA CountStutter ==
    ASSUME CountInv, UNCHANGED vars PROVE CountInv'
  <1>1. LoginInv'
    BY LoginStutter DEF CountInv
  <1>2. UNCHANGED <<config, pc, input, toBnc, toSite, fromSite, lost, due>>
    BY DEF vars, wires, client, history
  <1>3. Unasked' = Unasked /\ InHand' = InHand
    BY <1>2 DEF Unasked, Starting, On, InHand, Endline
  <1>4. Balance' = Balance
    BY <1>2, <1>3, WiresKept DEF Balance
  <1> QED
    BY <1>1, <1>2, <1>4 DEF CountInv, Counted

LEMMA CountedOnce ==
    ASSUME CountInv PROVE AnsweredOnce
  <1>1. SUFFICES ASSUME pc # "gone", ~lost PROVE due >= 0
    BY WireTypes DEF AnsweredOnce, CountInv, LoginInv
  <1>2. TypeOK /\ Balance >= 0
    BY <1>1 DEF CountInv, LoginInv, Counted
  <1>3. Unasked = 1 => AtClient # 0
    <2>1. toBnc \in Seq(AllCommands)
      BY <1>2 DEF TypeOK
    <2>2. AtClient = 0 <=> \A i \in DOMAIN toBnc : toBnc[i] \in {}
      BY <2>1, OwedZero DEF AtClient
    <2>3. toBnc # <<>> => 1 \in DOMAIN toBnc
      BY <2>1
    <2> QED
      BY <2>2, <2>3 DEF Unasked
  <1>4. Extra = 0
    BY <1>1 DEF Extra
  <1> QED
    BY <1>2, <1>3, <1>4, NumberTypes, WireTypes DEF Balance

\* No command is answered twice, whatever the client, the site and the relink
\* site do: each reply that is still on its way, and each the thread is about
\* to write, is one the client waits for.  Where IDNT is no command, no client
\* is an entry.
THEOREM AnsweredNoMore ==
    ASSUME EntriesMatch PROVE Spec => []AnsweredOnce
  <1>1. CountInv /\ [Next]_vars => CountInv'
    BY CountStep, CountStutter
  <1>2. Init => CountInv
    BY CountInit
  <1>3. CountInv => AnsweredOnce
    BY CountedOnce
  <1> QED
    BY <1>1, <1>2, <1>3, PTL DEF Spec

-----------------------------------------------------------------------------
(* A client that waits for its replies *)

Alone ==
    /\ Starting => due >= 1
    /\ ~ahead => due <= 1
    /\ Starting /\ ~ahead => asked = "none"
    /\ Starting /\ ~ahead => toBnc \in {<<>>, <<"IDNT">>}
    /\ Starting /\ ~ahead /\ toBnc # <<>> => On("client_is_entry")

\* The thread and the site ask nothing in the name of the client.
LEMMA OnlyClientAsks ==
    ASSUME TypeOK, Steps, ~ClientSends, pc' # "gone"
    PROVE  /\ UNCHANGED <<config, ahead, asked>>
           /\ due' \in {due, due - 1}
           /\ Starting' => Starting /\ due' = due
           /\ Starting' => toBnc' = toBnc
  <1> USE DEF Starting
  <1>0. due \in Int
    BY DEF TypeOK
  <1>1. \A line : Heard(line) => asked' = asked /\ due' \in {due, due - 1}
    BY DEF Heard
  <1>2. \A cmd : SentOn(cmd) => asked' = asked /\ due' = due
    BY DEF SentOn
  <1>3. Silent => asked' = asked /\ due' = due
    BY DEF Silent
  <1>4. CASE CheckEntry \/ AskIdent \/ ConnectSite
    BY <1>3, <1>4, BeginStep, ConnectSiteStep
  <1>5. CASE SendIdnt \/ ReadIdnt
    BY <1>2, <1>3, <1>5, SendIdntStep, ReadIdntStep
  <1>6. CASE Welcome \/ ReadSite \/ ReadClient
    BY <1>1, <1>6, WelcomeStep, ReadSiteStep, ReadClientStep
  <1>7. CASE FirstReply \/ UserReply \/ PassReply \/ OtherReply
    <2>1. ReplyPassed \/ ReplyRelinks
      BY <1>7, ReplyStep
    <2>2. asked' = asked /\ due' \in {due, due - 1} /\ ~Starting'
      BY <1>1, <1>3, <2>1 DEF ReplyPassed, ReplyRelinks
    <2> QED
      BY <1>7, <2>2, ReplyStep
  <1>8. CASE SslConnect \/ SslAccept \/ RelinkSite
    BY <1>8, SslConnectStep, SslAcceptStep, RelinkedStep
  <1>9. CASE TellFailure \/ AskPass \/ WaitPass \/ TellLoggedIn
    BY <1>1, <1>3, <1>9, ToldFailureStep, AskPassStep, WaitPassStep, TellLoggedInStep
  <1>10. CASE CommandSteps
    <2>1. asked' = asked /\ due' \in {due, due - 1}
      BY <1>1, <1>2, <1>10, CommandCases DEF Answered, PassedOn, Quits
    <2> QED
      BY <1>10, <2>1, CommandPlaces
  <1>11. CASE Handshakes \/ SiteHandles \/ ClientCloses \/ SiteCloses
    BY <1>11, HandshakesStep, SiteSays, ClosesStep
  <1> QED
    BY <1>4, <1>5, <1>6, <1>7, <1>8, <1>9, <1>10, <1>11 DEF Steps

LEMMA AloneStep ==
    ASSUME TypeOK, Alone, Steps, pc' # "gone" PROVE Alone'
  <1>0. due \in Int /\ ahead \in BOOLEAN
    BY DEF TypeOK
  <1>1. CASE ClientSends
    <2>1. /\ due' = due + 1 /\ (ahead' <=> ahead \/ due > 0) /\ UNCHANGED <<config, pc>>
      BY <1>1, ClientSendsStep
    <2>2. Starting' <=> Starting
      BY <2>1 DEF Starting
    <2>3. Starting => due' >= 1 /\ ahead'
      BY <1>0, <2>1 DEF Alone
    <2>4. ~ahead' => due' <= 1
      BY <1>0, <2>1
    <2> QED
      BY <2>2, <2>3, <2>4 DEF Alone
  <1>2. CASE ~ClientSends
    <2>1. /\ UNCHANGED <<config, ahead, asked>> /\ due' \in {due, due - 1}
          /\ Starting' => Starting /\ due' = due
          /\ Starting' => toBnc' = toBnc
      BY <1>2, OnlyClientAsks
    <2>2. ~ahead' => due' <= 1
      BY <1>0, <2>1 DEF Alone
    <2> QED
      BY <2>1, <2>2 DEF Alone, On
  <1> QED
    BY <1>1, <1>2

\* What the site says to a command
Says(cmd) ==
    CASE cmd = "none" -> {"220"}
      [] cmd = "AUTH TLS" -> {"234 TLS", "no"}
      [] cmd = "AUTH SSL" -> {"234 SSL", "no"}
      [] cmd = "USER" -> {"331", "denied", "no"}
      [] cmd = "PASS" -> {"230", "530", "full", "no"}
      [] cmd \in OptionCommands \cup {"NOOP"} -> {"200", "no"}
      [] cmd = "empty USER" -> {"no"}
      [] cmd = "QUIT" -> {"221"}
      [] OTHER -> {}

\* It is the answer to what the client asked, and a refusal is one the site made.
Due(line) ==
    /\ line \in Says(Forwarded(asked))
    /\ line \in {"no", "530", "denied"} =>
         (IF asked \in {"USER", "PASS"} THEN "login" ELSE "option") \in refused

Waits == ~ahead /\ ~Moved

\* No reply comes too much: the login at a relink site has not failed.
Served == ~ahead /\ ~lost

\* Nothing but the command of a client that waits, or its answer, is on its way.
Flight ==
    Served =>
      /\ ~Starting => \A x : Among(x, toBnc) => x = asked
      /\ pc = "command" => input = asked
      /\ pc = "quit" => asked = "QUIT"
      /\ \A x : Among(x, toSite) => x = "IDNT" \/ x = Forwarded(asked)
      /\ \A x : Has(x) => x \in Parts \/ Due(x)

\* The client has sent PASS and waits for the answer.
PassAsked ==
    /\ Starting \/ pc = "welcome" => ~gotusercmd
    /\ gotusercmd => pc \notin {"sslconnect", "sslaccept"}
    /\ Waits /\ gotpasscmd /\ ~gotwelcomemsg =>
         asked = "PASS" /\ due = 1 /\ toBnc = <<>> /\ pc \notin {"command", "quit"}

Refusal ==
    "login" \in refused \/ (On("enforce_tls") /\ On("relink_notls") /\ ~usingssl)

LEMMA SingleAnswers ==
    ASSUME TypeOK, NEW cmd \in AllCommands, NEW line, <<line>> \in Answers(cmd)
    PROVE  line \in Says(cmd)
  <1>1. <<line>> # <<>> /\ <<line>> # <<"230-", "230">> /\ \A x : <<line>> = <<x>> <=> line = x
    OBVIOUS
  <1>2. CASE cmd \in AuthCommands
    BY <1>1, <1>2 DEF Answers, No, Says, AuthCommands, OptionCommands
  <1>3. CASE cmd \in {"USER", "PASS"}
    BY <1>1, <1>3 DEF Answers, No, Says, OptionCommands
  <1>4. CASE cmd \in OptionCommands
    BY <1>1, <1>4 DEF Answers, No, Says, OptionCommands
  <1>5. CASE cmd \in {"IDNT", "empty USER", "QUIT", "NOOP"}
    BY <1>1, <1>5 DEF Answers, No, Says, OptionCommands
  <1> QED
    BY <1>2, <1>3, <1>4, <1>5 DEF AllCommands

LEMMA NothingOwed ==
    ASSUME TypeOK, Counted, Alone, pc # "gone", Served, due <= 0
    PROVE  /\ due = 0 /\ ~Starting /\ toBnc = <<>>
           /\ \A x : Among(x, toSite) => x = "IDNT"
           /\ \A x : Has(x) => x \in Parts
           /\ pc \notin {"command", "quit"}
  <1>1. ~Starting /\ Unasked = 0 /\ Extra = 0
    <2>1. due \in Int
      BY DEF TypeOK
    <2>2. ~Starting
      BY <2>1 DEF Alone
    <2> QED
      BY <2>2 DEF Served, Unasked, Extra
  <1>2. due = 0 /\ AtClient = 0 /\ AtSite = 0 /\ AtBnc = 0 /\ InHand = 0
    BY <1>1, WireTypes, NumberTypes DEF Counted, Balance
  <1>3. /\ toBnc \in Seq(AllCommands) /\ toSite \in Seq(AllCommands) /\ fromSite \in Seq(Replies)
    BY DEF TypeOK
  <1>4. \A i \in DOMAIN toBnc : toBnc[i] \in {}
    BY <1>2, <1>3, OwedZero DEF AtClient
  <1>5. toBnc = <<>>
    <2>1. toBnc # <<>> => 1 \in DOMAIN toBnc
      BY <1>3
    <2> QED
      BY <1>4, <2>1
  <1>6. \A i \in DOMAIN toSite : toSite[i] \in {"IDNT"}
    BY <1>2, <1>3, OwedZero DEF AtSite
  <1>7. \A i \in DOMAIN fromSite : fromSite[i] \in Parts
    BY <1>2, <1>3, OwedZero DEF AtBnc
  <1>8. pc \notin {"command", "quit"} /\ (pc = "reply" => input \in Parts)
    BY <1>2 DEF InHand, Endline, Parts
  <1> QED
    BY <1>1, <1>2, <1>5, <1>6, <1>7, <1>8 DEF Among, Has

\* With one reply due, what is on its way is in one place.
LEMMA OneOwed ==
    ASSUME TypeOK, Counted, Alone, pc # "gone", Served, ~Starting
    PROVE  /\ due \in {0, 1}
           /\ InHand = 1 => /\ due = 1 /\ toBnc = <<>>
                            /\ \A x : Among(x, toSite) => x = "IDNT"
                            /\ \A x : Among(x, fromSite) => x \in Parts
           /\ toBnc # <<>> => /\ due = 1 /\ InHand = 0
                              /\ \A x : Among(x, toSite) => x = "IDNT"
                              /\ \A x : Has(x) => x \in Parts
  <1>1. Unasked = 0 /\ Extra = 0
    BY DEF Served, Unasked, Extra
  <1>2. due <= 1 /\ due >= AtClient + AtSite + AtBnc + InHand
    BY <1>1, WireTypes, NumberTypes DEF Served, Alone, Counted, Balance
  <1>3. /\ toBnc \in Seq(AllCommands) /\ toSite \in Seq(AllCommands) /\ fromSite \in Seq(Replies)
    BY DEF TypeOK
  <1>4. AtClient = 0 <=> toBnc = <<>>
    <2>1. AtClient = 0 <=> \A i \in DOMAIN toBnc : toBnc[i] \in {}
      BY <1>3, OwedZero DEF AtClient
    <2>2. toBnc # <<>> => 1 \in DOMAIN toBnc
      BY <1>3
    <2>3. DOMAIN <<>> = {}
      OBVIOUS
    <2> QED
      BY <2>1, <2>2, <2>3
  <1>5. AtSite = 0 => \A x : Among(x, toSite) => x = "IDNT"
    <2>1. AtSite = 0 <=> \A i \in DOMAIN toSite : toSite[i] \in {"IDNT"}
      BY <1>3, OwedZero DEF AtSite
    <2> QED
      BY <2>1 DEF Among
  <1>6. AtBnc = 0 => \A x : Among(x, fromSite) => x \in Parts
    <2>1. AtBnc = 0 <=> \A i \in DOMAIN fromSite : fromSite[i] \in Parts
      BY <1>3, OwedZero DEF AtBnc
    <2> QED
      BY <2>1 DEF Among
  <1>7. InHand = 0 /\ pc = "reply" => input \in Parts
    BY DEF InHand, Endline, Parts
  <1>8. due \in {0, 1}
    BY <1>2, WireTypes, NumberTypes
  <1>9. ASSUME InHand = 1 PROVE due = 1 /\ AtClient = 0 /\ AtSite = 0 /\ AtBnc = 0
    BY <1>2, <1>8, <1>9, WireTypes
  <1>10. ASSUME AtClient # 0 PROVE due = 1 /\ InHand = 0 /\ AtSite = 0 /\ AtBnc = 0
    BY <1>2, <1>8, <1>10, WireTypes, NumberTypes
  <1> QED
    BY <1>4, <1>5, <1>6, <1>7, <1>8, <1>9, <1>10 DEF Has

LEMMA MovedStays ==
    ASSUME TypeOK, Steps, pc' # "gone" PROVE Waits' => Waits
  <1> USE DEF Waits, Moved, RelinkPlaces
  <1>1. CASE ClientSends
    BY <1>1, ClientSendsStep
  <1>2. CASE ~ClientSends
    <2>1. ahead' = ahead
      BY <1>2, OnlyClientAsks
    <2>2. CASE \/ CheckEntry \/ AskIdent \/ ConnectSite \/ SendIdnt \/ ReadIdnt \/ Welcome
               \/ ReadSite \/ ReadClient
      BY <2>1, <2>2, BeginStep, ConnectSiteStep, SendIdntStep, ReadIdntStep, WelcomeStep,
         ReadSiteStep, ReadClientStep
    <2>3. CASE FirstReply \/ UserReply \/ PassReply \/ OtherReply \/ SslConnect \/ SslAccept
      BY <2>1, <2>3, ReplyStep, SslConnectStep, SslAcceptStep
    <2>4. CASE RelinkSite \/ TellFailure \/ AskPass \/ WaitPass \/ TellLoggedIn
      BY <2>4, RelinkedStep, ToldFailureStep, AskPassStep, WaitPassStep, TellLoggedInStep
    <2>5. CASE CommandSteps
      BY <2>1, <2>5, CommandPlaces
    <2>6. CASE Handshakes \/ SiteHandles \/ ClientCloses \/ SiteCloses
      BY <2>1, <2>6, HandshakesStep, SiteSays, ClosesStep
    <2> QED
      BY <1>2, <2>2, <2>3, <2>4, <2>5, <2>6 DEF Steps
  <1> QED
    BY <1>1, <1>2

LEMMA WaitsServed ==
    ASSUME Stage, Waits PROVE Served
  BY DEF Stage, Waits, Served

LEMMA ServedStays ==
    ASSUME TypeOK, Stage, Steps, pc' # "gone" PROVE Served' => Served
  <1>1. ~ahead' => ~ahead
    BY OnlyClientAsks, ClientSendsStep
  <1>2. ~lost' => ~lost
    <2>1. CASE \/ CheckEntry \/ AskIdent \/ ConnectSite \/ SendIdnt \/ ReadIdnt \/ Welcome
               \/ ReadSite \/ ReadClient
      BY <2>1, BeginStep, ConnectSiteStep, SendIdntStep, ReadIdntStep, WelcomeStep,
         ReadSiteStep, ReadClientStep
    <2>2. CASE FirstReply \/ UserReply \/ PassReply \/ OtherReply \/ SslConnect \/ SslAccept
      BY <2>2, ReplyStep, SslConnectStep, SslAcceptStep
    <2>3. CASE RelinkSite
      BY <2>3, RelinkedStep DEF Stage
    <2>4. CASE TellFailure \/ AskPass \/ WaitPass \/ TellLoggedIn
      BY <2>4, ToldFailureStep, AskPassStep, WaitPassStep, TellLoggedInStep
    <2>5. CASE CommandSteps \/ ClientSends \/ Handshakes \/ SiteHandles \/ ClientCloses
               \/ SiteCloses
      BY <2>5, CommandPlaces, ClientSendsStep, HandshakesStep, SiteSays, ClosesStep
    <2> QED
      BY <2>1, <2>2, <2>3, <2>4, <2>5 DEF Steps
  <1> QED
    BY <1>1, <1>2 DEF Served

LEMMA DueKept ==
    ASSUME asked' = asked, config' = config, refused \subseteq refused'
    PROVE  /\ Forwarded(asked)' = Forwarded(asked)
           /\ \A x : Due(x) => Due(x)'
  BY DEF Due, Forwarded, On

\* A step that puts nothing on its way
LEMMA FlightKept ==
    ASSUME Flight, Served' => Served, asked' = asked, config' = config, refused \subseteq refused',
           ~Starting' => toBnc' = <<>> \/ (~Starting /\ \A x : Among(x, toBnc') => Among(x, toBnc)),
           \A x : Among(x, toSite') => x = "IDNT" \/ Among(x, toSite),
           \A x : Has(x)' => Has(x),
           pc' = "command" => /\ pc = "command" /\ input' = input,
           pc' = "quit" => pc = "quit"
    PROVE  Flight'
  BY DueKept, AmongNothing DEF Flight

LEMMA FlightStart ==
    ASSUME EntriesMatch, TypeOK, Stage, Stage', Alone, Flight, Steps, pc' # "gone",
           CheckEntry \/ AskIdent \/ ConnectSite \/ SendIdnt \/ ReadIdnt \/ Welcome
    PROVE  Flight'
  <1> USE DEF Starting
  <1>0. Served' => Served
    BY ServedStays
  <1>1. CASE CheckEntry \/ AskIdent
    <2>1. /\ pc \in {"entry", "ident"} /\ pc' \in {"ident", "connect"} /\ asked' = asked
          /\ UNCHANGED <<config, toBnc, toSite, fromSite, refused>>
      BY <1>1, BeginStep DEF Silent
    <2> QED
      BY <1>0, <2>1, FlightKept DEF Has
  <1>2. CASE ConnectSite
    <2>1. /\ pc = "connect" /\ pc' = "idnt" /\ asked' = asked
          /\ UNCHANGED <<config, toSite, refused>>
      BY <1>2, ConnectSiteStep DEF Silent
    <2>2. \A x : Has(x)' => x = "220"
      BY <2>1 DEF Has, Stage
    <2>3. Served' => Due("220")'
      <3>1. Served => asked = "none"
        BY <2>1 DEF Served, Alone
      <3>2. "220" \in Says("none") /\ "220" \notin {"no", "530", "denied"}
        BY DEF Says, OptionCommands
      <3>3. Forwarded("none") = "none"
        BY DEF Forwarded
      <3> QED
        BY <1>0, <2>1, <3>1, <3>2, <3>3, DueKept DEF Due
    <2> QED
      BY <1>0, <2>1, <2>2, <2>3, DueKept DEF Flight
  <1>3. CASE SendIdnt
    <2>1. /\ pc = "idnt" /\ pc' = (IF ReadsIdnt THEN "readidnt" ELSE "welcome") /\ asked' = asked
          /\ UNCHANGED <<config, toBnc, fromSite, refused>>
      BY <1>3, SendIdntStep DEF Silent
    <2>2. \A x : Among(x, toSite') => x = "IDNT"
      BY <2>1 DEF Stage
    <2>3. Served /\ ~Starting' => toBnc' = <<>>
      <3>1. config \in Configs
        BY DEF TypeOK
      <3> QED
        BY <2>1, <3>1 DEF EntriesMatch, ReadsIdnt, On, Alone, Served
    <2>4. \A x : Has(x)' => Has(x)
      BY <2>1 DEF Has
    <2> QED
      BY <1>0, <2>1, <2>2, <2>3, <2>4, DueKept, AmongNothing DEF Flight
  <1>4. CASE ReadIdnt
    <2>1. /\ pc = "readidnt" /\ pc' = "welcome" /\ toBnc # <<>> /\ toBnc' = Tail(toBnc)
          /\ asked' = asked /\ toSite' = Append(toSite, "IDNT")
          /\ UNCHANGED <<config, fromSite, refused>>
      BY <1>4, ReadIdntStep DEF SentOn
    <2>2. \A x : Among(x, toSite') => x = "IDNT" \/ Among(x, toSite)
      BY <2>1, ToAppend DEF AllCommands
    <2>3. Served /\ ~Starting' => toBnc' = <<>>
      <3>1. Tail(<<"IDNT">>) = <<>>
        OBVIOUS
      <3>2. Served => toBnc = <<"IDNT">>
        BY <2>1 DEF Alone, Served
      <3> QED
        BY <2>1, <3>1, <3>2
    <2>4. \A x : Has(x)' => Has(x)
      BY <2>1 DEF Has
    <2> QED
      BY <1>0, <2>1, <2>2, <2>3, <2>4, DueKept, AmongNothing DEF Flight
  <1>5. CASE Welcome
    <2>1. /\ pc = "welcome" /\ pc' = "select" /\ fromSite # <<>> /\ fromSite' = Tail(fromSite)
          /\ \E line \in {"220", Head(fromSite)} : Heard(line)
          /\ UNCHANGED <<config, toBnc, toSite, refused>>
      BY <1>5, WelcomeStep
    <2>2. asked' = asked
      BY <2>1 DEF Heard
    <2>3. \A x : Has(x)' => Has(x)
      BY <2>1, FromTail DEF Has
    <2> QED
      BY <1>0, <2>1, <2>2, <2>3, FlightKept
  <1> QED
    BY <1>1, <1>2, <1>3, <1>4, <1>5

LEMMA FlightRead ==
    ASSUME TypeOK, Stage, Flight, Steps, pc' # "gone",
           ReadSite \/ ReadClient \/ FirstReply \/ UserReply \/ PassReply \/ OtherReply
           \/ SslConnect \/ SslAccept
    PROVE  Flight'
  <1> USE DEF Starting
  <1>0. Served' => Served
    BY ServedStays
  <1>1. CASE ReadSite
    <2>1. /\ pc \in {"select", "sslsite"} /\ pc' \in {"select", "sslsite", "reply"}
          /\ UNCHANGED <<config, toBnc, toSite, refused, asked>>
      BY <1>1, ReadSiteStep
    <2>2. \A x : Has(x)' <=> Has(x)
      BY <1>1, ReadReply
    <2> QED
      BY <1>0, <2>1, <2>2, FlightKept
  <1>2. CASE ReadClient
    <2>1. /\ pc \in {"select", "sslclient"} /\ UNCHANGED <<config, toSite, fromSite, refused, asked>>
      BY <1>2, ReadClientStep
    <2>2. CASE pc' = "command" /\ toBnc # <<>> /\ input' = Head(toBnc) /\ toBnc' = Tail(toBnc)
      <3>1. toBnc \in Seq(AllCommands)
        BY DEF TypeOK
      <3>2. \A x : Among(x, toBnc) <=> x = Head(toBnc) \/ Among(x, Tail(toBnc))
        BY <2>2, <3>1, AmongTail
      <3>3. \A x : Has(x)' => Has(x)
        BY <2>1, <2>2 DEF Has
      <3> QED
        BY <1>0, <2>1, <2>2, <3>2, <3>3, DueKept DEF Flight
    <2>3. CASE pc' \in {"select", "sslclient"} /\ toBnc' = toBnc
      <3>1. \A x : Has(x)' => Has(x)
        BY <2>1, <2>3 DEF Has
      <3> QED
        BY <1>0, <2>1, <2>3, <3>1, FlightKept
    <2> QED
      BY <1>2, <2>2, <2>3, ReadClientStep
  <1>3. CASE FirstReply \/ UserReply \/ PassReply \/ OtherReply
    <2>1. /\ pc = "reply" /\ UNCHANGED <<config, toBnc, toSite, fromSite, refused>>
          /\ ReplyPassed \/ ReplyRelinks
      BY <1>3, ReplyStep
    <2>2. asked' = asked /\ pc' \notin {"command", "quit", "reply"} /\ ~Starting'
      BY <2>1 DEF ReplyPassed, ReplyRelinks, Heard, Silent
    <2>3. \A x : Has(x)' => Has(x)
      BY <2>1, <2>2 DEF Has
    <2> QED
      BY <1>0, <2>1, <2>2, <2>3, FlightKept
  <1>4. CASE SslConnect \/ SslAccept
    <2>1. /\ pc \in {"sslconnect", "sslaccept"} /\ pc' \in {"sslconnect", "sslaccept", "select"}
          /\ UNCHANGED <<config, toBnc, toSite, fromSite, refused, asked>>
      BY <1>4, SslConnectStep, SslAcceptStep
    <2>2. \A x : Has(x)' => Has(x)
      BY <2>1 DEF Has
    <2> QED
      BY <1>0, <2>1, <2>2, FlightKept
  <1> QED
    BY <1>1, <1>2, <1>3, <1>4

\* tryrelink leaves nobody who waits at the first site.
LEMMA RelinkMoves ==
    ASSUME TypeOK, pc' # "gone", RelinkSite \/ TellFailure \/ AskPass \/ WaitPass \/ TellLoggedIn
    PROVE  Moved'
  BY RelinkedStep, ToldFailureStep, AskPassStep, WaitPassStep, TellLoggedInStep
  DEF Moved, RelinkPlaces

LEMMA FlightPeers ==
    ASSUME TypeOK, Stage, Counted, Alone, Flight, Steps, pc' # "gone",
           CommandSteps \/ ClientSends \/ Handshakes \/ SiteHandles \/ ClientCloses \/ SiteCloses
    PROVE  Flight'
  <1>0. Served' => Served
    BY ServedStays
  <1>1. CASE CommandSteps
    <2>1. /\ pc \in {"command", "quit"} /\ pc' \in {"select", "quit"}
          /\ UNCHANGED <<config, toBnc, fromSite, refused>>
      BY <1>1, CommandPlaces
    <2>2. asked' = asked
      BY <1>1, CommandCases DEF Answered, PassedOn, Quits, Heard, SentOn
    <2>3. Served => (pc' = "quit" => asked = "QUIT")
      <3>1. pc' = "quit" => pc = "command" /\ input = "QUIT"
        BY <1>1, <2>1, CommandCases DEF Answered, PassedOn, Quits
      <3> QED
        BY <3>1 DEF Flight
    <2>4. Served => \A x : Among(x, toSite') => x = Forwarded(asked) \/ Among(x, toSite)
      <3>1. CASE toSite' = toSite
        BY <3>1
      <3>2. CASE PassedOn
        <4>1. input \in AllCommands /\ toSite' = Append(toSite, Forwarded(input)) /\ pc = "command"
          BY <3>2 DEF PassedOn, SentOn, Stage, InputRead
        <4>2. Forwarded(input) \in AllCommands
          BY <4>1, ForwardedFacts
        <4> QED
          BY <4>1, <4>2, ToAppend DEF Flight
      <3>3. CASE pc = "quit" /\ SentOn("QUIT")
        <4>1. toSite' = Append(toSite, "QUIT") /\ "QUIT" \in AllCommands
          BY <3>3 DEF SentOn, AllCommands
        <4>2. Forwarded("QUIT") = "QUIT"
          BY DEF Forwarded
        <4> QED
          BY <3>3, <4>1, <4>2, ToAppend DEF Flight
      <3> QED
        BY <1>1, <3>1, <3>2, <3>3, CommandCases DEF Answered, Quits
    <2>5. \A x : Has(x)' => Has(x)
      BY <2>1 DEF Has
    <2> QED
      BY <1>0, <2>1, <2>2, <2>3, <2>4, <2>5, DueKept DEF Flight, Starting
  <1>2. CASE ClientSends
    <2>1. /\ asked' \in AllCommands /\ toBnc' = Append(toBnc, asked') /\ (ahead' <=> ahead \/ due > 0)
          /\ pc # "gone" /\ UNCHANGED <<config, pc, input, toSite, fromSite, relinked>>
      BY <1>2, ClientSendsStep
    <2>2. SUFFICES ASSUME Served' PROVE Flight'
      BY DEF Flight
    <2>3. Served /\ due <= 0
      BY <1>0, <2>1, <2>2 DEF Served, TypeOK
    <2>4. /\ toBnc = <<>> /\ pc \notin {"command", "quit"}
          /\ \A x : Among(x, toSite) => x = "IDNT"
          /\ \A x : Has(x) => x \in Parts
      BY <2>1, <2>3, NothingOwed
    <2>5. \A x : Among(x, toBnc') => x = asked'
      <3>1. toBnc \in Seq(AllCommands)
        BY DEF TypeOK
      <3>2. \A x : Among(x, Append(toBnc, asked')) <=> x = asked' \/ Among(x, toBnc)
        BY <2>1, <3>1, AmongAppend
      <3> QED
        BY <2>1, <2>4, <3>2, AmongNothing
    <2>6. \A x : Has(x)' => x \in Parts
      BY <2>1, <2>4 DEF Has
    <2> QED
      BY <2>1, <2>4, <2>5, <2>6 DEF Flight
  <1>3. CASE Handshakes \/ ClientCloses \/ SiteCloses
    <2>1. UNCHANGED <<config, pc, input, toBnc, toSite, fromSite, refused, asked>>
      BY <1>3, HandshakesStep, ClosesStep
    <2>2. \A x : Has(x)' => Has(x)
      BY <2>1 DEF Has
    <2> QED
      BY <1>0, <2>1, <2>2, FlightKept DEF Starting
  <1>4. CASE SiteHandles
    <2>1. /\ toSite # <<>> /\ Head(toSite) \in AllCommands
          /\ UNCHANGED <<config, pc, input, toBnc, asked>>
      BY <1>4, SiteSays
    <2>2. \A x : Among(x, toSite) <=> x = Head(toSite) \/ Among(x, Tail(toSite))
      BY <2>1, ToTail
    <2>3. Served => Head(toSite) = "IDNT" \/ Head(toSite) = Forwarded(asked)
      BY <2>2 DEF Flight
    <2>4. refused \subseteq refused' /\ \A x : Among(x, toSite') => Among(x, toSite)
      <3>1. toSite' = <<>> \/ toSite' = Tail(toSite)
        BY <1>4, SiteSays DEF SiteKeeps, SiteWelcomes, SiteLine
      <3>2. refused \subseteq refused'
        BY <1>4, SiteSays DEF SiteKeeps, SiteWelcomes, SiteLine
      <3> QED
        BY <2>2, <3>1, <3>2, AmongNothing
    <2>5. Served => \A x : Has(x)' => x \in Parts \/ Due(x)'
      <3>1. CASE SiteKeeps
        BY <2>1, <2>4, <3>1, DueKept DEF SiteKeeps, Has, Flight
      <3>2. CASE SiteWelcomes
        <4>1. \A x : Has(x)' => x \in {"230-", "230"} \/ Has(x)
          BY <2>1, <3>2, SaidWelcome
        <4>2. "230" \in Says("PASS") /\ "230-" \in Parts
          BY DEF Says, OptionCommands, Parts
        <4>3. Served => Due("230")
          BY <2>3, <3>2, <4>2 DEF SiteWelcomes, Due
        <4> QED
          BY <2>1, <2>4, <4>1, <4>2, <4>3, DueKept DEF Flight
      <3>3. ASSUME NEW line \in Replies, SiteLine(line)
            PROVE  Served => \A x : Has(x)' => x \in Parts \/ Due(x)'
        <4>1. \A x : Has(x)' => x = line \/ Has(x)
          BY <2>1, <3>3, SaidLine
        <4>2. Head(toSite) # "IDNT" /\ line \in Says(Head(toSite))
          BY <2>1, <3>3, SingleAnswers DEF SiteLine
        <4>3. line \in {"no", "530", "denied"} =>
                (IF Head(toSite) \in {"USER", "PASS"} THEN "login" ELSE "option") \in refused'
          BY <3>3 DEF SiteLine
        <4>4. Served => Due(line)'
          <5>1. Served => Head(toSite) = Forwarded(asked)
            BY <2>3, <4>2
          <5>2. Forwarded(asked) \in {"USER", "PASS"} <=> asked \in {"USER", "PASS"}
            BY DEF Forwarded
          <5>3. Forwarded(asked)' = Forwarded(asked) /\ asked' = asked
            BY <2>1 DEF Forwarded, On
          <5> QED
            BY <4>2, <4>3, <5>1, <5>2, <5>3 DEF Due
        <4> QED
          BY <2>1, <2>4, <4>1, <4>4, DueKept DEF Flight
      <3> QED
        BY <1>4, <3>1, <3>2, <3>3, SiteSays
    <2>6. Forwarded(asked)' = Forwarded(asked) /\ (Starting' <=> Starting)
      BY <2>1 DEF Forwarded, On, Starting
    <2> QED
      BY <1>0, <2>1, <2>4, <2>5, <2>6 DEF Flight
  <1> QED
    BY <1>1, <1>2, <1>3, <1>4

\* The relink cuts the connection to the first site.
LEMMA FlightRelink ==
    ASSUME TypeOK, Stage, Flight, Steps, pc' # "gone",
           RelinkSite \/ TellFailure \/ AskPass \/ WaitPass \/ TellLoggedIn
    PROVE  Flight'
  <1>0. Served' => Served
    BY ServedStays
  <1>1. /\ pc \in RelinkPlaces /\ pc' \in RelinkPlaces \cup {"select"}
        /\ UNCHANGED <<config, refused, asked>>
        /\ toBnc' = toBnc \/ (toBnc # <<>> /\ toBnc' = Tail(toBnc))
        /\ (UNCHANGED <<toSite, fromSite>>) \/ (toSite' = <<>> /\ fromSite' = <<>>)
    <2>1. CASE RelinkSite
      BY <2>1, RelinkedStep DEF RelinkPlaces
    <2>2. CASE TellFailure \/ AskPass \/ TellLoggedIn
      BY <2>2, ToldFailureStep, AskPassStep, TellLoggedInStep DEF RelinkPlaces, Heard, Silent
    <2>3. CASE WaitPass
      BY <2>3, WaitPassStep DEF RelinkPlaces, Heard, Silent
    <2> QED
      BY <2>1, <2>2, <2>3
  <1>2. \A x : Among(x, toBnc') => Among(x, toBnc)
    <2>1. toBnc \in Seq(AllCommands)
      BY DEF TypeOK
    <2>2. toBnc # <<>> => \A x : Among(x, Tail(toBnc)) => Among(x, toBnc)
      BY <2>1, AmongTail
    <2> QED
      BY <1>1, <2>2
  <1>3. \A x : Among(x, toSite') => Among(x, toSite)
    BY <1>1, AmongNothing
  <1>4. \A x : Has(x)' => Has(x)
    BY <1>1, AmongNothing DEF Has, RelinkPlaces
  <1>5. /\ ~Starting /\ pc' \notin {"command", "quit"} /\ UNCHANGED <<config, asked>>
        /\ refused \subseteq refused'
    BY <1>1 DEF Starting, RelinkPlaces
  <1> QED
    BY <1>0, <1>2, <1>3, <1>4, <1>5, FlightKept

LEMMA FlightStep ==
    ASSUME EntriesMatch, TypeOK, Stage, Stage', Counted, Alone, Flight, Steps, pc' # "gone"
    PROVE  Flight'
  <1>1. CASE RelinkSite \/ TellFailure \/ AskPass \/ WaitPass \/ TellLoggedIn
    BY <1>1, FlightRelink
  <1> QED
    BY <1>1, FlightStart, FlightRead, FlightPeers DEF Steps

LEMMA PassStart ==
    ASSUME TypeOK, Stage, PassAsked, pc' # "gone",
           \/ CheckEntry \/ AskIdent \/ ConnectSite \/ SendIdnt \/ ReadIdnt \/ Welcome
           \/ SslConnect \/ SslAccept
    PROVE  PassAsked'
  <1>1. ~gotusercmd /\ UNCHANGED <<gotusercmd, gotpasscmd>>
    <2>1. CASE CheckEntry \/ AskIdent \/ ConnectSite \/ SendIdnt \/ ReadIdnt \/ Welcome
      BY <2>1, BeginStep, ConnectSiteStep, SendIdntStep, ReadIdntStep, WelcomeStep
      DEF PassAsked, Starting
    <2>2. CASE SslConnect \/ SslAccept
      BY <2>2, SslConnectStep, SslAcceptStep DEF PassAsked
    <2> QED
      BY <2>1, <2>2
  <1>2. ~gotpasscmd
    BY <1>1 DEF Stage
  <1> QED
    BY <1>1, <1>2 DEF PassAsked

LEMMA PassKept ==
    ASSUME TypeOK, Stage, Counted, Alone, Flight, PassAsked, Steps, pc' # "gone",
           UNCHANGED <<gotusercmd, gotpasscmd, gotwelcomemsg, asked, due, toBnc>>,
           pc' = pc \/ pc' \in {"select", "sslsite", "sslclient", "reply", "relink0", "relink1"}
    PROVE  PassAsked'
  BY MovedStays DEF PassAsked, Starting

LEMMA PassRead ==
    ASSUME TypeOK, Stage, Counted, Alone, Flight, PassAsked, Steps, pc' # "gone",
           ReadSite \/ ReadClient \/ FirstReply \/ UserReply \/ PassReply \/ OtherReply
    PROVE  PassAsked'
  <1>0. Waits' => Waits
    BY MovedStays
  <1>1. CASE ReadSite
    BY <1>1, ReadSiteStep, PassKept
  <1>2. CASE ReadClient
    <2>1. CASE pc' = "command" /\ toBnc # <<>>
      <3>1. UNCHANGED <<gotusercmd, gotpasscmd, gotwelcomemsg>>
        BY <1>2, ReadClientStep
      <3> QED
        BY <1>0, <2>1, <3>1 DEF PassAsked, Starting
    <2>2. CASE pc' \in {"select", "sslclient"} /\ toBnc' = toBnc
      BY <1>2, <2>2, ReadClientStep, PassKept
    <2> QED
      BY <1>2, <2>1, <2>2, ReadClientStep
  <1>3. CASE FirstReply \/ UserReply \/ PassReply \/ OtherReply
    <2>1. /\ pc = "reply" /\ UNCHANGED <<toBnc, gotusercmd, gotpasscmd>>
          /\ gotwelcomemsg' <=> gotwelcomemsg \/ (gotusercmd /\ gotpasscmd /\ Endline(input))
          /\ ReplyPassed \/ ReplyRelinks
      BY <1>3, ReplyStep
    <2>2. CASE ReplyRelinks
      <3>1. pc' \in {"relink0", "relink1"}
        BY <2>2 DEF ReplyRelinks
      <3> QED
        BY <3>1 DEF PassAsked, Starting, Waits, Moved, RelinkPlaces
    <2>3. CASE ReplyPassed
      <3>1. /\ pc' \in {"select", "needtls", "sslconnect"}
            /\ pc' = "sslconnect" => ~gotusercmd
            /\ asked' = asked
            /\ ~Endline(input) => due' = due
        <4>1. PICK line : /\ line = input \/ (line = "234 SSL" /\ input = "234 TLS")
                          /\ Heard(line)
          BY <2>3 DEF ReplyPassed
        <4>2. ~Endline(input) => ~Endline(line)
          BY <4>1 DEF Endline
        <4> QED
          BY <2>3, <4>1, <4>2 DEF ReplyPassed, Heard
      <3>2. gotpasscmd /\ ~gotwelcomemsg' => ~Endline(input) /\ ~gotwelcomemsg
        BY <2>1 DEF Stage
      <3> QED
        BY <1>0, <2>1, <3>1, <3>2 DEF PassAsked, Starting
    <2> QED
      BY <2>1, <2>2, <2>3
  <1> QED
    BY <1>1, <1>2, <1>3

LEMMA PassPeers ==
    ASSUME TypeOK, Stage, Counted, Alone, Flight, PassAsked, Steps, pc' # "gone",
           CommandSteps \/ ClientSends \/ Handshakes \/ SiteHandles \/ ClientCloses \/ SiteCloses
    PROVE  PassAsked'
  <1>0. Waits' => Waits
    BY MovedStays
  <1>1. CASE CommandSteps
    <2>1. /\ pc \in {"command", "quit"} /\ pc' \in {"select", "quit"}
          /\ UNCHANGED <<toBnc, gotwelcomemsg>>
      BY <1>1, CommandPlaces
    <2>2. gotpasscmd' <=> gotpasscmd \/ (pc = "command" /\ input = "PASS" /\ gotusercmd)
      BY <1>1, MembersStep DEF MembersSet
    <2>3. SUFFICES ASSUME Waits', gotpasscmd', ~gotwelcomemsg'
                   PROVE  asked' = "PASS" /\ due' = 1 /\ toBnc' = <<>> /\ pc' = "select"
      BY <2>1 DEF PassAsked, Starting
    <2>4. Waits /\ pc = "command" /\ input = "PASS"
      BY <1>0, <2>1, <2>2, <2>3 DEF PassAsked
    <2>8. Served
      BY <2>4, WaitsServed
    <2>5. asked = "PASS"
      BY <2>4, <2>8 DEF Flight
    <2>6. due = 1 /\ toBnc = <<>>
      <3>1. InHand = 1 /\ ~Starting
        BY <2>4 DEF InHand, Starting
      <3> QED
        BY <2>4, <2>8, <3>1, OneOwed
    <2>7. PassedOn
      BY <1>1, <2>4, CommandCases DEF Answered, Quits, ProtCommands, SscnCommands
    <2> QED
      BY <2>1, <2>5, <2>6, <2>7 DEF PassedOn, SentOn
  <1>2. CASE ClientSends
    <2>1. /\ (ahead' <=> ahead \/ due > 0)
          /\ UNCHANGED <<pc, gotusercmd, gotpasscmd, gotwelcomemsg>>
      BY <1>2, ClientSendsStep
    <2>2. Waits' => ~(due = 1)
      BY <2>1 DEF Waits
    <2> QED
      BY <1>0, <2>1, <2>2 DEF PassAsked, Starting
  <1>3. CASE Handshakes \/ SiteHandles \/ ClientCloses \/ SiteCloses
    BY <1>3, HandshakesStep, SiteSays, ClosesStep, PassKept
  <1> QED
    BY <1>1, <1>2, <1>3

LEMMA PassStep ==
    ASSUME TypeOK, Stage, Stage', Counted, Alone, Flight, PassAsked, Steps, pc' # "gone"
    PROVE  PassAsked'
  <1>1. CASE RelinkSite \/ TellFailure \/ AskPass \/ WaitPass \/ TellLoggedIn
    <2>1. Moved' /\ pc' \in RelinkPlaces \cup {"select"}
      BY <1>1, RelinkMoves, RelinkedStep, ToldFailureStep, AskPassStep, WaitPassStep,
         TellLoggedInStep DEF RelinkPlaces
    <2> QED
      BY <2>1 DEF PassAsked, Starting, Waits, RelinkPlaces
  <1> QED
    BY <1>1, PassStart, PassRead, PassPeers DEF Steps

\* What a relink is begun for
LEMMA RelinkBegins ==
    ASSUME TypeOK, Stage, Flight, PassAsked, Steps, pc' # "gone", Waits, Moved'
    PROVE  Refusal'
  <1>1. pc' \in RelinkPlaces \/ relinked'
    BY DEF Moved
  <1>2. ~relinked /\ pc \notin RelinkPlaces
    BY DEF Waits, Moved
  <1>3. FirstReply \/ UserReply \/ PassReply \/ OtherReply
    <2>1. CASE \/ CheckEntry \/ AskIdent \/ ConnectSite \/ SendIdnt \/ ReadIdnt \/ Welcome
               \/ ReadSite \/ ReadClient
      BY <1>1, <1>2, <2>1, BeginStep, ConnectSiteStep, SendIdntStep, ReadIdntStep, WelcomeStep,
         ReadSiteStep, ReadClientStep DEF RelinkPlaces
    <2>2. CASE SslConnect \/ SslAccept \/ CommandSteps
      BY <1>1, <1>2, <2>2, SslConnectStep, SslAcceptStep, CommandPlaces DEF RelinkPlaces
    <2>3. CASE RelinkSite \/ TellFailure \/ AskPass \/ WaitPass \/ TellLoggedIn
      BY <1>2, <2>3, RelinkedStep, ToldFailureStep, AskPassStep, WaitPassStep, TellLoggedInStep
      DEF RelinkPlaces
    <2>4. CASE ClientSends \/ Handshakes \/ SiteHandles \/ ClientCloses \/ SiteCloses
      BY <1>1, <1>2, <2>4, ClientSendsStep, HandshakesStep, SiteSays, ClosesStep DEF RelinkPlaces
    <2> QED
      BY <2>1, <2>2, <2>3, <2>4 DEF Steps
  <1>4. pc = "reply" /\ UNCHANGED <<config, usingssl, refused, relinked>> /\ ReplyRelinks
    BY <1>1, <1>2, <1>3, ReplyStep DEF ReplyPassed, RelinkPlaces
  <1>5. input \notin Parts => Due(input)
    BY <1>4, WaitsServed DEF Flight, Has
  <1>6. CASE MustRelink
    BY <1>4, <1>6 DEF MustRelink, Refusal, On
  <1>7. CASE input = "denied"
    <2>1. "denied" \in Says(Forwarded(asked)) /\ Due("denied")
      BY <1>5, <1>7 DEF Due, Parts
    <2>2. Forwarded(asked) = "USER"
      BY <2>1 DEF Says, OptionCommands
    <2>3. asked = "USER"
      BY <2>2 DEF Forwarded
    <2> QED
      BY <1>4, <2>1, <2>3 DEF Due, Refusal
  <1>8. CASE gotpasscmd /\ ~gotwelcomemsg /\ Endline(input) /\ input \notin {"230", "full"}
    <2>1. asked = "PASS"
      BY <1>8 DEF PassAsked
    <2>2. Due(input)
      BY <1>5, <1>8 DEF Endline, Parts
    <2>3. Says("PASS") = {"230", "530", "full", "no"} /\ Forwarded("PASS") = "PASS"
      BY DEF Says, OptionCommands, Forwarded
    <2>4. "login" \in refused
      BY <1>8, <2>1, <2>2, <2>3 DEF Due
    <2> QED
      BY <1>4, <2>4 DEF Refusal
  <1> QED
    BY <1>4, <1>6, <1>7, <1>8 DEF ReplyRelinks

\* After a relink nobody begins TLS.
LEMMA RefusalKept ==
    ASSUME TypeOK, Stage, PassAsked, Steps, pc' # "gone", Moved, Refusal
    PROVE  Refusal'
  <1>1. UNCHANGED <<config, usingssl>> /\ refused \subseteq refused'
    <2>1. CASE \/ CheckEntry \/ AskIdent \/ ConnectSite \/ SendIdnt \/ ReadIdnt \/ Welcome
               \/ ReadSite \/ ReadClient
      BY <2>1, BeginStep, ConnectSiteStep, SendIdntStep, ReadIdntStep, WelcomeStep,
         ReadSiteStep, ReadClientStep
    <2>2. CASE FirstReply \/ UserReply \/ PassReply \/ OtherReply \/ SslConnect \/ CommandSteps
      BY <2>2, ReplyStep, SslConnectStep, CommandPlaces
    <2>3. CASE RelinkSite \/ TellFailure \/ AskPass \/ WaitPass \/ TellLoggedIn
      BY <2>3, RelinkedStep, ToldFailureStep, AskPassStep, WaitPassStep, TellLoggedInStep
    <2>4. CASE ClientSends \/ Handshakes \/ ClientCloses \/ SiteCloses
      BY <2>4, ClientSendsStep, HandshakesStep, ClosesStep
    <2>5. CASE SiteHandles
      BY <2>5, SiteSays DEF SiteKeeps, SiteWelcomes, SiteLine
    <2>6. ~SslAccept
      <3>1. gotusercmd
        BY DEF Stage, Moved
      <3> QED
        BY <3>1, SslAcceptStep DEF PassAsked
    <2> QED
      BY <2>1, <2>2, <2>3, <2>4, <2>5, <2>6 DEF Steps
  <1> QED
    BY <1>1 DEF Refusal, On

\* The end of a session, and what comes after it, sets no member the relink
\* is judged by.
LEMMA EndKeeps ==
    ASSUME TypeOK, Next, pc' = "gone"
    PROVE  /\ UNCHANGED <<config, relinked, usingssl>> /\ refused \subseteq refused'
           /\ ~ahead' => ~ahead
  <1> USE DEF wires, ups, flags, got, opts, client, history, Goto
  <1>1. CASE Start
    BY <1>1 DEF Start, CheckEntry, AskIdent, ConnectSite, SendIdnt, ReadIdnt, Welcome
  <1>2. CASE Loop
    BY <1>2 DEF Loop, ReadSite, ReadClient
  <1>3. CASE Reply
    <2>1. CASE FirstReply
      BY <2>1 DEF FirstReply
    <2>2. CASE UserReply
      BY <2>2 DEF UserReply
    <2>3. CASE PassReply
      BY <2>3 DEF PassReply
    <2>4. CASE RefuseWithoutTls \/ OtherReply
      BY <2>4 DEF RefuseWithoutTls, OtherReply
    <2> QED
      BY <1>3, <2>1, <2>2, <2>3, <2>4 DEF Reply
  <1>4. CASE Trytls
    BY <1>4 DEF Trytls, SslConnect, SslAccept
  <1>5. CASE Tryrelink
    BY <1>5 DEF Tryrelink, RelinkSite, TellFailure, AskPass, WaitPass, TellLoggedIn
  <1>6. CASE Command
    <2>1. CASE RefuseIdnt
      BY <2>1 DEF RefuseIdnt
    <2>9. CASE OtherCommand
      BY <2>9 DEF OtherCommand
    <2>8. CASE Quit
      BY <2>8 DEF Quit
    <2>2. CASE Auth
      BY <2>2 DEF Auth
    <2>3. CASE Prot
      BY <2>3 DEF Prot
    <2>4. CASE Type
      BY <2>4 DEF Type
    <2>5. CASE BeforeUser
      BY <2>5 DEF BeforeUser
    <2>6. CASE BeforePass
      BY <2>6 DEF BeforePass
    <2>7. CASE Sscn
      BY <2>7 DEF Sscn
    <2> QED
      BY <1>6, <2>1, <2>2, <2>3, <2>4, <2>5, <2>6, <2>7, <2>8, <2>9 DEF Command
  <1>7. CASE ClientSends
    BY <1>7, ClientSendsStep
  <1>8. CASE Handshakes \/ ClientCloses \/ SiteCloses
    BY <1>8, HandshakesStep, ClosesStep
  <1>9. CASE SiteHandles
    <2>1. refused \subseteq refused'
      BY <1>9 DEF SiteHandles
    <2> QED
      BY <1>9, <2>1, SiteSays
  <1> QED
    BY <1>1, <1>2, <1>3, <1>4, <1>5, <1>6, <1>7, <1>8, <1>9 DEF Next, Control, Peers, Handshakes

RelinkInv ==
    /\ CountInv
    /\ pc # "gone" => Alone /\ Flight /\ PassAsked
    /\ Moved /\ ~ahead => Refusal

LEMMA RelinkInit ==
    ASSUME Init PROVE RelinkInv
  <1>1. CountInv
    BY CountInit
  <1>2. /\ pc = "entry" /\ due = 1 /\ asked = "none" /\ ahead = FALSE /\ relinked = FALSE
        /\ toSite = <<>> /\ fromSite = <<>> /\ gotusercmd = FALSE /\ gotpasscmd = FALSE
        /\ toBnc \in {<<>>, <<"IDNT">>} /\ (toBnc # <<>> => On("client_is_entry"))
    BY DEF Init, On
  <1>3. Alone
    BY <1>2 DEF Alone
  <1>4. Flight
    BY <1>2, AmongNothing DEF Flight, Starting, Has
  <1>5. PassAsked /\ ~Moved
    BY <1>2 DEF PassAsked, Moved, RelinkPlaces
  <1> QED
    BY <1>1, <1>3, <1>4, <1>5 DEF RelinkInv

LEMMA RelinkStep ==
    ASSUME EntriesMatch, RelinkInv, Next PROVE RelinkInv'
  <1>1. CountInv'
    BY CountStep DEF RelinkInv
  <1>2. CASE pc' = "gone"
    <2>1. /\ UNCHANGED <<config, relinked, usingssl>> /\ refused \subseteq refused'
          /\ ~ahead' => ~ahead
      BY <1>2, EndKeeps DEF RelinkInv, CountInv, LoginInv
    <2>2. Moved' => Moved
      BY <1>2, <2>1 DEF Moved, RelinkPlaces
    <2>3. Refusal => Refusal'
      BY <2>1 DEF Refusal, On
    <2> QED
      BY <1>1, <1>2, <2>1, <2>2, <2>3 DEF RelinkInv
  <1>3. CASE pc' # "gone"
    <2>1. Steps /\ pc # "gone"
      BY <1>3, StepCases DEF RelinkInv, CountInv, LoginInv
    <2>2. TypeOK /\ Stage /\ Stage' /\ Counted /\ Alone /\ Flight /\ PassAsked
      BY <1>1, <1>3, <2>1 DEF RelinkInv, CountInv, LoginInv
    <2>3. Alone' /\ Flight' /\ PassAsked'
      BY <1>3, <2>1, <2>2, AloneStep, FlightStep, PassStep
    <2>4. ASSUME Moved', ~ahead' PROVE Refusal'
      <3>1. ~ahead
        BY <1>3, <2>1, <2>2, <2>4, OnlyClientAsks, ClientSendsStep
      <3>2. CASE Moved
        BY <1>3, <2>1, <2>2, <3>1, <3>2, RefusalKept DEF RelinkInv
      <3>3. CASE ~Moved
        BY <1>3, <2>1, <2>2, <2>4, <3>1, <3>3, RelinkBegins DEF Waits
      <3> QED
        BY <3>2, <3>3
    <2> QED
      BY <1>1, <2>3, <2>4 DEF RelinkInv
  <1> QED
    BY <1>2, <1>3

LEMMA RelinkStutter ==
    ASSUME RelinkInv, UNCHANGED vars PROVE RelinkInv'
  <1>1. CountInv'
    BY CountStutter DEF RelinkInv
  <1>2. UNCHANGED <<config, pc, input, toBnc, toSite, fromSite, gotusercmd, gotpasscmd,
                    gotwelcomemsg, relinked, usingssl, due, asked, ahead, refused, lost>>
    BY DEF vars, wires, flags, got, client, history
  <1>3. /\ (Starting' <=> Starting) /\ (Moved' <=> Moved) /\ (Waits' <=> Waits)
        /\ (Served' <=> Served) /\ (Refusal' <=> Refusal)
    BY <1>2 DEF Starting, Moved, Waits, Served, Refusal, On
  <1>4. Alone => Alone'
    BY <1>2, <1>3 DEF Alone, On
  <1>5. Flight => Flight'
    BY <1>2, <1>3, FlightKept DEF Has
  <1>6. PassAsked => PassAsked'
    BY <1>2, <1>3 DEF PassAsked
  <1> QED
    BY <1>1, <1>2, <1>3, <1>4, <1>5, <1>6 DEF RelinkInv

\* A client that waits for its replies is sent to another site only when the
\* first one refused its login, or when relink_notls says so, as it came
\* without TLS: of a client that waits, only one command is on its way or
\* answered at a time, so that what the thread takes for the answer to PASS is
\* one, and no part of a long welcome message is taken for its end.
THEOREM RelinkedWhenRefused ==
    ASSUME EntriesMatch PROVE Spec => []RelinkOnlyWhenRefused
  <1>1. RelinkInv /\ [Next]_vars => RelinkInv'
    BY RelinkStep, RelinkStutter
  <1>2. Init => RelinkInv
    BY RelinkInit
  <1>3. RelinkInv => RelinkOnlyWhenRefused
    BY DEF RelinkInv, Moved, Refusal, RelinkOnlyWhenRefused, On
  <1> QED
    BY <1>1, <1>2, <1>3, PTL DEF Spec

-----------------------------------------------------------------------------
(* Which connections are TLS connections *)

\* The client waits for its replies, and has sent AUTH before USER only.
Quiet == ~lateauth /\ ~ahead

\* The site has accepted AUTH, and the thread has not yet passed it on.
Accepting == \E line \in AuthDone : Has(line)

AuthTimely ==
    ~lateauth /\ pc = "command" /\ input \in AuthCommands => ~gotusercmd /\ ~relinked

\* Between AUTH and its answer no USER is read, so that the answer starts TLS.
AuthFirst ==
    Quiet /\ ~Moved /\ asked \in AuthCommands /\ toBnc = <<>> /\ pc # "command" =>
      gotfirstcmd /\ ~gotusercmd

ClientTls ==
    Quiet =>
      /\ pc # "sslaccept" => (usingssl <=> ssl.client # "null")
      /\ pc \notin {"sslconnect", "sslaccept"} => (peer.client.tls <=> ssl.client # "null")
      /\ pc \in {"sslconnect", "sslaccept"} => peer.client.tls

\* The site takes its connection for a TLS connection from its answer on.
SiteTls ==
    Quiet /\ ~Moved =>
      /\ ssl.site # "null" => peer.site.tls
      /\ peer.site.tls => ssl.site # "null" \/ Accepting \/ pc = "sslconnect"
      /\ Accepting \/ pc = "sslconnect" => peer.site.tls /\ ssl.client = "null"
      /\ usingssl => peer.site.tls
      /\ pc \in {"sslconnect", "sslaccept"} => ~usingssl /\ ~Accepting
      /\ pc = "sslaccept" => ssl.site # "null"

\* At the relink site nobody asks for TLS any more.
MovedTls ==
    Quiet /\ Moved /\ pc \notin {"relink0", "relink1"} =>
      /\ siteUp => (peer.site.tls <=> ssl.site # "null")
      /\ \A x : Among(x, toSite) => x \notin AuthCommands
      /\ ~Accepting

TlsInv == AuthTimely /\ AuthFirst /\ ClientTls /\ SiteTls /\ MovedTls

LEMMA QuietStays ==
    ASSUME TypeOK, Steps, pc' # "gone" PROVE Quiet' => Quiet
  <1>1. ~ahead' => ~ahead
    BY OnlyClientAsks, ClientSendsStep
  <1>2. ~lateauth' => ~lateauth
    <2>1. CASE \/ CheckEntry \/ AskIdent \/ ConnectSite \/ SendIdnt \/ ReadIdnt \/ Welcome
               \/ ReadSite \/ ReadClient
      BY <2>1, BeginStep, ConnectSiteStep, SendIdntStep, ReadIdntStep, WelcomeStep,
         ReadSiteStep, ReadClientStep
    <2>2. CASE FirstReply \/ UserReply \/ PassReply \/ OtherReply \/ SslConnect \/ SslAccept
      BY <2>2, ReplyStep, SslConnectStep, SslAcceptStep
    <2>3. CASE RelinkSite \/ TellFailure \/ AskPass \/ WaitPass \/ TellLoggedIn
      BY <2>3, RelinkedStep, ToldFailureStep, AskPassStep, WaitPassStep, TellLoggedInStep
    <2>4. CASE CommandSteps \/ ClientSends \/ Handshakes \/ SiteHandles \/ ClientCloses
               \/ SiteCloses
      BY <2>4, CommandPlaces, ClientSendsStep, HandshakesStep, SiteSays, ClosesStep
    <2> QED
      BY <2>1, <2>2, <2>3, <2>4 DEF Steps
  <1> QED
    BY <1>1, <1>2 DEF Quiet

\* The members a command sets, and the command that is read
LEMMA OthersKeep ==
    ASSUME TypeOK, Steps, ~CommandSteps, ~TellLoggedIn, pc' # "gone"
    PROVE  /\ UNCHANGED <<gotfirstcmd, gotusercmd, gotpasscmd, relinked>>
           /\ pc = "command" => pc' = pc /\ input' = input /\ lateauth' = lateauth
           /\ ~ReadClient /\ pc' = "command" => pc = "command"
           /\ toBnc' = toBnc \/ ClientSends \/ ReadIdnt \/ ReadClient \/ WaitPass
  <1>1. CASE \/ CheckEntry \/ AskIdent \/ ConnectSite \/ SendIdnt \/ ReadIdnt \/ Welcome
    BY <1>1, BeginStep, ConnectSiteStep, SendIdntStep, ReadIdntStep, WelcomeStep
  <1>2. CASE ReadSite \/ ReadClient
    BY <1>2, ReadSiteStep, ReadClientStep
  <1>3. CASE FirstReply \/ UserReply \/ PassReply \/ OtherReply
    <2>1. pc' # "command"
      BY <1>3, ReplyStep DEF ReplyPassed, ReplyRelinks
    <2> QED
      BY <1>3, <2>1, ReplyStep
  <1>4. CASE SslConnect \/ SslAccept
    BY <1>4, SslConnectStep, SslAcceptStep
  <1>5. CASE RelinkSite \/ TellFailure \/ AskPass \/ WaitPass
    BY <1>5, RelinkedStep, ToldFailureStep, AskPassStep, WaitPassStep
  <1>6. CASE ClientSends \/ Handshakes \/ SiteHandles \/ ClientCloses \/ SiteCloses
    BY <1>6, ClientSendsStep, HandshakesStep, SiteSays, ClosesStep
  <1> QED
    BY <1>1, <1>2, <1>3, <1>4, <1>5, <1>6 DEF Steps

LEMMA TimelyStep ==
    ASSUME TypeOK, AuthTimely, Steps, pc' # "gone" PROVE AuthTimely'
  <1>1. CASE CommandSteps
    BY <1>1, CommandPlaces DEF AuthTimely
  <1>2. CASE TellLoggedIn
    BY <1>2, TellLoggedInStep DEF AuthTimely
  <1>3. CASE ReadClient
    <2>1. UNCHANGED <<gotusercmd, relinked>>
      BY <1>3, ReadClientStep
    <2>2. pc' = "command" => lateauth' = (lateauth \/ (input' \in AuthCommands
                                                       /\ (gotusercmd \/ relinked)))
      BY <1>3, ReadClientStep
    <2> QED
      BY <2>1, <2>2 DEF AuthTimely
  <1>4. CASE ~CommandSteps /\ ~TellLoggedIn /\ ~ReadClient
    BY <1>4, OthersKeep DEF AuthTimely
  <1> QED
    BY <1>1, <1>2, <1>3, <1>4

LEMMA FirstStep ==
    ASSUME TypeOK, Stage, Alone, Flight, AuthTimely, AuthFirst, Steps, pc' # "gone"
    PROVE  AuthFirst'
  <1>1. SUFFICES ASSUME Quiet', ~Moved', asked' \in AuthCommands, toBnc' = <<>>, pc' # "command"
                 PROVE  gotfirstcmd' /\ ~gotusercmd'
    BY DEF AuthFirst
  <1>2. Quiet /\ Waits
    BY <1>1, QuietStays, MovedStays DEF Quiet, Waits
  <1>3. ~ClientSends
    <2>1. ASSUME ClientSends PROVE FALSE
      <3>1. toBnc' = Append(toBnc, asked') /\ toBnc \in Seq(AllCommands)
        BY <2>1, ClientSendsStep DEF TypeOK
      <3> QED
        BY <1>1, <3>1
    <2> QED
      BY <2>1
  <1>4. asked' = asked
    BY <1>3, OnlyClientAsks
  <1>5. ~TellLoggedIn /\ ~WaitPass
    BY <1>1, RelinkMoves
  <1>6. ~ReadIdnt
    <2>1. ReadIdnt => pc = "readidnt"
      BY ReadIdntStep
    <2>2. Starting => asked = "none"
      BY <1>2 DEF Alone, Waits
    <2> QED
      BY <1>1, <1>4, <2>1, <2>2 DEF Starting, AuthCommands
  <1>7. CASE CommandSteps
    <2>1. /\ pc \in {"command", "quit"} /\ toBnc' = toBnc
          /\ gotfirstcmd => gotfirstcmd'
          /\ pc = "command" /\ input \in AuthCommands => gotfirstcmd'
          /\ gotusercmd' <=> gotusercmd \/ (pc = "command" /\ input = "USER")
      BY <1>7, CommandPlaces, MembersStep DEF MembersSet
    <2>2. pc = "command" /\ input = asked
      BY <1>1, <1>2, <1>4, <2>1, WaitsServed DEF Flight, AuthCommands
    <2>3. input # "USER" /\ input \in AuthCommands
      BY <1>1, <1>4, <2>2 DEF AuthCommands
    <2> QED
      BY <1>2, <2>1, <2>2, <2>3 DEF AuthTimely, Quiet
  <1>8. CASE ~CommandSteps
    <2>1. UNCHANGED <<gotfirstcmd, gotusercmd>> /\ pc # "command"
      BY <1>1, <1>5, <1>8, OthersKeep
    <2>2. ReadClient => toBnc' = toBnc
      BY <1>1, ReadClientStep
    <2>3. toBnc' = toBnc
      BY <1>3, <1>5, <1>6, <1>8, <2>2, OthersKeep
    <2> QED
      BY <1>1, <1>2, <1>4, <2>1, <2>3 DEF AuthFirst, Waits
  <1> QED
    BY <1>7, <1>8

\* A step that leaves TLS alone
TlsSame ==
    /\ (ssl'.client = "null" <=> ssl.client = "null") /\ (ssl'.site = "null" <=> ssl.site = "null")
    /\ (peer'.client.tls <=> peer.client.tls) /\ (peer'.site.tls <=> peer.site.tls)
    /\ usingssl' = usingssl /\ (Accepting' <=> Accepting)
    /\ pc' = pc \/ {pc, pc'} \cap {"sslconnect", "sslaccept"} = {}

LEMMA TlsKept ==
    ASSUME ClientTls, SiteTls, Quiet' => Quiet, Waits' => Waits, TlsSame
    PROVE  ClientTls' /\ SiteTls'
  <1>1. ClientTls'
    BY DEF ClientTls, TlsSame
  <1>2. SiteTls'
    BY DEF SiteTls, TlsSame, Waits, Quiet
  <1> QED
    BY <1>1, <1>2

LEMMA MovedKept ==
    ASSUME MovedTls, Quiet' => Quiet, TlsSame,
           Moved' => Moved /\ (siteUp' => siteUp),
           pc \in {"relink0", "relink1"} => pc' \in {"relink0", "relink1"},
           \A x : Among(x, toSite') => Among(x, toSite) \/ (Moved /\ Quiet => x \notin AuthCommands)
    PROVE  MovedTls'
  <1> SUFFICES ASSUME Quiet', Moved', pc' \notin {"relink0", "relink1"} PROVE MovedTls'
    BY DEF MovedTls
  <1>1. /\ siteUp => (peer.site.tls <=> ssl.site # "null")
        /\ \A x : Among(x, toSite) => x \notin AuthCommands
        /\ ~Accepting
    BY DEF MovedTls
  <1> QED
    BY <1>1 DEF MovedTls, TlsSame

LEMMA SamePlaces ==
    ASSUME NEW p, NEW q, p \notin {"sslconnect", "sslaccept"}, q \notin {"sslconnect", "sslaccept"}
    PROVE  {p, q} \cap {"sslconnect", "sslaccept"} = {}
  OBVIOUS

LEMMA SameLines ==
    ASSUME \A line \in AuthDone : Has(line)' <=> Has(line) PROVE Accepting' <=> Accepting
  BY DEF Accepting

LEMMA NoAuthDone ==
    /\ "220" \notin AuthDone /\ "500" \notin AuthDone /\ "200" \notin AuthDone
    /\ "221-" \notin AuthDone /\ "331" \notin AuthDone /\ "230" \notin AuthDone
    /\ "427" \notin AuthDone
  BY DEF AuthDone

\* A line that is no answer to AUTH
LEMMA HeardPlain ==
    ASSUME NEW line, line \notin AuthDone, TypeOK, Heard(line), usingssl' = usingssl,
           Accepting' <=> Accepting,
           pc' = pc \/ {pc, pc'} \cap {"sslconnect", "sslaccept"} = {}
    PROVE  TlsSame
  BY DEF Heard, TlsSame, TypeOK, Site, Client

LEMMA SilentTls ==
    ASSUME Silent, usingssl' = usingssl, Accepting' <=> Accepting,
           pc' = pc \/ {pc, pc'} \cap {"sslconnect", "sslaccept"} = {}
    PROVE  TlsSame
  BY DEF Silent, TlsSame

LEMMA SentTls ==
    ASSUME NEW cmd, SentOn(cmd), usingssl' = usingssl, Accepting' <=> Accepting,
           pc' = pc \/ {pc, pc'} \cap {"sslconnect", "sslaccept"} = {}
    PROVE  TlsSame
  BY DEF SentOn, TlsSame

LEMMA TlsStart ==
    ASSUME TypeOK, Stage, ClientTls, SiteTls, MovedTls, Steps, pc' # "gone",
           CheckEntry \/ AskIdent \/ ConnectSite \/ SendIdnt \/ ReadIdnt \/ Welcome
    PROVE  ClientTls' /\ SiteTls' /\ MovedTls'
  <1> USE DEF Starting
  <1>0. (Quiet' => Quiet) /\ (Waits' => Waits)
    BY QuietStays, MovedStays
  <1>1. ~Moved'
    <2>1. CASE CheckEntry \/ AskIdent \/ ConnectSite
      BY <2>1, BeginStep, ConnectSiteStep DEF Stage, Moved, RelinkPlaces
    <2>2. CASE SendIdnt \/ ReadIdnt \/ Welcome
      BY <2>2, SendIdntStep, ReadIdntStep, WelcomeStep DEF Stage, Moved, RelinkPlaces
    <2> QED
      BY <2>1, <2>2
  <1>2. TlsSame
    <2>1. CASE CheckEntry \/ AskIdent
      <3>1. /\ pc \in {"entry", "ident"} /\ pc' \in {"ident", "connect"} /\ Silent
            /\ fromSite' = fromSite /\ usingssl' = usingssl
        BY <2>1, BeginStep
      <3>2. Accepting' <=> Accepting
        BY <3>1 DEF Accepting, Has
      <3> QED
        BY <3>1, <3>2, SilentTls
    <2>2. CASE ConnectSite
      <3>1. /\ pc = "connect" /\ pc' = "idnt" /\ Silent /\ usingssl' = usingssl
            /\ fromSite' = <<>> \/ fromSite' = <<"220">>
        BY <2>2, ConnectSiteStep
      <3>2. fromSite = <<>> /\ \A x : Among(x, fromSite') => x = "220"
        BY <3>1 DEF Stage, Among
      <3>3. Accepting' <=> Accepting
        BY <3>1, <3>2, AmongNothing, NoAuthDone DEF Accepting, Has
      <3> QED
        BY <3>1, <3>3, SilentTls
    <2>3. CASE SendIdnt
      <3>1. /\ pc = "idnt" /\ pc' \in {"readidnt", "welcome"} /\ Silent /\ usingssl' = usingssl
            /\ fromSite' = fromSite
        BY <2>3, SendIdntStep
      <3>2. Accepting' <=> Accepting
        BY <3>1 DEF Accepting, Has
      <3> QED
        BY <3>1, <3>2, SilentTls
    <2>4. CASE ReadIdnt
      <3>1. /\ pc = "readidnt" /\ pc' = "welcome" /\ SentOn("IDNT") /\ usingssl' = usingssl
            /\ fromSite' = fromSite
        BY <2>4, ReadIdntStep
      <3>2. Accepting' <=> Accepting
        BY <3>1 DEF Accepting, Has
      <3> QED
        BY <3>1, <3>2, SentTls
    <2>5. CASE Welcome
      <3>1. /\ pc = "welcome" /\ pc' = "select" /\ usingssl' = usingssl
            /\ fromSite # <<>> /\ fromSite' = Tail(fromSite)
            /\ \E line \in {"220", Head(fromSite)} : Heard(line)
        BY <2>5, WelcomeStep
      <3>2. /\ \A x : Among(x, fromSite) => x = "220"
            /\ \A x : Among(x, fromSite) <=> x = Head(fromSite) \/ Among(x, Tail(fromSite))
        BY <3>1, FromTail DEF Stage
      <3>3. Heard("220")
        BY <3>1, <3>2
      <3>4. Accepting' <=> Accepting
        BY <3>1, <3>2, NoAuthDone DEF Accepting, Has
      <3> QED
        BY <3>1, <3>3, <3>4, HeardPlain, NoAuthDone
    <2> QED
      BY <2>1, <2>2, <2>3, <2>4, <2>5
  <1> QED
    BY <1>0, <1>1, <1>2, TlsKept DEF MovedTls

LEMMA TlsLoop ==
    ASSUME TypeOK, Stage, ClientTls, SiteTls, MovedTls, Steps, pc' # "gone",
           ReadSite \/ ReadClient
    PROVE  ClientTls' /\ SiteTls' /\ MovedTls'
  <1>0. (Quiet' => Quiet) /\ (Waits' => Waits)
    BY QuietStays, MovedStays
  <1>1. CASE ReadSite
    <2>1. /\ pc \in {"select", "sslsite"} /\ pc' \in {"select", "sslsite", "reply"}
          /\ UNCHANGED <<toSite, siteUp, relinked, usingssl, peer>>
          /\ ssl'.client = ssl.client /\ (ssl'.site = "null" <=> ssl.site = "null")
      BY <1>1, ReadSiteStep
    <2>2. Accepting' <=> Accepting
      BY <1>1, ReadReply, SameLines
    <2>3. TlsSame
      BY <2>1, <2>2 DEF TlsSame
    <2>4. MovedTls'
      BY <1>0, <2>1, <2>3, MovedKept DEF Moved, RelinkPlaces
    <2> QED
      BY <1>0, <2>3, <2>4, TlsKept
  <1>2. CASE ReadClient
    <2>1. /\ pc \in {"select", "sslclient"} /\ pc' \in {"select", "sslclient", "command"}
          /\ UNCHANGED <<toSite, fromSite, siteUp, relinked, usingssl, peer>>
          /\ ssl'.site = ssl.site /\ (ssl'.client = "null" <=> ssl.client = "null")
      BY <1>2, ReadClientStep
    <2>2. Accepting' <=> Accepting
      BY <2>1 DEF Accepting, Has
    <2>3. TlsSame
      BY <2>1, <2>2 DEF TlsSame
    <2>4. MovedTls'
      BY <1>0, <2>1, <2>3, MovedKept DEF Moved, RelinkPlaces
    <2> QED
      BY <1>0, <2>3, <2>4, TlsKept
  <1> QED
    BY <1>1, <1>2

\* The answer to AUTH starts TLS on both connections.
LEMMA AuthAnswered ==
    ASSUME TypeOK, Stage, Counted, Alone, Flight, AuthFirst, MovedTls, pc = "reply",
           input \in AuthDone, Quiet
    PROVE  /\ ~Moved /\ gotfirstcmd /\ ~gotusercmd
           /\ \A line \in AuthDone : ~Among(line, fromSite)
  <1>1. ~Moved /\ ~ahead /\ ~Starting
    BY DEF MovedTls, Accepting, Has, Quiet, Starting
  <1>8. Served
    BY <1>1, WaitsServed DEF Waits
  <1>2. input \notin Parts /\ Endline(input)
    BY DEF AuthDone, Parts, Endline
  <1>3. Due(input)
    BY <1>2, <1>8 DEF Flight, Has
  <1>4. Forwarded(asked) \in AuthCommands
    BY <1>3 DEF Due, Says, AuthDone, AuthCommands, OptionCommands
  <1>5. asked \in AuthCommands
    BY <1>4 DEF Forwarded, AuthCommands
  <1>6. InHand = 1
    BY <1>2 DEF InHand
  <1>7. toBnc = <<>> /\ \A x : Among(x, fromSite) => x \in Parts
    BY <1>1, <1>6, <1>8, OneOwed
  <1> QED
    BY <1>1, <1>5, <1>7 DEF AuthFirst, AuthDone, Parts

LEMMA TlsReply ==
    ASSUME TypeOK, Stage, Counted, Alone, Flight, AuthFirst, ClientTls, SiteTls, MovedTls, Steps,
           pc' # "gone", FirstReply \/ UserReply \/ PassReply \/ OtherReply
    PROVE  ClientTls' /\ SiteTls' /\ MovedTls'
  <1>0. (Quiet' => Quiet) /\ (Waits' => Waits)
    BY QuietStays, MovedStays
  <1>1. /\ pc = "reply"
        /\ ReplyPassed \/ ReplyRelinks
        /\ UNCHANGED <<toSite, fromSite, siteUp, gotusercmd, relinked, usingssl>>
    BY ReplyStep
  <1>2. SUFFICES ASSUME Quiet' PROVE ClientTls' /\ SiteTls' /\ MovedTls'
    BY DEF ClientTls, SiteTls, MovedTls
  <1>3. CASE input \in AuthDone
    <2>1. /\ ~Moved /\ gotfirstcmd /\ ~gotusercmd
          /\ \A line \in AuthDone : ~Among(line, fromSite)
      BY <1>0, <1>1, <1>2, <1>3, AuthAnswered
    <2>2. pc' = "sslconnect" /\ \E line \in AuthDone : Heard(line)
      BY <1>1, <1>3, <2>1 DEF ReplyPassed, ReplyRelinks, AuthDone
    <2>3. /\ peer'.client.tls = TRUE /\ peer'.site = peer.site
          /\ ssl'.site = ssl.site /\ (ssl'.client = "null" <=> ssl.client = "null")
      BY <2>2 DEF Heard
    <2>4. ~Accepting' /\ ~Moved'
      BY <1>1, <2>1, <2>2 DEF Accepting, Has, Moved, RelinkPlaces
    <2>5. Accepting
      BY <1>1, <1>3 DEF Accepting, Has
    <2>6. ~ahead /\ Quiet
      BY <1>0, <1>2 DEF Quiet
    <2>7. peer.site.tls /\ ssl.client = "null" /\ ~usingssl
      BY <1>1, <2>1, <2>5, <2>6 DEF SiteTls, ClientTls
    <2>8. ClientTls'
      BY <1>1, <2>2, <2>3, <2>7 DEF ClientTls
    <2>9. SiteTls'
      BY <1>1, <2>2, <2>3, <2>4, <2>7 DEF SiteTls
    <2> QED
      BY <2>4, <2>8, <2>9 DEF MovedTls
  <1>4. CASE input \notin AuthDone
    <2>1. pc' \in {"select", "needtls", "relink0", "relink1"}
      BY <1>1, <1>4 DEF ReplyPassed, ReplyRelinks
    <2>2. Accepting' <=> Accepting
      BY <1>1, <1>4, <2>1 DEF Accepting, Has
    <2>3. TlsSame
      <3>1. CASE ReplyRelinks
        BY <1>1, <2>1, <2>2, <3>1, SilentTls DEF ReplyRelinks
      <3>2. CASE ReplyPassed
        <4>1. PICK line : /\ line = input \/ (line = "234 SSL" /\ input = "234 TLS")
                          /\ Heard(line)
          BY <3>2 DEF ReplyPassed
        <4>2. line \notin AuthDone
          BY <1>4, <4>1 DEF AuthDone
        <4> QED
          BY <1>1, <2>1, <2>2, <4>1, <4>2, HeardPlain
      <3> QED
        BY <1>1, <3>1, <3>2
    <2>4. MovedTls'
      <3>1. CASE pc' \in {"relink0", "relink1"}
        BY <3>1 DEF MovedTls
      <3>2. CASE pc' \in {"select", "needtls"}
        BY <1>0, <1>1, <2>3, <3>2, MovedKept DEF Moved, RelinkPlaces
      <3> QED
        BY <2>1, <3>1, <3>2
    <2> QED
      BY <1>0, <2>3, <2>4, TlsKept
  <1> QED
    BY <1>3, <1>4

LEMMA TlsHandshake ==
    ASSUME TypeOK, Stage, PassAsked, ClientTls, SiteTls, MovedTls, Steps, pc' # "gone",
           SslConnect \/ SslAccept
    PROVE  ClientTls' /\ SiteTls' /\ MovedTls'
  <1>0. (Quiet' => Quiet) /\ (Waits' => Waits)
    BY QuietStays, MovedStays
  <1>1. /\ pc \in {"sslconnect", "sslaccept"} /\ pc' \in {"sslconnect", "sslaccept", "select"}
        /\ UNCHANGED <<fromSite, relinked, peer>>
    BY SslConnectStep, SslAcceptStep
  <1>2. ~Moved /\ ~Moved'
    <2>1. ~Moved
      BY <1>1 DEF Stage, Moved, PassAsked
    <2> QED
      BY <1>1, <2>1 DEF Moved, RelinkPlaces
  <1>3. Accepting' <=> Accepting
    BY <1>1 DEF Accepting, Has
  <1>4. SUFFICES ASSUME Quiet' PROVE ClientTls' /\ SiteTls'
    BY <1>2 DEF ClientTls, SiteTls, MovedTls
  <1>5. CASE SslConnect
    <2>1. /\ pc = "sslconnect" /\ pc' \in {"sslconnect", "sslaccept"}
          /\ ssl'.client = ssl.client /\ ssl'.site # "null" /\ usingssl' = usingssl
      BY <1>5, SslConnectStep
    <2>2. ClientTls'
      BY <1>0, <1>1, <1>4, <2>1 DEF ClientTls
    <2>3. SiteTls'
      BY <1>0, <1>1, <1>2, <1>3, <1>4, <2>1 DEF SiteTls
    <2> QED
      BY <2>2, <2>3
  <1>6. CASE SslAccept
    <2>1. /\ pc = "sslaccept" /\ pc' \in {"sslaccept", "select"}
          /\ ssl'.site = ssl.site /\ ssl'.client # "null"
          /\ usingssl' = IF pc' = "select" THEN TRUE ELSE usingssl
      BY <1>6, SslAcceptStep
    <2>2. ClientTls'
      BY <1>0, <1>1, <1>4, <2>1 DEF ClientTls
    <2>3. SiteTls'
      BY <1>0, <1>1, <1>2, <1>3, <1>4, <2>1 DEF SiteTls
    <2> QED
      BY <2>2, <2>3
  <1> QED
    BY <1>5, <1>6

LEMMA TlsRelink ==
    ASSUME TypeOK, Stage, ClientTls, SiteTls, MovedTls, Steps, pc' # "gone",
           RelinkSite \/ TellFailure \/ AskPass \/ WaitPass \/ TellLoggedIn
    PROVE  ClientTls' /\ SiteTls' /\ MovedTls'
  <1>0. (Quiet' => Quiet) /\ (Waits' => Waits)
    BY QuietStays, MovedStays
  <1>1. CASE RelinkSite
    <2>1. /\ pc \in {"relink0", "relink1"}
          /\ pc' \in {"failed0", "failed1", "ask331", "tell230"}
          /\ toSite' = <<>> /\ fromSite' = <<>> /\ usingssl' = usingssl
          /\ ssl'.client = ssl.client /\ peer'.client = peer.client
          /\ peer'.site.tls <=> ssl'.site # "null"
      BY <1>1, RelinkedStep
    <2>2. ClientTls'
      BY <1>0, <2>1 DEF ClientTls
    <2>3. MovedTls'
      BY <2>1, AmongNothing DEF MovedTls, Accepting, Has
    <2> QED
      BY <1>1, <2>2, <2>3, RelinkMoves DEF SiteTls
  <1>2. CASE TellFailure \/ AskPass \/ WaitPass \/ TellLoggedIn
    <2>1. /\ pc \in {"failed0", "failed1", "ask331", "askpass", "tell230"}
          /\ pc' \in {"ask331", "askpass", "tell230", "select"}
          /\ UNCHANGED <<toSite, fromSite, siteUp, usingssl>>
          /\ Silent \/ Heard("427") \/ Heard("331") \/ Heard("500") \/ Heard("230")
      BY <1>2, ToldFailureStep, AskPassStep, WaitPassStep, TellLoggedInStep
    <2>2. Accepting' <=> Accepting
      BY <2>1 DEF Accepting, Has
    <2>3. TlsSame
      BY <2>1, <2>2, SilentTls, HeardPlain, NoAuthDone
    <2>4. MovedTls'
      BY <1>0, <2>1, <2>3, MovedKept DEF Moved, RelinkPlaces
    <2> QED
      BY <1>0, <2>3, <2>4, TlsKept
  <1> QED
    BY <1>1, <1>2

LEMMA TlsCommand ==
    ASSUME TypeOK, Stage, AuthTimely, ClientTls, SiteTls, MovedTls, Steps, pc' # "gone",
           CommandSteps
    PROVE  ClientTls' /\ SiteTls' /\ MovedTls'
  <1>0. (Quiet' => Quiet) /\ (Waits' => Waits)
    BY QuietStays, MovedStays
  <1>1. /\ pc \in {"command", "quit"} /\ pc' \in {"select", "quit"}
        /\ UNCHANGED <<fromSite, siteUp, usingssl, relinked>>
    BY CommandPlaces
  <1>2. Accepting' <=> Accepting
    BY <1>1 DEF Accepting, Has
  <1>3. Moved' => Moved
    BY <1>1 DEF Moved, RelinkPlaces
  <1>4. CASE toSite' = toSite /\ (Heard("500") \/ Heard("200") \/ Heard("221-"))
    <2>1. TlsSame
      BY <1>1, <1>2, <1>4, HeardPlain, NoAuthDone
    <2>2. MovedTls'
      BY <1>0, <1>1, <1>3, <1>4, <2>1, MovedKept
    <2> QED
      BY <1>0, <2>1, <2>2, TlsKept
  <1>5. ASSUME NEW cmd \in AllCommands, SentOn(cmd), Moved /\ Quiet => cmd \notin AuthCommands
        PROVE  ClientTls' /\ SiteTls' /\ MovedTls'
    <2>1. TlsSame
      BY <1>1, <1>2, <1>5, SentTls
    <2>2. \A x : Among(x, toSite') => x = cmd \/ Among(x, toSite)
      BY <1>5, ToAppend DEF SentOn
    <2>3. MovedTls'
      BY <1>0, <1>1, <1>3, <1>5, <2>1, <2>2, MovedKept
    <2> QED
      BY <1>0, <2>1, <2>3, TlsKept
  <1>6. CASE PassedOn
    <2>1. pc = "command" /\ input \in AllCommands /\ SentOn(Forwarded(input))
      BY <1>6 DEF PassedOn, Stage, InputRead
    <2>2. /\ Forwarded(input) \in AllCommands
          /\ Forwarded(input) \in AuthCommands <=> input \in AuthCommands
      BY <2>1, ForwardedFacts
    <2>3. Moved /\ Quiet => input \notin AuthCommands
      BY <2>1 DEF AuthTimely, Quiet, Moved, RelinkPlaces
    <2> QED
      BY <1>5, <2>1, <2>2, <2>3
  <1>7. CASE SentOn("QUIT")
    BY <1>5, <1>7 DEF AllCommands, AuthCommands
  <1> QED
    BY <1>4, <1>6, <1>7, CommandCases DEF Answered, Quits

LEMMA AuthAnswers ==
    ASSUME TypeOK, NEW cmd \in AllCommands, NEW line \in AuthDone, <<line>> \in Answers(cmd)
    PROVE  cmd \in AuthCommands /\ ~peer.site.tls
  <1>1. line \in Says(cmd)
    BY SingleAnswers
  <1>2. cmd \in AuthCommands
    BY <1>1 DEF Says, AuthDone, AuthCommands, OptionCommands
  <1>3. line # "no" /\ (<<line>> = <<"no">> <=> line = "no")
    BY DEF AuthDone
  <1> QED
    BY <1>2, <1>3 DEF Answers, No, AuthCommands

LEMMA TlsSite ==
    ASSUME TypeOK, Stage, ClientTls, SiteTls, MovedTls, Steps, pc' # "gone", SiteHandles
    PROVE  ClientTls' /\ SiteTls' /\ MovedTls'
  <1>0. (Quiet' => Quiet) /\ (Waits' => Waits)
    BY QuietStays, MovedStays
  <1>1. /\ siteUp /\ toSite # <<>> /\ Head(toSite) \in AllCommands
        /\ UNCHANGED <<pc, input, relinked, usingssl, ssl>>
        /\ peer'.client = peer.client
    BY SiteSays
  <1>2. \A x : Among(x, toSite) <=> x = Head(toSite) \/ Among(x, Tail(toSite))
    BY <1>1, ToTail
  <1>3. \A x : Among(x, toSite') => Among(x, toSite)
    <2>1. toSite' = <<>> \/ toSite' = Tail(toSite)
      BY SiteSays DEF SiteKeeps, SiteWelcomes, SiteLine
    <2> QED
      BY <1>2, <2>1, AmongNothing
  <1>4. (Moved' <=> Moved) /\ (siteUp' => siteUp)
    BY <1>1 DEF Moved
  <1>5. ASSUME peer'.site.tls <=> peer.site.tls, Accepting' <=> Accepting
        PROVE  ClientTls' /\ SiteTls' /\ MovedTls'
    <2>1. TlsSame
      BY <1>1, <1>5 DEF TlsSame
    <2>2. MovedTls'
      BY <1>0, <1>1, <1>3, <1>4, <2>1, MovedKept
    <2> QED
      BY <1>0, <2>1, <2>2, TlsKept
  <1>6. CASE SiteKeeps
    <2>1. Accepting' <=> Accepting
      BY <1>1, <1>6 DEF SiteKeeps, Accepting, Has
    <2> QED
      BY <1>5, <1>6, <2>1 DEF SiteKeeps
  <1>7. CASE SiteWelcomes
    <2>1. \A x : Has(x)' <=> x \in {"230-", "230"} \/ Has(x)
      BY <1>1, <1>7, SaidWelcome
    <2>2. Accepting' <=> Accepting
      BY <2>1 DEF Accepting, AuthDone
    <2> QED
      BY <1>5, <1>7, <2>2 DEF SiteWelcomes
  <1>8. ASSUME NEW line \in Replies, SiteLine(line)
        PROVE  ClientTls' /\ SiteTls' /\ MovedTls'
    <2>1. /\ \A x : Has(x)' <=> x = line \/ Has(x)
          /\ peer'.site.tls <=> peer.site.tls \/ line \in AuthDone
          /\ <<line>> \in Answers(Head(toSite))
      BY <1>1, <1>8, SaidLine DEF SiteLine
    <2>2. CASE line \notin AuthDone
      <3>1. Accepting' <=> Accepting
        BY <2>1, <2>2 DEF Accepting
      <3> QED
        BY <1>5, <2>1, <2>2, <3>1
    <2>3. CASE line \in AuthDone
      <3>1. Head(toSite) \in AuthCommands /\ ~peer.site.tls
        BY <1>1, <2>1, <2>3, AuthAnswers
      <3>2. peer'.site.tls /\ Accepting'
        BY <2>1, <2>3 DEF Accepting
      <3>3. ClientTls'
        BY <1>0, <1>1 DEF ClientTls
      <3>4. MovedTls'
        BY <1>0, <1>1, <1>2, <1>4, <3>1 DEF MovedTls
      <3>5. SiteTls'
        <4>1. SUFFICES ASSUME Quiet', ~Moved' PROVE SiteTls'
          BY DEF SiteTls
        <4>2. Quiet /\ ~Moved
          BY <1>0, <1>4, <4>1
        <4>3. ssl.site = "null" /\ ~usingssl /\ pc \notin {"sslconnect", "sslaccept"}
          BY <3>1, <4>2 DEF SiteTls
        <4>4. ssl.client = "null"
          BY <4>2, <4>3 DEF ClientTls
        <4> QED
          BY <1>1, <3>2, <4>3, <4>4 DEF SiteTls
      <3> QED
        BY <3>3, <3>4, <3>5
    <2> QED
      BY <2>2, <2>3
  <1> QED
    BY <1>6, <1>7, <1>8, SiteSays

LEMMA TlsPeers ==
    ASSUME TypeOK, ClientTls, SiteTls, MovedTls, Steps, pc' # "gone",
           ClientSends \/ Handshakes \/ ClientCloses \/ SiteCloses
    PROVE  ClientTls' /\ SiteTls' /\ MovedTls'
  <1>0. (Quiet' => Quiet) /\ (Waits' => Waits)
    BY QuietStays, MovedStays
  <1>1. /\ UNCHANGED <<pc, input, toSite, fromSite, relinked, usingssl, ssl>>
        /\ peer'.client.tls <=> peer.client.tls
        /\ peer'.site.tls <=> peer.site.tls
        /\ siteUp' => siteUp
    BY ClientSendsStep, HandshakesStep, ClosesStep
  <1>2. TlsSame
    BY <1>1 DEF TlsSame, Accepting, Has
  <1>3. MovedTls'
    BY <1>0, <1>1, <1>2, MovedKept DEF Moved
  <1> QED
    BY <1>0, <1>2, <1>3, TlsKept

SafeInv == RelinkInv /\ (pc # "gone" => TlsInv)

LEMMA SafeInit ==
    ASSUME Init PROVE SafeInv
  <1>1. RelinkInv
    BY RelinkInit
  <1>2. /\ pc = "entry" /\ asked = "none" /\ usingssl = FALSE /\ relinked = FALSE
        /\ fromSite = <<>> /\ ssl = [client |-> "null", site |-> "null"]
        /\ peer = [client |-> [tls |-> FALSE, answered |-> FALSE], site |-> NewSite]
    BY DEF Init
  <1>3. /\ ssl.client = "null" /\ ssl.site = "null" /\ peer.client.tls = FALSE
        /\ peer.site.tls = FALSE
    BY <1>2 DEF NewSite
  <1>4. ~Moved /\ ~Accepting
    BY <1>2, AmongNothing DEF Moved, RelinkPlaces, Accepting, Has
  <1>5. AuthTimely /\ AuthFirst
    BY <1>2 DEF AuthTimely, AuthFirst, AuthCommands
  <1>6. ClientTls /\ SiteTls /\ MovedTls
    BY <1>2, <1>3, <1>4 DEF ClientTls, SiteTls, MovedTls
  <1> QED
    BY <1>1, <1>5, <1>6 DEF SafeInv, TlsInv

LEMMA SafeStep ==
    ASSUME EntriesMatch, SafeInv, Next PROVE SafeInv'
  <1>1. RelinkInv'
    BY RelinkStep DEF SafeInv
  <1>2. ASSUME pc' # "gone" PROVE TlsInv'
    <2>1. Steps /\ pc # "gone" /\ TypeOK
      BY <1>2, StepCases DEF SafeInv, RelinkInv, CountInv, LoginInv
    <2>2. /\ Stage /\ Counted /\ Alone /\ Flight /\ PassAsked
          /\ AuthTimely /\ AuthFirst /\ ClientTls /\ SiteTls /\ MovedTls
      BY <2>1 DEF SafeInv, RelinkInv, CountInv, LoginInv, TlsInv
    <2>3. AuthTimely' /\ AuthFirst'
      BY <1>2, <2>1, <2>2, TimelyStep, FirstStep
    <2>4. ClientTls' /\ SiteTls' /\ MovedTls'
      BY <1>2, <2>1, <2>2, TlsStart, TlsLoop, TlsReply, TlsHandshake, TlsRelink, TlsCommand,
         TlsSite, TlsPeers DEF Steps
    <2> QED
      BY <2>3, <2>4 DEF TlsInv
  <1> QED
    BY <1>1, <1>2 DEF SafeInv

LEMMA SafeStutter ==
    ASSUME SafeInv, UNCHANGED vars PROVE SafeInv'
  <1>1. RelinkInv'
    BY RelinkStutter DEF SafeInv
  <1>2. UNCHANGED <<pc, input, toBnc, toSite, fromSite, siteUp, gotfirstcmd, gotusercmd, relinked,
                    usingssl, ssl, peer, asked, ahead, lateauth>>
    BY DEF vars, wires, ups, flags, got, client, history
  <1>3. /\ (Quiet' <=> Quiet) /\ (Moved' <=> Moved) /\ (Accepting' <=> Accepting)
    BY <1>2 DEF Quiet, Moved, Accepting, Has
  <1>4. AuthTimely /\ AuthFirst => AuthTimely' /\ AuthFirst'
    BY <1>2, <1>3 DEF AuthTimely, AuthFirst
  <1>5. ClientTls /\ SiteTls /\ MovedTls => ClientTls' /\ SiteTls' /\ MovedTls'
    BY <1>2, <1>3 DEF ClientTls, SiteTls, MovedTls
  <1> QED
    BY <1>1, <1>2, <1>4, <1>5 DEF SafeInv, TlsInv

\* Whenever the loop waits, it and the peers of a client that waits for its
\* replies and sends AUTH in time agree on which connections are TLS
\* connections, before and after a relink.  And all variables keep their types.
THEOREM TlsIsAgreed ==
    ASSUME EntriesMatch PROVE Spec => []TlsAgreed
  <1>1. SafeInv /\ [Next]_vars => SafeInv'
    BY SafeStep, SafeStutter
  <1>2. Init => SafeInv
    BY SafeInit
  <1>3. SafeInv => TlsAgreed
    <2>1. SUFFICES ASSUME SafeInv, pc = "select", ~lateauth, ~ahead, ~Accepted
                   PROVE  /\ peer.client.tls <=> ssl.client # "null"
                          /\ siteUp => (peer.site.tls <=> ssl.site # "null")
                          /\ usingssl <=> ssl.client # "null"
      BY DEF TlsAgreed, SafeInv, RelinkInv, CountInv, LoginInv
    <2>2. Quiet /\ ~Accepting /\ ClientTls /\ SiteTls /\ MovedTls
      BY <2>1 DEF Quiet, Accepting, Accepted, Has, Among, SafeInv, TlsInv
    <2> QED
      BY <2>1, <2>2 DEF ClientTls, SiteTls, MovedTls
  <1> QED
    BY <1>1, <1>2, <1>3, PTL DEF Spec

-----------------------------------------------------------------------------
(* What the client asked before a relink and before TLS *)

TlsPlaces == {"sslconnect", "sslaccept"}

\* The client has sent USER and is relinked as it came without TLS.
UserAsked ==
    Waits /\ gotusercmd /\ ~gotpasscmd /\ MustRelink =>
      asked = "USER" /\ due = 1 /\ toBnc = <<>> /\ pc # "command"

\* During a relink the client waits for the answer to USER or PASS, if for any.
RelinkAsked ==
    Served /\ pc \in RelinkPlaces /\ toBnc = <<>> /\ due > 0 => asked \in {"USER", "PASS"}

\* The answer to AUTH has been passed on when TLS begins.
TlsAsked == Waits /\ pc \in TlsPlaces /\ toBnc = <<>> => due <= 0

\* The connection to the first site becomes a TLS connection before usingssl is set.
SiteSsl == ~Moved /\ ssl.site # "null" => usingssl \/ pc \in TlsPlaces

LEMMA MustStays ==
    ASSUME TypeOK, Steps, pc' # "gone"
    PROVE  /\ config' = config /\ (usingssl => usingssl')
           /\ MustRelink' => MustRelink
  <1>1. config' = config
    BY OnlyClientAsks, ClientSendsStep
  <1>2. usingssl => usingssl'
    <2>1. CASE \/ CheckEntry \/ AskIdent \/ ConnectSite \/ SendIdnt \/ ReadIdnt \/ Welcome
               \/ ReadSite \/ ReadClient
      BY <2>1, BeginStep, ConnectSiteStep, SendIdntStep, ReadIdntStep, WelcomeStep,
         ReadSiteStep, ReadClientStep
    <2>2. CASE FirstReply \/ UserReply \/ PassReply \/ OtherReply \/ SslConnect \/ SslAccept
      BY <2>2, ReplyStep, SslConnectStep, SslAcceptStep
    <2>3. CASE RelinkSite \/ TellFailure \/ AskPass \/ WaitPass \/ TellLoggedIn
      BY <2>3, RelinkedStep, ToldFailureStep, AskPassStep, WaitPassStep, TellLoggedInStep
    <2>4. CASE CommandSteps \/ ClientSends \/ Handshakes \/ SiteHandles \/ ClientCloses
               \/ SiteCloses
      BY <2>4, CommandPlaces, ClientSendsStep, HandshakesStep, SiteSays, ClosesStep
    <2> QED
      BY <2>1, <2>2, <2>3, <2>4 DEF Steps
  <1> QED
    BY <1>1, <1>2 DEF MustRelink, On

LEMMA UserKept ==
    ASSUME TypeOK, UserAsked, Steps, pc' # "gone",
           UNCHANGED <<gotusercmd, gotpasscmd, asked, due, toBnc>>,
           toBnc' = <<>> /\ pc' = "command" => pc = "command"
    PROVE  UserAsked'
  <1>1. (Waits' => Waits) /\ (MustRelink' => MustRelink)
    BY MovedStays, MustStays
  <1> QED
    BY <1>1 DEF UserAsked

LEMMA UserStep ==
    ASSUME TypeOK, Stage, Counted, Alone, Flight, PassAsked, UserAsked, Steps, pc' # "gone"
    PROVE  UserAsked'
  <1>0. (Waits' => Waits) /\ (MustRelink' => MustRelink)
    BY MovedStays, MustStays
  <1>1. CASE CheckEntry \/ AskIdent \/ ConnectSite \/ SendIdnt \/ ReadIdnt \/ Welcome
    <2>1. ~gotusercmd /\ gotusercmd' = gotusercmd
      BY <1>1, BeginStep, ConnectSiteStep, SendIdntStep, ReadIdntStep, WelcomeStep
      DEF PassAsked, Starting
    <2> QED
      BY <2>1 DEF UserAsked
  <1>2. CASE ReadSite \/ SslConnect \/ SslAccept
    BY <1>2, ReadSiteStep, SslConnectStep, SslAcceptStep, UserKept
  <1>3. CASE ReadClient
    <2>1. CASE pc' = "command" /\ toBnc # <<>>
      BY <1>0, <1>3, <2>1, ReadClientStep DEF UserAsked
    <2>2. CASE pc' \in {"select", "sslclient"} /\ toBnc' = toBnc
      BY <1>3, <2>2, ReadClientStep, UserKept
    <2> QED
      BY <1>3, <2>1, <2>2, ReadClientStep
  <1>4. CASE FirstReply \/ UserReply \/ PassReply \/ OtherReply
    <2>1. UNCHANGED <<gotusercmd, gotpasscmd>> /\ (ReplyPassed \/ ReplyRelinks)
      BY <1>4, ReplyStep
    <2>2. CASE ReplyPassed
      BY <1>0, <2>1, <2>2 DEF ReplyPassed, UserAsked
    <2>3. CASE ReplyRelinks
      BY <2>3 DEF ReplyRelinks, UserAsked, Waits, Moved, RelinkPlaces
    <2> QED
      BY <2>1, <2>2, <2>3
  <1>5. CASE RelinkSite \/ TellFailure \/ AskPass \/ WaitPass \/ TellLoggedIn
    BY <1>5, RelinkMoves DEF UserAsked, Waits
  <1>6. CASE CommandSteps
    <2>1. /\ pc \in {"command", "quit"} /\ pc' \in {"select", "quit"} /\ toBnc' = toBnc
      BY <1>6, CommandPlaces
    <2>2. /\ gotusercmd' <=> gotusercmd \/ (pc = "command" /\ input = "USER")
          /\ gotpasscmd => gotpasscmd'
      BY <1>6, MembersStep DEF MembersSet
    <2>3. SUFFICES ASSUME Waits', MustRelink', gotusercmd', ~gotpasscmd'
                   PROVE  asked' = "USER" /\ due' = 1 /\ toBnc' = <<>> /\ pc' # "command"
      BY DEF UserAsked
    <2>4. CASE gotusercmd
      <3>1. /\ asked = "USER" /\ due = 1 /\ toBnc = <<>> /\ pc = "quit"
        BY <1>0, <2>1, <2>2, <2>3, <2>4 DEF UserAsked
      <3>2. SentOn("QUIT")
        BY <1>6, <3>1, CommandCases DEF Answered, PassedOn, Quits
      <3> QED
        BY <2>1, <3>1, <3>2 DEF SentOn
    <2>5. CASE ~gotusercmd
      <3>1. pc = "command" /\ input = "USER" /\ Served
        BY <1>0, <2>2, <2>3, <2>5, WaitsServed
      <3>2. asked = "USER"
        BY <3>1 DEF Flight
      <3>3. InHand = 1 /\ ~Starting
        BY <3>1 DEF InHand, Starting
      <3>4. due = 1 /\ toBnc = <<>>
        BY <3>1, <3>3, OneOwed
      <3>5. PassedOn
        BY <1>6, <3>1, CommandCases DEF Answered, Quits, ProtCommands, SscnCommands
      <3> QED
        BY <2>1, <3>2, <3>4, <3>5 DEF PassedOn, SentOn
    <2> QED
      BY <2>4, <2>5
  <1>7. CASE ClientSends
    <2>1. /\ (ahead' <=> ahead \/ due > 0)
          /\ UNCHANGED <<gotusercmd, gotpasscmd>>
      BY <1>7, ClientSendsStep
    <2>2. Waits' => ~(due = 1)
      BY <2>1 DEF Waits
    <2> QED
      BY <1>0, <2>1, <2>2 DEF UserAsked
  <1>8. CASE Handshakes \/ SiteHandles \/ ClientCloses \/ SiteCloses
    BY <1>8, HandshakesStep, SiteSays, ClosesStep, UserKept
  <1> QED
    BY <1>1, <1>2, <1>3, <1>4, <1>5, <1>6, <1>7, <1>8 DEF Steps

\* What a client that waits has asked when a relink begins
LEMMA RelinkAsks ==
    ASSUME TypeOK, Stage, Flight, PassAsked, UserAsked, pc = "reply", ReplyRelinks, Served
    PROVE  asked \in {"USER", "PASS"}
  <1>1. Waits
    BY DEF Served, Waits, Moved, RelinkPlaces, ReplyRelinks, Stage
  <1>2. CASE gotusercmd /\ ~gotpasscmd /\ MustRelink
    BY <1>1, <1>2 DEF UserAsked
  <1>3. CASE input = "denied"
    <2>1. Due("denied")
      BY <1>3 DEF Flight, Has, Parts
    <2>2. Forwarded(asked) = "USER"
      BY <2>1 DEF Due, Says, OptionCommands
    <2> QED
      BY <2>2 DEF Forwarded
  <1>4. CASE gotpasscmd /\ ~gotwelcomemsg
    BY <1>1, <1>4 DEF PassAsked
  <1> QED
    BY <1>2, <1>3, <1>4 DEF ReplyRelinks

LEMMA RelinkAskedStep ==
    ASSUME TypeOK, Stage, Counted, Alone, Flight, PassAsked, UserAsked, RelinkAsked, Steps,
           pc' # "gone"
    PROVE  RelinkAsked'
  <1>0. Served' => Served
    BY ServedStays
  <1>1. SUFFICES ASSUME Served', pc' \in RelinkPlaces, toBnc' = <<>>, due' > 0
                 PROVE  asked' \in {"USER", "PASS"}
    BY DEF RelinkAsked
  <1>2. due \in Int
    BY DEF TypeOK
  <1>3. CASE CheckEntry \/ AskIdent \/ ConnectSite \/ SendIdnt \/ ReadIdnt \/ Welcome
    BY <1>1, <1>3, BeginStep, ConnectSiteStep, SendIdntStep, ReadIdntStep, WelcomeStep
    DEF RelinkPlaces
  <1>4. CASE ReadSite \/ ReadClient \/ SslConnect \/ SslAccept \/ CommandSteps
    BY <1>1, <1>4, ReadSiteStep, ReadClientStep, SslConnectStep, SslAcceptStep, CommandPlaces
    DEF RelinkPlaces
  <1>5. CASE FirstReply \/ UserReply \/ PassReply \/ OtherReply
    <2>1. pc = "reply" /\ ReplyRelinks
      BY <1>1, <1>5, ReplyStep DEF ReplyPassed, RelinkPlaces
    <2>2. asked' = asked
      BY <2>1 DEF ReplyRelinks, Silent
    <2> QED
      BY <1>0, <1>1, <2>1, <2>2, RelinkAsks
  <1>6. CASE RelinkSite \/ TellFailure \/ AskPass \/ TellLoggedIn
    <2>1. pc \in RelinkPlaces /\ toBnc' = toBnc
      BY <1>6, RelinkedStep, ToldFailureStep, AskPassStep, TellLoggedInStep DEF RelinkPlaces
    <2>2. asked' = asked /\ due' \in {due, due - 1}
      BY <1>6, RelinkedStep, ToldFailureStep, AskPassStep, TellLoggedInStep DEF Heard, Silent
    <2> QED
      BY <1>0, <1>1, <1>2, <2>1, <2>2 DEF RelinkAsked
  <1>7. CASE WaitPass
    <2>1. pc = "askpass" /\ toBnc # <<>> /\ toBnc' = Tail(toBnc)
      BY <1>7, WaitPassStep
    <2>2. due = 1
      <3>1. ~Starting
        BY <2>1 DEF Starting
      <3> QED
        BY <1>0, <1>1, <2>1, <3>1, OneOwed
    <2>3. Head(toBnc) = asked
      <3>1. toBnc \in Seq(AllCommands)
        BY DEF TypeOK
      <3>2. Among(Head(toBnc), toBnc)
        BY <2>1, <3>1, AmongTail
      <3> QED
        BY <1>0, <1>1, <2>1, <3>2 DEF Flight, Starting
    <2>4. CASE Head(toBnc) = "PASS" /\ Silent
      BY <2>3, <2>4 DEF Silent
    <2>5. CASE Heard("500")
      BY <1>1, <2>2, <2>5 DEF Heard, Endline
    <2> QED
      BY <1>7, <2>4, <2>5, WaitPassStep
  <1>8. CASE ClientSends
    <2>1. toBnc' = Append(toBnc, asked') /\ toBnc \in Seq(AllCommands)
      BY <1>8, ClientSendsStep DEF TypeOK
    <2>2. Append(toBnc, asked') # <<>>
      BY <2>1
    <2> QED
      BY <1>1, <2>1, <2>2
  <1>9. CASE Handshakes \/ SiteHandles \/ ClientCloses \/ SiteCloses
    BY <1>0, <1>1, <1>9, HandshakesStep, SiteSays, ClosesStep DEF RelinkAsked
  <1> QED
    BY <1>3, <1>4, <1>5, <1>6, <1>7, <1>8, <1>9 DEF Steps

LEMMA TlsAskedStep ==
    ASSUME TypeOK, Stage, Counted, Alone, Flight, PassAsked, TlsAsked, Steps, pc' # "gone"
    PROVE  TlsAsked'
  <1>0. Waits' => Waits
    BY MovedStays
  <1>1. SUFFICES ASSUME Waits', pc' \in TlsPlaces, toBnc' = <<>> PROVE due' <= 0
    BY DEF TlsAsked
  <1>2. CASE \/ CheckEntry \/ AskIdent \/ ConnectSite \/ SendIdnt \/ ReadIdnt \/ Welcome
             \/ ReadSite \/ ReadClient
    BY <1>1, <1>2, BeginStep, ConnectSiteStep, SendIdntStep, ReadIdntStep, WelcomeStep,
       ReadSiteStep, ReadClientStep DEF TlsPlaces
  <1>3. CASE FirstReply \/ UserReply \/ PassReply \/ OtherReply
    <2>1. pc = "reply" /\ ReplyPassed
      BY <1>1, <1>3, ReplyStep DEF ReplyRelinks, TlsPlaces
    <2>2. input \in AuthDone
      BY <1>1, <2>1 DEF ReplyPassed, TlsPlaces
    <2>3. InHand = 1 /\ ~Starting
      BY <2>1, <2>2 DEF InHand, Starting, Endline, AuthDone
    <2>4. due = 1
      BY <1>0, <1>1, <2>1, <2>3, OneOwed, WaitsServed
    <2>5. PICK line \in AuthDone : Heard(line)
      BY <2>1, <2>2 DEF ReplyPassed, AuthDone
    <2>6. due' = due - 1
      BY <2>5 DEF Heard, Endline, AuthDone
    <2> QED
      BY <2>4, <2>6
  <1>4. CASE SslConnect \/ SslAccept
    BY <1>0, <1>1, <1>4, SslConnectStep, SslAcceptStep DEF TlsAsked, TlsPlaces
  <1>5. CASE RelinkSite \/ TellFailure \/ AskPass \/ WaitPass \/ TellLoggedIn
    BY <1>1, <1>5, RelinkMoves DEF Waits
  <1>6. CASE CommandSteps
    BY <1>1, <1>6, CommandPlaces DEF TlsPlaces
  <1>7. CASE ClientSends
    <2>1. toBnc' = Append(toBnc, asked') /\ toBnc \in Seq(AllCommands)
      BY <1>7, ClientSendsStep DEF TypeOK
    <2>2. Append(toBnc, asked') # <<>>
      BY <2>1
    <2> QED
      BY <1>1, <2>1, <2>2
  <1>8. CASE Handshakes \/ SiteHandles \/ ClientCloses \/ SiteCloses
    BY <1>0, <1>1, <1>8, HandshakesStep, SiteSays, ClosesStep DEF TlsAsked
  <1> QED
    BY <1>2, <1>3, <1>4, <1>5, <1>6, <1>7, <1>8 DEF Steps

LEMMA SiteSslStep ==
    ASSUME TypeOK, Stage, SiteSsl, Steps, pc' # "gone" PROVE SiteSsl'
  <1>0. usingssl => usingssl'
    BY MustStays
  <1>1. CASE CheckEntry \/ AskIdent \/ ConnectSite \/ SendIdnt \/ ReadIdnt \/ Welcome
    <2>1. /\ ~Moved /\ pc \notin TlsPlaces /\ usingssl' = usingssl
          /\ ssl'.site = "null" <=> ssl.site = "null"
      BY <1>1, BeginStep, ConnectSiteStep, SendIdntStep, ReadIdntStep, WelcomeStep
      DEF Stage, Starting, TlsPlaces, Silent, SentOn, Heard
    <2> QED
      BY <2>1 DEF SiteSsl
  <1>2. CASE ReadSite \/ ReadClient
    <2>1. /\ pc \notin TlsPlaces /\ usingssl' = usingssl /\ relinked' = relinked
          /\ pc \notin RelinkPlaces
          /\ ssl'.site = "null" <=> ssl.site = "null"
      BY <1>2, ReadSiteStep, ReadClientStep DEF TlsPlaces, RelinkPlaces
    <2> QED
      BY <2>1 DEF SiteSsl, Moved
  <1>3. CASE FirstReply \/ UserReply \/ PassReply \/ OtherReply
    <2>1. /\ pc = "reply" /\ usingssl' = usingssl /\ relinked' = relinked
          /\ ReplyPassed \/ ReplyRelinks
      BY <1>3, ReplyStep
    <2>2. ssl'.site = ssl.site
      BY <2>1 DEF ReplyPassed, ReplyRelinks, Heard, Silent
    <2> QED
      BY <2>1, <2>2 DEF SiteSsl, Moved, TlsPlaces, RelinkPlaces
  <1>4. CASE SslConnect
    BY <1>4, SslConnectStep DEF SiteSsl, TlsPlaces
  <1>5. CASE SslAccept
    BY <1>5, SslAcceptStep DEF SiteSsl, TlsPlaces
  <1>6. CASE RelinkSite \/ TellFailure \/ AskPass \/ WaitPass \/ TellLoggedIn
    BY <1>6, RelinkMoves DEF SiteSsl
  <1>7. CASE CommandSteps
    <2>1. /\ pc \in {"command", "quit"} /\ usingssl' = usingssl /\ relinked' = relinked
      BY <1>7, CommandPlaces
    <2>2. ssl'.site = "null" <=> ssl.site = "null"
      BY <1>7, CommandCases DEF Answered, PassedOn, Quits, Heard, SentOn
    <2> QED
      BY <2>1, <2>2 DEF SiteSsl, Moved, TlsPlaces, RelinkPlaces
  <1>8. CASE ClientSends \/ Handshakes \/ SiteHandles \/ ClientCloses \/ SiteCloses
    BY <1>8, ClientSendsStep, HandshakesStep, SiteSays, ClosesStep DEF SiteSsl, Moved
  <1> QED
    BY <1>1, <1>2, <1>3, <1>4, <1>5, <1>6, <1>7, <1>8 DEF Steps

AskedInv == UserAsked /\ RelinkAsked /\ TlsAsked /\ SiteSsl

-----------------------------------------------------------------------------
(* The options of a session.  A step takes an option command, answers one, *)
(* or does neither.                                                        *)

\* The client waits for the answer to a command that the thread has taken.
Pending(cmd) == asked = cmd /\ due > 0 /\ toBnc = <<>> /\ pc # "command"

\* What holds in every state, but for the options.
Known ==
    /\ TypeOK /\ Stage /\ LoginOrder /\ Counted /\ Alone /\ Flight /\ PassAsked
    /\ TlsInv /\ AskedInv

Undisturbed == Served /\ "option" \notin refused

\* TLS begins.
Accepts ==
    /\ pc = "reply" /\ input \in AuthDone /\ pc' = "sslconnect" /\ ~usingssl /\ ~Moved
    /\ input = "234 SSL" <=> Forwarded(asked) = "AUTH SSL"
    /\ sslprotp' <=> sslprotp \/ input = "234 SSL"
    /\ believes'.private <=> believes.private \/ asked = "AUTH SSL"

Keeps ==
    /\ transfertype' = transfertype /\ (sscn' <=> sscn)
    /\ believes'.ascii <=> believes.ascii
    /\ believes'.sscn <=> believes.sscn
    /\ \A cmd \in OptionCommands : Pending(cmd)' <=> Pending(cmd)
    /\ ~lateauth' => \/ (sslprotp' <=> sslprotp) /\ (believes'.private <=> believes.private)
                     \/ Accepts

\* A command is passed on to the site.
Takes ==
    /\ pc = "command" /\ pc' = "select" /\ input = asked /\ MembersSet /\ believes' = believes
    /\ \A cmd \in OptionCommands : ~Pending(cmd)
    /\ \A cmd \in OptionCommands : Pending(cmd)' <=> cmd = asked

\* The bouncer answers it.
Grants ==
    /\ pc = "command" /\ input = asked /\ MembersSet /\ believes' = Believing("200")
    /\ \A cmd \in OptionCommands : ~Pending(cmd) /\ ~Pending(cmd)'
    /\ \/ input \in ProtCommands /\ (relinked \/ On("translate_nosslfxp"))
       \/ input \in SscnCommands /\ gotusercmd /\ gotpasscmd

\* The site has answered it, and the answer is passed on.
Granted ==
    /\ pc = "reply" /\ input = "200" /\ believes' = Believing("200")
    /\ transfertype' = transfertype /\ (sscn' <=> sscn) /\ (sslprotp' <=> sslprotp)
    /\ \A cmd \in OptionCommands : (Pending(cmd) <=> cmd = asked) /\ ~Pending(cmd)'

LEMMA BelievesWhat ==
    ASSUME TypeOK, NEW line
    PROVE  /\ line # "200" /\ line \notin AuthDone => Believing(line) = believes
           /\ line = "200" =>
                /\ Believing(line).ascii <=> asked = "TYPE A" \/ (asked # "TYPE I" /\ believes.ascii)
                /\ Believing(line).sscn <=> asked = "SSCN ON" \/ (asked # "SSCN OFF" /\ believes.sscn)
                /\ Believing(line).private <=>
                     asked = "PROT P" \/ (asked # "PROT C" /\ believes.private)
           /\ line \in AuthDone =>
                /\ Believing(line).ascii <=> believes.ascii
                /\ Believing(line).sscn <=> believes.sscn
                /\ Believing(line).private <=> believes.private \/ asked = "AUTH SSL"
  <1>1. believes \in Beliefs
    BY DEF TypeOK
  <1>2. /\ believes.private \in BOOLEAN /\ believes.ascii \in BOOLEAN /\ believes.sscn \in BOOLEAN
    BY <1>1 DEF Beliefs
  <1>3. CASE line # "200" /\ line \notin AuthDone
    BY <1>3, NoAuthDone DEF Believing
  <1>4. CASE line \in AuthDone
    <2>1. line # "200"
      BY <1>4, NoAuthDone
    <2>2. Believing(line) = IF asked = "AUTH SSL" THEN [believes EXCEPT !.private = TRUE]
                            ELSE believes
      BY <1>4, <2>1 DEF Believing
    <2> QED
      BY <1>1, <1>2, <2>1, <2>2, <1>4 DEF Beliefs
  <1>5. CASE line = "200"
    <2>1. line \notin AuthDone
      BY <1>5, NoAuthDone
    <2>2. CASE asked \in {"PROT P", "PROT C"}
      <3>1. Believing(line) = [believes EXCEPT !.private = (asked = "PROT P")]
        BY <1>5, <2>1, <2>2 DEF Believing
      <3> QED
        BY <1>1, <1>2, <1>5, <2>1, <2>2, <3>1 DEF Beliefs
    <2>3. CASE asked \in {"TYPE A", "TYPE I"}
      <3>1. Believing(line) = [believes EXCEPT !.ascii = (asked = "TYPE A")]
        BY <1>5, <2>1, <2>3 DEF Believing
      <3> QED
        BY <1>1, <1>2, <1>5, <2>1, <2>3, <3>1 DEF Beliefs
    <2>4. CASE asked \in {"SSCN ON", "SSCN OFF"}
      <3>1. Believing(line) = [believes EXCEPT !.sscn = (asked = "SSCN ON")]
        BY <1>5, <2>1, <2>4 DEF Believing
      <3> QED
        BY <1>1, <1>2, <1>5, <2>1, <2>4, <3>1 DEF Beliefs
    <2>5. CASE asked \notin OptionCommands
      <3>1. Believing(line) = believes
        BY <1>5, <2>1, <2>5 DEF Believing, OptionCommands
      <3> QED
        BY <1>2, <1>5, <2>1, <2>5, <3>1 DEF OptionCommands
    <2> QED
      BY <2>2, <2>3, <2>4, <2>5 DEF OptionCommands
  <1> QED
    BY <1>3, <1>4, <1>5

LEMMA PendingSame ==
    ASSUME UNCHANGED <<asked, due, toBnc>>, pc' = "command" <=> pc = "command"
    PROVE  \A cmd : Pending(cmd)' <=> Pending(cmd)
  BY DEF Pending

LEMMA NotPending ==
    /\ asked \notin OptionCommands => \A cmd \in OptionCommands : ~Pending(cmd)
    /\ asked' \notin OptionCommands => \A cmd \in OptionCommands : ~Pending(cmd)'
  BY DEF Pending

LEMMA MembersKept ==
    ASSUME UNCHANGED <<transfertype, sscn, sslprotp, believes>>,
           \A cmd \in OptionCommands : Pending(cmd)' <=> Pending(cmd)
    PROVE  Keeps
  BY DEF Keeps

\* A client gets a line that is no answer to an option command.
LEMMA HeardOther ==
    ASSUME TypeOK, NEW line, Heard(line), line # "200", line \notin AuthDone
    PROVE  believes' = believes /\ asked' = asked
  BY BelievesWhat DEF Heard

LEMMA OptionStart ==
    ASSUME Known, Served, Steps, pc' # "gone",
           CheckEntry \/ AskIdent \/ ConnectSite \/ SendIdnt \/ ReadIdnt \/ Welcome
    PROVE  Keeps
  <1>0. TypeOK /\ Stage /\ Alone /\ Flight
    BY DEF Known
  <1>1. CASE CheckEntry \/ AskIdent \/ ConnectSite \/ SendIdnt \/ ReadIdnt
    <2>1. /\ Starting /\ asked' = asked
          /\ UNCHANGED <<transfertype, sscn, sslprotp, believes>>
      BY <1>0, <1>1, BeginStep, ConnectSiteStep, SendIdntStep, ReadIdntStep
      DEF Starting, Silent, SentOn
    <2>2. asked = "none"
      BY <1>0, <2>1 DEF Alone, Served
    <2>3. asked \notin OptionCommands /\ asked' \notin OptionCommands
      BY <2>1, <2>2 DEF OptionCommands
    <2> QED
      BY <2>1, <2>3, NotPending, MembersKept
  <1>2. CASE Welcome
    <2>1. /\ pc = "welcome" /\ fromSite # <<>>
          /\ \E line \in {"220", Head(fromSite)} : Heard(line)
          /\ UNCHANGED <<transfertype, sscn, sslprotp>>
      BY <1>0, <1>2, WelcomeStep
    <2>2. Among("220", fromSite) /\ Head(fromSite) = "220"
      BY <1>0, <2>1, FromTail DEF Stage
    <2>3. believes' = believes /\ asked' = asked
      BY <1>0, <2>1, <2>2, HeardOther, NoAuthDone
    <2>4. Due("220")
      BY <1>0, <2>2 DEF Flight, Has, Parts
    <2>5. Forwarded(asked) \notin OptionCommands
      BY <2>4 DEF Due, Says, OptionCommands
    <2>6. asked \notin OptionCommands /\ asked' \notin OptionCommands
      BY <2>3, <2>5 DEF Forwarded, OptionCommands
    <2> QED
      BY <2>1, <2>3, <2>6, NotPending, MembersKept
  <1> QED
    BY <1>1, <1>2

LEMMA OptionLoop ==
    ASSUME Known, Steps, pc' # "gone", ReadSite \/ ReadClient \/ SslConnect \/ SslAccept
    PROVE  Keeps
  <1>0. TypeOK
    BY DEF Known
  <1>1. CASE ReadSite \/ SslConnect \/ SslAccept
    <2>1. /\ UNCHANGED <<transfertype, sscn, sslprotp, believes, asked, due, toBnc>>
          /\ pc # "command" /\ pc' # "command"
      BY <1>0, <1>1, ReadSiteStep, SslConnectStep, SslAcceptStep
    <2> QED
      BY <2>1, PendingSame, MembersKept
  <1>2. CASE ReadClient
    <2>1. /\ UNCHANGED <<transfertype, sscn, sslprotp, believes, asked, due>> /\ pc # "command"
      BY <1>0, <1>2, ReadClientStep
    <2>2. \/ pc' = "command" /\ toBnc # <<>>
          \/ pc' \in {"select", "sslclient"} /\ toBnc' = toBnc
      BY <1>0, <1>2, ReadClientStep
    <2>3. \A cmd \in OptionCommands : Pending(cmd)' <=> Pending(cmd)
      BY <2>1, <2>2 DEF Pending
    <2> QED
      BY <2>1, <2>3, MembersKept
  <1> QED
    BY <1>1, <1>2

LEMMA OptionRelink ==
    ASSUME Known, RelinkAsked', Served, Served', Steps, pc' # "gone",
           RelinkSite \/ TellFailure \/ AskPass \/ WaitPass \/ TellLoggedIn
    PROVE  Keeps /\ \A cmd \in OptionCommands : ~Pending(cmd) /\ ~Pending(cmd)'
  <1>0. TypeOK /\ RelinkAsked
    BY DEF Known, AskedInv
  <1>1. /\ pc \in RelinkPlaces /\ UNCHANGED <<transfertype, sscn, sslprotp>>
        /\ Silent \/ Heard("427") \/ Heard("331") \/ Heard("500") \/ Heard("230")
           \/ (believes' = believes /\ UNCHANGED <<asked, due, toBnc>>)
        /\ toBnc' = toBnc \/ (toBnc # <<>> /\ pc' \in RelinkPlaces)
    <2>1. CASE RelinkSite
      BY <1>0, <2>1, RelinkedStep DEF RelinkPlaces
    <2>2. CASE TellFailure \/ AskPass \/ TellLoggedIn
      BY <1>0, <2>2, ToldFailureStep, AskPassStep, TellLoggedInStep DEF RelinkPlaces
    <2>3. CASE WaitPass
      BY <1>0, <2>3, WaitPassStep DEF RelinkPlaces
    <2> QED
      BY <2>1, <2>2, <2>3
  <1>2. believes' = believes /\ asked' = asked
    BY <1>0, <1>1, HeardOther, NoAuthDone DEF Silent
  <1>3. due' > 0 => due > 0
    <2>1. due \in Int
      BY <1>0 DEF TypeOK
    <2> QED
      BY <1>1, <2>1 DEF Silent, Heard
  <1>4. \A cmd \in OptionCommands : ~Pending(cmd)
    <2>1. toBnc = <<>> /\ due > 0 => asked \notin OptionCommands
      BY <1>0, <1>1 DEF RelinkAsked, OptionCommands
    <2> QED
      BY <2>1 DEF Pending
  <1>5. \A cmd \in OptionCommands : ~Pending(cmd)'
    <2>1. toBnc' = <<>> /\ due' > 0 => asked' \notin OptionCommands
      <3>1. CASE toBnc' = toBnc
        BY <1>0, <1>1, <1>2, <1>3, <3>1 DEF RelinkAsked, OptionCommands
      <3>2. CASE pc' \in RelinkPlaces
        BY <3>2 DEF RelinkAsked, OptionCommands
      <3> QED
        BY <1>1, <3>1, <3>2
    <2> QED
      BY <2>1 DEF Pending
  <1> QED
    BY <1>1, <1>2, <1>4, <1>5, MembersKept

LEMMA OptionPeers ==
    ASSUME Known, Served', Steps, pc' # "gone",
           ClientSends \/ Handshakes \/ SiteHandles \/ ClientCloses \/ SiteCloses
    PROVE  Keeps
  <1>0. TypeOK
    BY DEF Known
  <1>1. CASE ClientSends
    <2>1. /\ UNCHANGED <<transfertype, sscn, sslprotp, believes>>
          /\ toBnc' = Append(toBnc, asked') /\ (ahead' <=> ahead \/ due > 0)
      BY <1>0, <1>1, ClientSendsStep
    <2>2. toBnc' # <<>>
      <3>1. toBnc \in Seq(AllCommands)
        BY <1>0 DEF TypeOK
      <3> QED
        BY <2>1, <3>1
    <2>3. ~(due > 0)
      BY <2>1 DEF Served
    <2> QED
      BY <2>1, <2>2, <2>3, MembersKept DEF Pending
  <1>2. CASE Handshakes \/ SiteHandles \/ ClientCloses \/ SiteCloses
    <2>1. UNCHANGED <<transfertype, sscn, sslprotp, believes, asked, due, toBnc, pc>>
      BY <1>0, <1>2, HandshakesStep, SiteSays, ClosesStep
    <2> QED
      BY <2>1, PendingSame, MembersKept
  <1> QED
    BY <1>1, <1>2

LEMMA OptionReply ==
    ASSUME Known, Undisturbed, Steps, pc' # "gone",
           FirstReply \/ UserReply \/ PassReply \/ OtherReply
    PROVE  Keeps \/ Granted
  <1>0. /\ TypeOK /\ Stage /\ Counted /\ Alone /\ Flight /\ AuthFirst /\ ClientTls /\ SiteTls
        /\ MovedTls /\ Served /\ "option" \notin refused
    BY DEF Known, TlsInv, Undisturbed
  <1>1. /\ pc = "reply" /\ UNCHANGED <<toBnc, transfertype, sscn, ahead, lateauth>>
        /\ sslprotp' <=> sslprotp \/ (input = "234 SSL" /\ gotfirstcmd /\ ~gotusercmd)
        /\ ReplyPassed \/ ReplyRelinks
    BY <1>0, ReplyStep
  <1>2. pc' # "command" /\ pc # "command" /\ ~Starting
    BY <1>1 DEF ReplyPassed, ReplyRelinks, Starting
  <1>3. CASE ReplyRelinks
    <2>1. /\ sslprotp' <=> sslprotp
          /\ UNCHANGED <<believes, asked, due, toBnc>>
      BY <1>1, <1>3 DEF ReplyRelinks, Silent
    <2> QED
      BY <1>1, <1>2, <2>1, PendingSame DEF Keeps
  <1>4. ASSUME NEW line, line = input \/ (line = "234 SSL" /\ input = "234 TLS"), Heard(line),
               ReplyPassed, input \in AuthDone
        PROVE  Keeps
    <2>1. line \in AuthDone /\ input \notin Parts
      BY <1>4 DEF AuthDone, Parts
    <2>2. input \in Says(Forwarded(asked))
      BY <1>0, <1>1, <2>1 DEF Flight, Has, Due
    <2>3. /\ Forwarded(asked) \in AuthCommands
          /\ input = "234 SSL" <=> Forwarded(asked) = "AUTH SSL"
      BY <1>4, <2>2 DEF Says, AuthDone, AuthCommands, OptionCommands
    <2>4. asked' = asked /\ asked \notin OptionCommands
      BY <1>4, <2>3 DEF Heard, Forwarded, AuthCommands, OptionCommands
    <2>5. /\ believes'.ascii <=> believes.ascii
          /\ believes'.sscn <=> believes.sscn
          /\ believes'.private <=> believes.private \/ asked = "AUTH SSL"
      BY <1>0, <1>4, <2>1, BelievesWhat DEF Heard
    <2>6. ASSUME ~lateauth' PROVE Accepts
      <3>1. Quiet
        BY <1>0, <1>1, <2>6 DEF Quiet, Served
      <3>2. ~Moved /\ gotfirstcmd /\ ~gotusercmd
        BY <1>0, <1>1, <1>4, <3>1, AuthAnswered
      <3>3. pc' = "sslconnect"
        BY <1>4, <3>2 DEF ReplyPassed
      <3>4. Accepting
        BY <1>1, <1>4 DEF Accepting, Has
      <3>5. ~usingssl
        BY <1>0, <1>1, <3>1, <3>2, <3>4 DEF SiteTls, ClientTls
      <3> QED
        BY <1>1, <1>4, <2>3, <2>5, <3>2, <3>3, <3>5 DEF Accepts
    <2> QED
      BY <1>1, <2>4, <2>5, <2>6, NotPending DEF Keeps
  <1>5. ASSUME Heard("200"), input = "200" PROVE Granted
    <2>1. InHand = 1
      BY <1>1, <1>5 DEF InHand, Endline
    <2>2. due = 1 /\ toBnc = <<>>
      BY <1>0, <1>1, <1>2, <2>1, OneOwed
    <2>3. due' = 0 /\ believes' = Believing("200")
      BY <1>5, <2>2 DEF Heard, Endline
    <2>4. \A cmd \in OptionCommands : (Pending(cmd) <=> cmd = asked) /\ ~Pending(cmd)'
      BY <1>2, <2>2, <2>3 DEF Pending
    <2>5. sslprotp' <=> sslprotp
      BY <1>1, <1>5
    <2> QED
      BY <1>1, <1>5, <2>3, <2>4, <2>5 DEF Granted
  <1>6. ASSUME Heard(input), input # "200", input \notin AuthDone PROVE Keeps
    <2>1. believes' = believes /\ asked' = asked
      BY <1>0, <1>6, HeardOther
    <2>2. sslprotp' <=> sslprotp
      BY <1>1, <1>6 DEF AuthDone
    <2>3. \A cmd \in OptionCommands : Pending(cmd)' <=> Pending(cmd)
      <3>1. CASE ~Endline(input)
        <4>1. due' = due
          BY <1>6, <3>1 DEF Heard
        <4> QED
          BY <1>1, <1>2, <2>1, <4>1, PendingSame
      <3>2. CASE Endline(input)
        <4>1. Due(input)
          BY <1>0, <1>1, <3>2 DEF Flight, Has, Endline, Parts
        <4>2. ASSUME asked \in OptionCommands PROVE FALSE
          <5>1. Says(Forwarded(asked)) = {"200", "no"} /\ asked \notin {"USER", "PASS"}
            BY <4>2 DEF Says, Forwarded, OptionCommands
          <5> QED
            BY <1>0, <1>6, <4>1, <5>1 DEF Due
        <4> QED
          BY <2>1, <4>2, NotPending
      <3> QED
        BY <3>1, <3>2
    <2> QED
      BY <1>1, <2>1, <2>2, <2>3 DEF Keeps
  <1>7. CASE ReplyPassed
    <2>1. PICK line : /\ line = input \/ (line = "234 SSL" /\ input = "234 TLS")
                      /\ Heard(line)
      BY <1>7 DEF ReplyPassed
    <2>2. CASE input \in AuthDone
      BY <1>4, <1>7, <2>1, <2>2
    <2>3. CASE input \notin AuthDone
      <3>1. line = input
        BY <2>1, <2>3 DEF AuthDone
      <3> QED
        BY <1>5, <1>6, <2>1, <2>3, <3>1
    <2> QED
      BY <2>2, <2>3
  <1> QED
    BY <1>1, <1>3, <1>7

LEMMA OptionCommand ==
    ASSUME Known, Served, Steps, pc' # "gone", CommandSteps
    PROVE  Keeps \/ Takes \/ Grants
  <1>0. TypeOK /\ Counted /\ Alone /\ Flight
    BY DEF Known
  <1>1. /\ pc \in {"command", "quit"} /\ pc' \in {"select", "quit"} /\ toBnc' = toBnc
        /\ MembersSet
        /\ Answered \/ PassedOn \/ Quits
    BY <1>0, CommandPlaces, CommandCases, MembersStep
  <1>2. ASSUME pc = "command"
        PROVE  /\ input = asked /\ due = 1 /\ toBnc = <<>>
               /\ \A cmd \in OptionCommands : ~Pending(cmd)
    <2>1. InHand = 1 /\ ~Starting
      BY <1>2 DEF InHand, Starting
    <2> QED
      BY <1>0, <1>2, <2>1, OneOwed DEF Flight, Pending
  <1>3. pc = "quit" => asked = "QUIT"
    BY <1>0 DEF Flight
  <1>4. ASSUME asked' = asked, believes' = believes, asked \notin OptionCommands,
               pc = "command" => input \notin OptionCommands
        PROVE  Keeps
    <2>1. transfertype' = transfertype /\ (sscn' <=> sscn) /\ (sslprotp' <=> sslprotp)
      BY <1>1, <1>4 DEF MembersSet, OptionCommands, ProtCommands, SscnCommands
    <2> QED
      BY <1>4, <2>1, NotPending DEF Keeps
  <1>5. CASE PassedOn
    <2>1. pc = "command" /\ pc' = "select" /\ UNCHANGED <<believes, asked, due>>
      BY <1>5 DEF PassedOn, SentOn
    <2>2. \A cmd \in OptionCommands : Pending(cmd)' <=> cmd = asked
      BY <1>1, <1>2, <2>1 DEF Pending
    <2> QED
      BY <1>1, <1>2, <2>1, <2>2 DEF Takes
  <1>6. CASE Answered
    <2>1. CASE input = "IDNT" /\ Heard("500")
      <3>1. believes' = believes /\ asked' = asked
        BY <1>0, <2>1, HeardOther, NoAuthDone
      <3> QED
        BY <1>2, <1>4, <1>6, <2>1, <3>1 DEF Answered, OptionCommands
    <2>2. CASE /\ Heard("200")
               /\ \/ input \in ProtCommands /\ (relinked \/ On("translate_nosslfxp"))
                  \/ input \in SscnCommands /\ gotusercmd /\ gotpasscmd
      <3>1. pc = "command" /\ due = 1
        BY <1>2, <1>6 DEF Answered
      <3>2. due' = 0 /\ believes' = Believing("200")
        BY <2>2, <3>1 DEF Heard, Endline
      <3>3. \A cmd \in OptionCommands : ~Pending(cmd)'
        BY <3>2 DEF Pending
      <3> QED
        BY <1>1, <1>2, <2>2, <3>1, <3>2, <3>3 DEF Grants
    <2> QED
      BY <1>6, <2>1, <2>2 DEF Answered
  <1>7. CASE Quits
    <2>1. asked = "QUIT" /\ (pc = "command" => input = "QUIT")
      BY <1>2, <1>3, <1>7 DEF Quits
    <2>2. believes' = believes /\ asked' = asked
      BY <1>0, <1>7, HeardOther, NoAuthDone DEF Quits, SentOn
    <2> QED
      BY <1>4, <2>1, <2>2 DEF OptionCommands
  <1> QED
    BY <1>1, <1>5, <1>6, <1>7

LEMMA RefusedStays ==
    ASSUME TypeOK, Steps, pc' # "gone" PROVE refused \subseteq refused'
  <1>1. CASE \/ CheckEntry \/ AskIdent \/ ConnectSite \/ SendIdnt \/ ReadIdnt \/ Welcome
             \/ ReadSite \/ ReadClient
    BY <1>1, BeginStep, ConnectSiteStep, SendIdntStep, ReadIdntStep, WelcomeStep,
       ReadSiteStep, ReadClientStep
  <1>2. CASE FirstReply \/ UserReply \/ PassReply \/ OtherReply \/ SslConnect \/ SslAccept
    BY <1>2, ReplyStep, SslConnectStep, SslAcceptStep
  <1>3. CASE RelinkSite \/ TellFailure \/ AskPass \/ WaitPass \/ TellLoggedIn
    BY <1>3, RelinkedStep, ToldFailureStep, AskPassStep, WaitPassStep, TellLoggedInStep
  <1>4. CASE CommandSteps \/ ClientSends \/ Handshakes \/ ClientCloses \/ SiteCloses
    BY <1>4, CommandPlaces, ClientSendsStep, HandshakesStep, ClosesStep
  <1>5. CASE SiteHandles
    BY <1>5, SiteSays DEF SiteKeeps, SiteWelcomes, SiteLine
  <1> QED
    BY <1>1, <1>2, <1>3, <1>4, <1>5 DEF Steps

\* What a step of an undisturbed session does to the options
LEMMA OptionCases ==
    ASSUME Known, RelinkAsked', Undisturbed', Steps, pc' # "gone"
    PROVE  Undisturbed /\ (Keeps \/ Takes \/ Grants \/ Granted)
  <1>1. TypeOK /\ Stage
    BY DEF Known
  <1>2. Undisturbed /\ Served /\ Served'
    BY <1>1, ServedStays, RefusedStays DEF Undisturbed
  <1> QED
    BY <1>2, OptionStart, OptionLoop, OptionRelink, OptionPeers, OptionReply, OptionCommand
    DEF Steps

\* The type of the transfers
TypeAgreed ==
    Undisturbed =>
      (transfertype = 1 <=> Pending("TYPE A") \/ (~Pending("TYPE I") /\ believes.ascii))

\* SSCN is obeyed after PASS only, when the site has let the client in.
SscnAgreed ==
    Undisturbed =>
      /\ gotpasscmd => (sscn <=> Pending("SSCN ON") \/ (~Pending("SSCN OFF") /\ believes.sscn))
      /\ ~gotpasscmd => (sscn <=> believes.sscn)
      /\ ~gotpasscmd /\ asked \in SscnCommands => ~Has("200")

Unpromised == Undisturbed /\ ~lateauth /\ ~On("translate_nosslfxp")

\* PROT is obeyed with TLS only, and before that no site agrees to it.
ProtAgreed ==
    Unpromised =>
      /\ usingssl =>
           (sslprotp <=> Pending("PROT P") \/ (~Pending("PROT C") /\ believes.private))
      /\ ~usingssl /\ ~Moved =>
           /\ sslprotp <=> believes.private
           /\ pc \notin TlsPlaces => ~sslprotp
           /\ asked \in ProtCommands => ~Has("200")

LEMMA TypeAgreedStep ==
    ASSUME Known, TypeAgreed, RelinkAsked', Steps, pc' # "gone" PROVE TypeAgreed'
  <1> USE DEF OptionCommands
  <1>1. SUFFICES ASSUME Undisturbed' PROVE TypeAgreed'
    BY DEF TypeAgreed
  <1>2. Undisturbed /\ (Keeps \/ Takes \/ Grants \/ Granted)
    BY <1>1, OptionCases
  <1>3. TypeOK /\ (transfertype = 1 <=> Pending("TYPE A")
                                         \/ (~Pending("TYPE I") /\ believes.ascii))
    BY <1>2 DEF Known, TypeAgreed
  <1>4. CASE Keeps
    BY <1>3, <1>4 DEF Keeps, TypeAgreed
  <1>5. CASE Takes
    <2>1. /\ pc = "command" /\ input = asked /\ (believes'.ascii <=> believes.ascii)
          /\ ~Pending("TYPE A") /\ ~Pending("TYPE I")
          /\ Pending("TYPE A")' <=> asked = "TYPE A"
          /\ Pending("TYPE I")' <=> asked = "TYPE I"
      BY <1>5 DEF Takes
    <2>2. transfertype' = IF asked = "TYPE A" THEN 1
                          ELSE IF asked = "TYPE I" THEN 2 ELSE transfertype
      BY <1>5, <2>1 DEF Takes, MembersSet
    <2>3. CASE asked = "TYPE A"
      <3>1. transfertype' = 1 /\ Pending("TYPE A")'
        BY <2>1, <2>2, <2>3
      <3> QED
        BY <3>1 DEF TypeAgreed
    <2>4. CASE asked = "TYPE I"
      <3>1. transfertype' = 2 /\ ~Pending("TYPE A")' /\ Pending("TYPE I")'
        BY <2>1, <2>2, <2>4
      <3>2. 2 # 1
        OBVIOUS
      <3>3. ~(transfertype' = 1)
        BY <3>1, <3>2
      <3> QED
        BY <3>1, <3>3, Zenon DEF TypeAgreed
    <2>5. CASE asked \notin {"TYPE A", "TYPE I"}
      <3>1. transfertype' = transfertype /\ ~Pending("TYPE A")' /\ ~Pending("TYPE I")'
        BY <2>1, <2>2, <2>5
      <3> QED
        BY <1>3, <2>1, <3>1 DEF TypeAgreed
    <2> QED
      BY <2>3, <2>4, <2>5
  <1>6. CASE Grants
    <2>1. asked \notin {"TYPE A", "TYPE I"}
      BY <1>6 DEF Grants, ProtCommands, SscnCommands
    <2>2. believes'.ascii <=> believes.ascii
      BY <1>3, <1>6, <2>1, BelievesWhat DEF Grants
    <2> QED
      BY <1>3, <1>6, <2>1, <2>2 DEF Grants, TypeAgreed, MembersSet
  <1>7. CASE Granted
    <2>1. believes'.ascii <=> asked = "TYPE A" \/ (asked # "TYPE I" /\ believes.ascii)
      BY <1>3, <1>7, BelievesWhat DEF Granted
    <2> QED
      BY <1>3, <1>7, <2>1 DEF Granted, TypeAgreed
  <1> QED
    BY <1>2, <1>4, <1>5, <1>6, <1>7

\* No step but those of the site brings a reply.
LEMMA NothingSaid ==
    ASSUME TypeOK, Steps, ~SiteHandles, pc' # "gone"
    PROVE  \A x : x # "220" /\ Has(x)' => Has(x)
  <1>1. CASE CheckEntry \/ AskIdent \/ SendIdnt \/ ReadIdnt
    BY <1>1, BeginStep, SendIdntStep, ReadIdntStep DEF Has
  <1>2. CASE ConnectSite
    BY <1>2, ConnectSiteStep, AmongNothing DEF Has, Among
  <1>3. CASE Welcome
    BY <1>3, WelcomeStep, FromTail DEF Has
  <1>4. CASE ReadSite
    BY <1>4, ReadReply
  <1>5. CASE ReadClient \/ SslConnect \/ SslAccept
    BY <1>5, ReadClientStep, SslConnectStep, SslAcceptStep DEF Has
  <1>6. CASE FirstReply \/ UserReply \/ PassReply \/ OtherReply
    <2>1. fromSite' = fromSite /\ (ReplyPassed \/ ReplyRelinks)
      BY <1>6, ReplyStep
    <2>2. pc' # "reply"
      BY <2>1 DEF ReplyPassed, ReplyRelinks
    <2> QED
      BY <2>1, <2>2 DEF Has
  <1>7. CASE RelinkSite
    BY <1>7, RelinkedStep, AmongNothing DEF Has
  <1>8. CASE TellFailure \/ AskPass \/ WaitPass \/ TellLoggedIn
    BY <1>8, ToldFailureStep, AskPassStep, WaitPassStep, TellLoggedInStep DEF Has
  <1>9. CASE CommandSteps
    BY <1>9, CommandPlaces DEF Has
  <1>10. CASE ClientSends \/ Handshakes \/ ClientCloses \/ SiteCloses
    BY <1>10, ClientSendsStep, HandshakesStep, ClosesStep DEF Has
  <1> QED
    BY <1>1, <1>2, <1>3, <1>4, <1>5, <1>6, <1>7, <1>8, <1>9, <1>10 DEF Steps

\* Where the answer to an option command comes from
LEMMA SaysYes ==
    ASSUME Known, Served', Steps, pc' # "gone", asked' \in OptionCommands, Has("200")'
    PROVE  /\ asked' = asked
           /\ \/ Has("200")
              \/ /\ SiteHandles /\ toSite # <<>> /\ Head(toSite) = asked
                 /\ <<"200">> \in Answers(asked)
  <1>0. TypeOK /\ Stage /\ Counted /\ Alone /\ Flight
    BY DEF Known
  <1>1. Served
    BY <1>0, ServedStays
  <1>2. CASE ClientSends
    <2>1. /\ UNCHANGED <<fromSite, pc, input>> /\ pc # "gone" /\ (ahead' <=> ahead \/ due > 0)
      BY <1>0, <1>2, ClientSendsStep
    <2>2. due <= 0
      BY <1>0, <2>1 DEF Served, TypeOK
    <2>3. Has("200")
      BY <2>1 DEF Has
    <2> QED
      BY <1>0, <1>1, <2>1, <2>2, <2>3, NothingOwed DEF Parts
  <1>3. CASE SiteHandles
    <2>1. /\ toSite # <<>> /\ Head(toSite) \in AllCommands /\ UNCHANGED <<pc, input, asked>>
          /\ SiteKeeps \/ SiteWelcomes \/ \E line \in Replies : SiteLine(line)
      BY <1>0, <1>3, SiteSays
    <2>2. CASE SiteKeeps
      BY <2>1, <2>2 DEF SiteKeeps, Has
    <2>3. CASE SiteWelcomes
      BY <1>0, <2>1, <2>3, SaidWelcome
    <2>4. ASSUME NEW line \in Replies, SiteLine(line), ~Has("200")
          PROVE  Head(toSite) = asked /\ <<"200">> \in Answers(asked)
      <3>1. line = "200"
        BY <1>0, <2>1, <2>4, SaidLine
      <3>2. Head(toSite) # "IDNT" /\ <<"200">> \in Answers(Head(toSite))
        BY <2>4, <3>1 DEF SiteLine
      <3>3. Among(Head(toSite), toSite)
        BY <1>0, <2>1, ToTail
      <3>4. Head(toSite) = Forwarded(asked)
        BY <1>0, <1>1, <3>2, <3>3 DEF Flight
      <3>5. Forwarded(asked) = asked
        BY <2>1 DEF Forwarded, OptionCommands
      <3> QED
        BY <3>2, <3>4, <3>5
    <2> QED
      BY <1>3, <2>1, <2>2, <2>3, <2>4
  <1>4. CASE ~ClientSends /\ ~SiteHandles
    BY <1>0, <1>4, OnlyClientAsks, NothingSaid
  <1> QED
    BY <1>2, <1>3, <1>4

\* A command that is at the site is all the client waits for.
LEMMA AtSiteOnly ==
    ASSUME Known, Served, pc # "gone", toSite # <<>>, Head(toSite) = asked,
           asked \in OptionCommands
    PROVE  due > 0 /\ toBnc = <<>>
  <1>0. TypeOK /\ Counted /\ Alone
    BY DEF Known
  <1>1. Among(asked, toSite) /\ asked # "IDNT" /\ asked # "none"
    BY <1>0, ToTail DEF OptionCommands
  <1>2. ~Starting
    BY <1>0, <1>1 DEF Alone, Served
  <1>3. due \in Int
    BY <1>0 DEF TypeOK
  <1>4. ~(due <= 0)
    BY <1>0, <1>1, NothingOwed
  <1>5. toBnc = <<>>
    BY <1>0, <1>1, <1>2, OneOwed
  <1> QED
    BY <1>3, <1>4, <1>5

LEMMA YesToSscn ==
    ASSUME NEW cmd \in SscnCommands, <<"200">> \in Answers(cmd) PROVE peer.site.in
  <1>1. <<"200">> # <<"no">>
    OBVIOUS
  <1> QED
    BY <1>1 DEF Answers, No, SscnCommands

LEMMA YesToProt ==
    ASSUME NEW cmd \in ProtCommands, <<"200">> \in Answers(cmd) PROVE peer.site.tls
  <1>1. <<"200">> # <<"no">>
    OBVIOUS
  <1> QED
    BY <1>1 DEF Answers, No, ProtCommands

\* The thread takes PASS, and no other command.
LEMMA PassTaken ==
    ASSUME Known, RelinkAsked', Served, Served', Steps, pc' # "gone"
    PROVE  /\ gotpasscmd => gotpasscmd'
           /\ gotpasscmd' => gotpasscmd \/ \A cmd \in OptionCommands : ~Pending(cmd)'
  <1>0. TypeOK /\ Flight
    BY DEF Known
  <1>1. CASE CommandSteps
    <2>1. gotpasscmd' <=> gotpasscmd \/ (pc = "command" /\ input = "PASS" /\ gotusercmd)
      BY <1>0, <1>1, MembersStep DEF MembersSet
    <2>2. asked' = asked
      BY <1>0, <1>1, CommandCases DEF Answered, PassedOn, Quits, Heard, SentOn
    <2>3. pc = "command" /\ input = "PASS" => asked' \notin OptionCommands
      BY <1>0, <2>2 DEF Flight, OptionCommands
    <2> QED
      BY <2>1, <2>3, NotPending
  <1>2. CASE TellLoggedIn
    BY <1>0, <1>2, TellLoggedInStep, OptionRelink
  <1>3. CASE ~CommandSteps /\ ~TellLoggedIn
    BY <1>0, <1>3, OthersKeep
  <1> QED
    BY <1>1, <1>2, <1>3

LEMMA SscnSilent ==
    ASSUME Known, SscnAgreed, Undisturbed, Served', Steps, pc # "gone", pc' # "gone",
           ~gotpasscmd, asked' \in SscnCommands
    PROVE  ~Has("200")'
  <1>0. TypeOK /\ Stage /\ LoginOrder /\ RelinkAsked /\ Served
    BY DEF Known, AskedInv, Undisturbed
  <1>1. SUFFICES ASSUME Has("200")' PROVE FALSE
    OBVIOUS
  <1>2. asked' \in OptionCommands
    BY DEF SscnCommands, OptionCommands
  <1>3. asked' = asked /\ ~Has("200")
    BY <1>1, <1>2, SaysYes DEF SscnAgreed
  <1>4. toSite # <<>> /\ Head(toSite) = asked /\ peer.site.in
    BY <1>1, <1>2, <1>3, SaysYes, YesToSscn
  <1>5. due > 0 /\ toBnc = <<>>
    BY <1>0, <1>2, <1>3, <1>4, AtSiteOnly
  <1>6. Moved
    BY <1>0, <1>4 DEF LoginOrder
  <1>7. pc \in RelinkPlaces
    BY <1>0, <1>6 DEF Stage, Moved
  <1> QED
    BY <1>0, <1>3, <1>5, <1>7 DEF RelinkAsked, SscnCommands

LEMMA SscnAgreedStep ==
    ASSUME Known, SscnAgreed, RelinkAsked', Steps, pc # "gone", pc' # "gone" PROVE SscnAgreed'
  <1>1. SUFFICES ASSUME Undisturbed' PROVE SscnAgreed'
    BY DEF SscnAgreed
  <1>2. Undisturbed /\ (Keeps \/ Takes \/ Grants \/ Granted)
    BY <1>1, OptionCases
  <1>3. TypeOK /\ Stage /\ Served /\ Served'
    BY <1>1, <1>2 DEF Known, Undisturbed
  <1>4. /\ gotpasscmd => (sscn <=> Pending("SSCN ON") \/ (~Pending("SSCN OFF") /\ believes.sscn))
        /\ ~gotpasscmd => (sscn <=> believes.sscn)
        /\ ~gotpasscmd /\ asked \in SscnCommands => ~Has("200")
    BY <1>2 DEF SscnAgreed
  <1>5. "SSCN ON" \in OptionCommands /\ "SSCN OFF" \in OptionCommands
    BY DEF OptionCommands
  <1>6. /\ gotpasscmd => gotpasscmd'
        /\ gotpasscmd' => gotpasscmd \/ (~Pending("SSCN ON")' /\ ~Pending("SSCN OFF")')
    BY <1>3, <1>5, PassTaken
  <1>7. ~gotpasscmd' /\ asked' \in SscnCommands => ~Has("200")'
    <2>1. ~gotpasscmd' => ~gotpasscmd
      BY <1>6
    <2> QED
      BY <1>2, <1>3, <2>1, SscnSilent
  <1>8. ASSUME ~gotpasscmd PROVE sscn' <=> believes'.sscn
    <2>1. CASE Keeps
      BY <1>4, <1>8, <2>1 DEF Keeps
    <2>2. CASE Takes
      <3>1. believes' = believes /\ (sscn' <=> sscn)
        BY <1>8, <2>2 DEF Takes, MembersSet
      <3> QED
        BY <1>4, <1>8, <3>1
    <2>3. CASE Grants
      <3>1. /\ input = asked /\ input \in ProtCommands /\ (sscn' <=> sscn)
            /\ believes' = Believing("200")
        BY <1>8, <2>3 DEF Grants, MembersSet
      <3>2. asked # "SSCN ON" /\ asked # "SSCN OFF"
        BY <3>1 DEF ProtCommands
      <3>3. believes'.sscn <=> believes.sscn
        BY <1>3, <3>1, <3>2, BelievesWhat
      <3> QED
        BY <1>4, <1>8, <3>1, <3>3
    <2>4. CASE Granted
      <3>1. Has("200") /\ (sscn' <=> sscn) /\ believes' = Believing("200")
        BY <2>4 DEF Granted, Has
      <3>2. asked # "SSCN ON" /\ asked # "SSCN OFF"
        BY <1>4, <1>8, <3>1 DEF SscnCommands
      <3>3. believes'.sscn <=> believes.sscn
        BY <1>3, <3>1, <3>2, BelievesWhat
      <3> QED
        BY <1>4, <1>8, <3>1, <3>3
    <2> QED
      BY <1>2, <2>1, <2>2, <2>3, <2>4
  <1>9. ASSUME gotpasscmd
        PROVE  sscn' <=> Pending("SSCN ON")' \/ (~Pending("SSCN OFF")' /\ believes'.sscn)
    <2>1. gotusercmd
      BY <1>3, <1>9 DEF Stage
    <2>2. CASE Keeps
      BY <1>4, <1>5, <1>9, <2>2 DEF Keeps
    <2>3. CASE Takes
      <3>1. /\ input = asked /\ pc = "command" /\ believes' = believes
            /\ ~Pending("SSCN ON") /\ ~Pending("SSCN OFF")
            /\ Pending("SSCN ON")' <=> asked = "SSCN ON"
            /\ Pending("SSCN OFF")' <=> asked = "SSCN OFF"
        BY <1>5, <2>3 DEF Takes
      <3>2. sscn' <=> IF asked \in SscnCommands THEN asked = "SSCN ON" ELSE sscn
        BY <1>9, <2>1, <2>3, <3>1 DEF Takes, MembersSet
      <3> QED
        BY <1>4, <1>9, <3>1, <3>2 DEF SscnCommands
    <2>4. CASE Grants
      <3>1. /\ input = asked /\ pc = "command" /\ believes' = Believing("200")
            /\ ~Pending("SSCN ON") /\ ~Pending("SSCN OFF")
            /\ ~Pending("SSCN ON")' /\ ~Pending("SSCN OFF")'
        BY <1>5, <2>4 DEF Grants
      <3>2. sscn' <=> IF asked \in SscnCommands THEN asked = "SSCN ON" ELSE sscn
        BY <1>9, <2>1, <2>4, <3>1 DEF Grants, MembersSet
      <3>3. believes'.sscn <=> asked = "SSCN ON" \/ (asked # "SSCN OFF" /\ believes.sscn)
        BY <1>3, <3>1, BelievesWhat
      <3> QED
        BY <1>4, <1>9, <3>1, <3>2, <3>3 DEF SscnCommands
    <2>5. CASE Granted
      <3>1. /\ believes' = Believing("200") /\ (sscn' <=> sscn)
            /\ Pending("SSCN ON") <=> asked = "SSCN ON"
            /\ Pending("SSCN OFF") <=> asked = "SSCN OFF"
            /\ ~Pending("SSCN ON")' /\ ~Pending("SSCN OFF")'
        BY <1>5, <2>5 DEF Granted
      <3>2. believes'.sscn <=> asked = "SSCN ON" \/ (asked # "SSCN OFF" /\ believes.sscn)
        BY <1>3, <3>1, BelievesWhat
      <3> QED
        BY <1>4, <1>9, <3>1, <3>2
    <2> QED
      BY <1>2, <2>2, <2>3, <2>4, <2>5
  <1> QED
    BY <1>6, <1>7, <1>8, <1>9 DEF SscnAgreed

\* TLS begins and ends with the two handshakes.
LEMMA TlsEnds ==
    ASSUME TypeOK, Steps, pc' # "gone",
           (pc \in TlsPlaces /\ pc' \notin TlsPlaces) \/ (usingssl' /\ ~usingssl)
    PROVE  SslAccept /\ pc = "sslaccept" /\ pc' = "select" /\ usingssl'
  <1>1. CASE \/ CheckEntry \/ AskIdent \/ ConnectSite \/ SendIdnt \/ ReadIdnt \/ Welcome
             \/ ReadSite \/ ReadClient
    BY <1>1, BeginStep, ConnectSiteStep, SendIdntStep, ReadIdntStep, WelcomeStep,
       ReadSiteStep, ReadClientStep DEF TlsPlaces
  <1>2. CASE FirstReply \/ UserReply \/ PassReply \/ OtherReply
    BY <1>2, ReplyStep DEF TlsPlaces
  <1>3. CASE SslConnect
    BY <1>3, SslConnectStep DEF TlsPlaces
  <1>4. CASE SslAccept
    BY <1>4, SslAcceptStep DEF TlsPlaces
  <1>5. CASE RelinkSite \/ TellFailure \/ AskPass \/ WaitPass \/ TellLoggedIn
    BY <1>5, RelinkedStep, ToldFailureStep, AskPassStep, WaitPassStep, TellLoggedInStep
    DEF TlsPlaces
  <1>6. CASE CommandSteps \/ ClientSends \/ Handshakes \/ SiteHandles \/ ClientCloses \/ SiteCloses
    BY <1>6, CommandPlaces, ClientSendsStep, HandshakesStep, SiteSays, ClosesStep DEF TlsPlaces
  <1> QED
    BY <1>1, <1>2, <1>3, <1>4, <1>5, <1>6 DEF Steps

LEMMA ProtSilent ==
    ASSUME Known, ProtAgreed, Unpromised, Served', Steps, pc # "gone", pc' # "gone",
           ~usingssl, ~Moved, asked' \in ProtCommands
    PROVE  ~Has("200")'
  <1>0. /\ TypeOK /\ Flight /\ TlsAsked /\ SiteSsl /\ SiteTls
        /\ Served /\ Waits /\ Quiet
    BY DEF Known, AskedInv, TlsInv, Unpromised, Undisturbed, Served, Waits, Quiet
  <1>1. SUFFICES ASSUME Has("200")' PROVE FALSE
    OBVIOUS
  <1>2. asked' \in OptionCommands
    BY DEF ProtCommands, OptionCommands
  <1>3. asked' = asked /\ ~Has("200")
    BY <1>1, <1>2, SaysYes DEF ProtAgreed
  <1>4. toSite # <<>> /\ Head(toSite) = asked /\ peer.site.tls
    BY <1>1, <1>2, <1>3, SaysYes, YesToProt
  <1>5. due > 0 /\ toBnc = <<>> /\ due \in Int
    BY <1>0, <1>2, <1>3, <1>4, AtSiteOnly DEF TypeOK
  <1>6. pc \notin TlsPlaces
    <2>1. ~(due <= 0)
      BY <1>5
    <2> QED
      BY <1>0, <1>5, <2>1 DEF TlsAsked
  <1>7. Accepting
    BY <1>0, <1>4, <1>6 DEF SiteTls, SiteSsl, TlsPlaces
  <1>8. PICK line \in AuthDone : Has(line)
    BY <1>7 DEF Accepting
  <1>9. line \in Says(Forwarded(asked))
    BY <1>0, <1>8 DEF Flight, Due, Parts, AuthDone
  <1>10. Says(Forwarded(asked)) = {"200", "no"}
    BY <1>2, <1>3 DEF Says, Forwarded, OptionCommands
  <1> QED
    BY <1>8, <1>9, <1>10 DEF AuthDone

\* Once the session has TLS, a command takes the option and its answer agrees to it.
LEMMA ProtWithTls ==
    ASSUME TypeOK, Keeps \/ Takes \/ Grants \/ Granted, usingssl, ~lateauth',
           sslprotp <=> Pending("PROT P") \/ (~Pending("PROT C") /\ believes.private)
    PROVE  sslprotp' <=> Pending("PROT P")' \/ (~Pending("PROT C")' /\ believes'.private)
  <1>1. "PROT P" \in OptionCommands /\ "PROT C" \in OptionCommands
    BY DEF OptionCommands
  <1>2. CASE Keeps
    BY <1>1, <1>2 DEF Keeps, Accepts
  <1>3. CASE Takes
    <2>1. /\ input = asked /\ pc = "command" /\ believes' = believes
          /\ ~Pending("PROT P") /\ ~Pending("PROT C")
          /\ Pending("PROT P")' <=> asked = "PROT P"
          /\ Pending("PROT C")' <=> asked = "PROT C"
      BY <1>1, <1>3 DEF Takes
    <2>2. sslprotp' <=> IF asked \in ProtCommands THEN asked = "PROT P" ELSE sslprotp
      BY <1>3, <2>1 DEF Takes, MembersSet
    <2> QED
      BY <2>1, <2>2 DEF ProtCommands
  <1>4. CASE Grants
    <2>1. /\ input = asked /\ pc = "command" /\ believes' = Believing("200")
          /\ ~Pending("PROT P") /\ ~Pending("PROT C")
          /\ ~Pending("PROT P")' /\ ~Pending("PROT C")'
      BY <1>1, <1>4 DEF Grants
    <2>2. sslprotp' <=> IF asked \in ProtCommands THEN asked = "PROT P" ELSE sslprotp
      BY <1>4, <2>1 DEF Grants, MembersSet
    <2>3. believes'.private <=> asked = "PROT P" \/ (asked # "PROT C" /\ believes.private)
      BY <2>1, BelievesWhat
    <2> QED
      BY <2>1, <2>2, <2>3 DEF ProtCommands
  <1>5. CASE Granted
    <2>1. /\ believes' = Believing("200") /\ (sslprotp' <=> sslprotp)
          /\ Pending("PROT P") <=> asked = "PROT P"
          /\ Pending("PROT C") <=> asked = "PROT C"
          /\ ~Pending("PROT P")' /\ ~Pending("PROT C")'
      BY <1>1, <1>5 DEF Granted
    <2>2. believes'.private <=> asked = "PROT P" \/ (asked # "PROT C" /\ believes.private)
      BY <2>1, BelievesWhat
    <2> QED
      BY <2>1, <2>2
  <1> QED
    BY <1>2, <1>3, <1>4, <1>5

\* Before TLS begins neither side takes the data connections for protected.
LEMMA ProtWithoutTls ==
    ASSUME Known, Steps, Keeps \/ Takes \/ Grants \/ Granted, pc' # "gone", ~lateauth',
           ~usingssl, ~usingssl', ~Moved, ~On("translate_nosslfxp"),
           sslprotp <=> believes.private,
           pc \notin TlsPlaces => ~sslprotp,
           asked \in ProtCommands => ~Has("200")
    PROVE  (sslprotp' <=> believes'.private) /\ (pc' \notin TlsPlaces => ~sslprotp')
  <1>0. TypeOK /\ (pc' \notin TlsPlaces => pc \notin TlsPlaces)
    BY TlsEnds DEF Known
  <1>1. CASE Keeps /\ ~Accepts
    BY <1>0, <1>1 DEF Keeps
  <1>2. CASE Accepts
    <2>1. pc = "reply" /\ pc' = "sslconnect" /\ Forwarded(asked) = asked
      BY <1>2 DEF Accepts, Forwarded
    <2>2. ~sslprotp /\ ~believes.private
      BY <2>1 DEF TlsPlaces
    <2> QED
      BY <1>2, <2>1, <2>2 DEF Accepts, TlsPlaces
  <1>3. CASE Takes
    <2>1. pc = "command" /\ believes' = believes
      BY <1>3 DEF Takes
    <2>2. ~sslprotp /\ ~believes.private
      BY <2>1 DEF TlsPlaces
    <2>3. ~sslprotp'
      BY <1>3, <2>2 DEF Takes, MembersSet
    <2> QED
      BY <2>1, <2>2, <2>3
  <1>4. CASE Grants
    <2>1. /\ pc = "command" /\ input = asked /\ believes' = Believing("200")
          /\ input \in SscnCommands
      BY <1>4 DEF Grants, Moved
    <2>2. ~sslprotp /\ ~believes.private
      BY <2>1 DEF TlsPlaces
    <2>3. ~sslprotp'
      BY <1>4, <2>2 DEF Grants, MembersSet
    <2>4. asked # "PROT P" /\ asked # "PROT C"
      BY <2>1 DEF SscnCommands
    <2>5. believes'.private <=> believes.private
      BY <1>0, <2>1, <2>4, BelievesWhat
    <2> QED
      BY <2>2, <2>3, <2>5
  <1>5. CASE Granted
    <2>1. /\ pc = "reply" /\ Has("200") /\ believes' = Believing("200")
          /\ sslprotp' <=> sslprotp
      BY <1>5 DEF Granted, Has
    <2>2. ~sslprotp /\ ~believes.private
      BY <2>1 DEF TlsPlaces
    <2>3. asked # "PROT P" /\ asked # "PROT C"
      BY <2>1 DEF ProtCommands
    <2>4. believes'.private <=> believes.private
      BY <1>0, <2>1, <2>3, BelievesWhat
    <2> QED
      BY <2>1, <2>2, <2>4
  <1> QED
    BY <1>1, <1>2, <1>3, <1>4, <1>5

LEMMA ProtAgreedStep ==
    ASSUME Known, ProtAgreed, RelinkAsked', Steps, pc # "gone", pc' # "gone" PROVE ProtAgreed'
  <1>1. SUFFICES ASSUME Unpromised' PROVE ProtAgreed'
    BY DEF ProtAgreed
  <1>2. Undisturbed /\ (Keeps \/ Takes \/ Grants \/ Granted)
    BY <1>1, OptionCases DEF Unpromised
  <1>3. TypeOK /\ Stage /\ PassAsked /\ TlsAsked /\ Served /\ Served' /\ ~lateauth'
    BY <1>1, <1>2 DEF Known, AskedInv, Unpromised, Undisturbed
  <1>4. /\ config' = config /\ (usingssl => usingssl')
        /\ ~lateauth
        /\ ~Moved' => ~Moved
    BY <1>3, MustStays, QuietStays, MovedStays DEF Quiet, Waits, Served
  <1>5. Unpromised /\ ~On("translate_nosslfxp")
    BY <1>1, <1>2, <1>4 DEF Unpromised, On
  <1>6. /\ usingssl =>
             (sslprotp <=> Pending("PROT P") \/ (~Pending("PROT C") /\ believes.private))
        /\ ~usingssl /\ ~Moved =>
             /\ sslprotp <=> believes.private
             /\ pc \notin TlsPlaces => ~sslprotp
             /\ asked \in ProtCommands => ~Has("200")
    BY <1>5 DEF ProtAgreed
  <1>7. usingssl' =>
          (sslprotp' <=> Pending("PROT P")' \/ (~Pending("PROT C")' /\ believes'.private))
    <2>1. CASE usingssl
      BY <1>2, <1>3, <1>6, <2>1, ProtWithTls
    <2>2. CASE usingssl' /\ ~usingssl
      <3>1. SslAccept /\ pc = "sslaccept"
        BY <1>3, <2>2, TlsEnds
      <3>2. ~Moved
        BY <1>3, <3>1 DEF PassAsked, Stage, Moved, RelinkPlaces
      <3>3. Keeps /\ ~Accepts
        BY <3>1, OptionLoop DEF Accepts
      <3>4. "PROT P" \in OptionCommands /\ "PROT C" \in OptionCommands
        BY DEF OptionCommands
      <3>5. ~Pending("PROT P") /\ ~Pending("PROT C")
        <4>1. toBnc = <<>> => due <= 0
          BY <1>3, <3>1, <3>2 DEF TlsAsked, TlsPlaces, Waits, Served
        <4>2. toBnc = <<>> => ~(due > 0)
          BY <1>3, <4>1 DEF TypeOK
        <4> QED
          BY <4>2 DEF Pending
      <3> QED
        BY <1>3, <1>6, <2>2, <3>2, <3>3, <3>4, <3>5 DEF Keeps
    <2> QED
      BY <2>1, <2>2
  <1>8. ~usingssl' /\ ~Moved' =>
          /\ sslprotp' <=> believes'.private
          /\ pc' \notin TlsPlaces => ~sslprotp'
          /\ asked' \in ProtCommands => ~Has("200")'
    BY <1>2, <1>3, <1>4, <1>5, <1>6, ProtWithoutTls, ProtSilent
  <1> QED
    BY <1>7, <1>8 DEF ProtAgreed

-----------------------------------------------------------------------------
OptionInv ==
    /\ SafeInv
    /\ pc # "gone" => AskedInv /\ TypeAgreed /\ SscnAgreed /\ ProtAgreed

LEMMA OptionInit ==
    ASSUME Init PROVE OptionInv
  <1>1. SafeInv
    BY SafeInit
  <1>2. /\ pc = "entry" /\ asked = "none" /\ usingssl = FALSE /\ gotusercmd = FALSE
        /\ gotpasscmd = FALSE /\ ssl.site = "null" /\ sslprotp = FALSE /\ sscn = FALSE
        /\ transfertype = 1
        /\ believes = [private |-> FALSE, ascii |-> TRUE, sscn |-> FALSE]
    BY DEF Init
  <1>3. believes.private = FALSE /\ believes.ascii = TRUE /\ believes.sscn = FALSE
    BY <1>2
  <1>4. AskedInv
    BY <1>2 DEF AskedInv, UserAsked, RelinkAsked, TlsAsked, SiteSsl, RelinkPlaces, TlsPlaces
  <1>5. \A cmd \in OptionCommands : ~Pending(cmd)
    BY <1>2 DEF Pending, OptionCommands
  <1>6. TypeAgreed
    BY <1>2, <1>3, <1>5 DEF TypeAgreed, OptionCommands
  <1>7. SscnAgreed
    BY <1>2, <1>3 DEF SscnAgreed, SscnCommands
  <1>8. ProtAgreed
    BY <1>2, <1>3 DEF ProtAgreed, ProtCommands
  <1> QED
    BY <1>1, <1>4, <1>6, <1>7, <1>8 DEF OptionInv

LEMMA OptionStep ==
    ASSUME EntriesMatch, OptionInv, Next PROVE OptionInv'
  <1>1. SafeInv'
    BY SafeStep DEF OptionInv
  <1>2. ASSUME pc' # "gone" PROVE AskedInv' /\ TypeAgreed' /\ SscnAgreed' /\ ProtAgreed'
    <2>1. Steps /\ pc # "gone" /\ TypeOK
      BY <1>2, StepCases DEF OptionInv, SafeInv, RelinkInv, CountInv, LoginInv
    <2>2. /\ Known /\ AskedInv /\ TypeAgreed /\ SscnAgreed /\ ProtAgreed
          /\ Stage /\ Counted /\ Alone /\ Flight /\ PassAsked
      BY <2>1 DEF OptionInv, SafeInv, RelinkInv, CountInv, LoginInv, Known
    <2>3. AskedInv'
      BY <1>2, <2>1, <2>2, UserStep, RelinkAskedStep, TlsAskedStep, SiteSslStep DEF AskedInv
    <2>4. RelinkAsked'
      BY <2>3 DEF AskedInv
    <2> QED
      BY <1>2, <2>1, <2>2, <2>3, <2>4, TypeAgreedStep, SscnAgreedStep, ProtAgreedStep
  <1> QED
    BY <1>1, <1>2 DEF OptionInv

LEMMA OptionStutter ==
    ASSUME OptionInv, UNCHANGED vars PROVE OptionInv'
  <1>1. SafeInv'
    BY SafeStutter DEF OptionInv
  <1>2. UNCHANGED <<config, pc, input, toBnc, fromSite, gotusercmd, gotpasscmd, relinked,
                    usingssl, ssl, sslprotp, transfertype, sscn, due, asked, believes, ahead,
                    lateauth, refused, lost>>
    BY DEF vars, wires, flags, got, opts, client, history
  <1>3. /\ (Waits' <=> Waits) /\ (Served' <=> Served) /\ (Moved' <=> Moved)
        /\ (MustRelink' <=> MustRelink) /\ (Undisturbed' <=> Undisturbed)
        /\ (Unpromised' <=> Unpromised)
        /\ \A cmd : Pending(cmd)' <=> Pending(cmd)
        /\ \A x : Has(x)' <=> Has(x)
    BY <1>2 DEF Waits, Served, Moved, MustRelink, On, Undisturbed, Unpromised, Pending, Has
  <1>4. AskedInv => AskedInv'
    BY <1>2, <1>3 DEF AskedInv, UserAsked, RelinkAsked, TlsAsked, SiteSsl
  <1>5. TypeAgreed => TypeAgreed'
    BY <1>2, <1>3 DEF TypeAgreed
  <1>6. SscnAgreed => SscnAgreed'
    BY <1>2, <1>3 DEF SscnAgreed
  <1>7. ProtAgreed => ProtAgreed'
    BY <1>2, <1>3 DEF ProtAgreed
  <1> QED
    BY <1>1, <1>2, <1>4, <1>5, <1>6, <1>7 DEF OptionInv

\* Between two commands of a client that waits, the members the data threads
\* will be started with hold what the client takes for agreed: the type of the
\* transfers, SSCN, and with TLS the protection of the data connections, as
\* long as the site refused nothing.  The members are set when a command is
\* read, the client believes when it is answered, and in between it waits.
THEOREM OptionsAreAgreed ==
    ASSUME EntriesMatch PROVE Spec => []OptionsAgreed
  <1>1. OptionInv /\ [Next]_vars => OptionInv'
    BY OptionStep, OptionStutter
  <1>2. Init => OptionInv
    BY OptionInit
  <1>3. OptionInv => OptionsAgreed
    <2>1. SUFFICES ASSUME OptionInv, pc = "select", due = 0, ~ahead, ~lost,
                          "option" \notin refused
                   PROVE  /\ (transfertype = 1) <=> believes.ascii
                          /\ sscn <=> believes.sscn
                          /\ usingssl /\ ~lateauth /\ ~On("translate_nosslfxp") =>
                               (sslprotp <=> believes.private)
      BY DEF OptionsAgreed
    <2>2. Undisturbed /\ TypeAgreed /\ SscnAgreed /\ ProtAgreed
      BY <2>1 DEF Undisturbed, Served, OptionInv
    <2>3. \A cmd : ~Pending(cmd)
      BY <2>1 DEF Pending
    <2>4. (transfertype = 1) <=> believes.ascii
      BY <2>2, <2>3 DEF TypeAgreed
    <2>5. sscn <=> believes.sscn
      BY <2>2, <2>3 DEF SscnAgreed
    <2>6. usingssl /\ ~lateauth /\ ~On("translate_nosslfxp") => (sslprotp <=> believes.private)
      BY <2>2, <2>3 DEF ProtAgreed, Unpromised
    <2> QED
      BY <2>4, <2>5, <2>6
  <1> QED
    BY <1>1, <1>2, <1>3, PTL DEF Spec
=============================================================================
