----------------------------- MODULE Lines_proofs -----------------------------
(***************************************************************************)
(* No line that the client gets is broken by a line of the other thread,   *)
(* for any sizes of the buffer, the socket, the notice and the lines, any  *)
(* number of retries and signals, and with TLS on any side.                *)
(*                                                                         *)
(* The invariant says who holds rwlock, what the texts are made of and     *)
(* where in its text the writer that holds rwlock is.  And the site's part *)
(* of what the client gets comes out of a pipe: the units are numbered on  *)
(* from what is shown over what the control thread has to what is on its   *)
(* way.                                                                    *)
(***************************************************************************)
EXTENDS Lines, TLAPS, SequenceTheorems, FiniteSetTheorems

-----------------------------------------------------------------------------
(* Sequences of units *)

\* A unit that v may come behind.
Follows(u, v) ==
    \/ u[1] = v[1]
    \/ u[1] = "site" /\ EndsLine(u)
    \/ u = <<"data", Notice>>

Whole(s) == \A i \in 1 .. Len(s) - 1 : Follows(s[i], s[i + 1])

\* Everything is of the site.
Sited(s) == \A i \in 1 .. Len(s) : s[i][1] = "site"

\* Any unit may come behind it.
Settled(s) ==
    s # <<>> =>
        \/ s[Len(s)][1] = "site" /\ EndsLine(s[Len(s)])
        \/ s[Len(s)] = <<"data", Notice>>

NoticeText == [i \in 1 .. Notice |-> <<"data", i>>]

-----------------------------------------------------------------------------
(* Invariants *)

\* rwlock is held by the thread that reads or sends, and by nobody else.
LockInv ==
    /\ \A w \in Writers : pc[w] \in {"read", "send"} <=> rwlock = w
    /\ pc["data"] \in {"write", "send", "gone"}

\* What is passed on is the site's, and what is written is a line, or the notice.
TextInv ==
    /\ Sited(inq) /\ Sited(tmp) /\ Sited(text["control"])
    /\ text["data"] = NoticeText
    /\ \A w \in Writers : pc[w] = "write" => total[w] = 0
    /\ ~cut /\ pc["control"] \in {"write", "send"} =>
          text["control"] # <<>> /\ EndsLine(Last(text["control"]))

\* w is in the middle of its text.
Amid(w) == pc[w] = "send" /\ total[w] > 0

\* What the client gets ends where the thread that writes is in its text, or
\* where anything may follow.
ShownInv ==
    ~cut =>
        /\ Whole(Shown)
        /\ \A w \in Writers : Amid(w) => Shown # <<>> /\ Last(Shown) = text[w][total[w]]
        /\ (\A w \in Writers : ~Amid(w)) => Settled(Shown)

IInv == TypeOK /\ LockInv /\ TextInv /\ ShownInv

LEMMA ConstFacts ==
    /\ BufferSize \in Nat /\ BufferSize > 0 /\ Notice \in Nat /\ Notice > 0
    /\ RetryCount \in Nat /\ MaxUnits \in Nat /\ MaxSignals \in Nat
    /\ "control" \in Writers /\ "data" \in Writers /\ Free \notin Writers
    /\ \A w \in Writers : w # "control" => w = "data"
  BY LinesAssumption DEF Writers, Free

\* What a step may do to one thread's place.
LEMMA Goes ==
    ASSUME TypeOK, NEW w \in Writers, NEW from, NEW to, At(w, from, to),
           to \in {"loop", "read", "write", "send", "gone"}
    PROVE  /\ pc[w] = from /\ pc'[w] = to /\ \A v \in Writers : v # w => pc'[v] = pc[v]
           /\ pc' \in [Writers -> {"loop", "read", "write", "send", "gone"}]
  BY DEF At, TypeOK

\* The lock is taken or given back where the place says so.
LEMMA LockStep ==
    ASSUME TypeOK, LockInv, NEW w \in Writers, NEW from, NEW to, At(w, from, to),
           to \in {"loop", "read", "write", "send", "gone"},
           \/ from \notin {"read", "send"} /\ to \in {"read", "send"} /\ rwlock = Free /\ rwlock' = w
           \/ from \in {"read", "send"} /\ to \notin {"read", "send"} /\ Unlock
           \/ from \in {"read", "send"} /\ to \in {"read", "send"} /\ rwlock' = rwlock,
           w = "data" => to \in {"write", "send", "gone"}
    PROVE  LockInv' /\ rwlock' \in Writers \cup {Free}
  <1>1. /\ pc[w] = from /\ pc'[w] = to /\ \A v \in Writers : v # w => pc'[v] = pc[v]
    BY Goes
  <1>2. pc'["data"] \in {"write", "send", "gone"}
    BY <1>1, ConstFacts DEF LockInv
  <1>3. rwlock' \in Writers \cup {Free}
    BY DEF Unlock, TypeOK
  <1>4. \A v \in Writers : pc'[v] \in {"read", "send"} <=> rwlock' = v
    <2> TAKE v \in Writers
    <2>1. pc[v] \in {"read", "send"} <=> rwlock = v
      BY DEF LockInv
    <2>2. pc[w] \in {"read", "send"} <=> rwlock = w
      BY DEF LockInv
    <2>3. CASE v = w
      BY <1>1, <2>2, <2>3, ConstFacts DEF Unlock
    <2>4. CASE v # w
      BY <1>1, <2>1, <2>2, <2>4, ConstFacts DEF Unlock
    <2> QED
      BY <2>3, <2>4
  <1> QED
    BY <1>2, <1>3, <1>4 DEF LockInv

LEMMA LockSame ==
    ASSUME LockInv, UNCHANGED <<pc, rwlock>>
    PROVE  LockInv'
  BY DEF LockInv

-----------------------------------------------------------------------------
(* Lemmas about sequences *)

LEMMA Piece ==
    ASSUME NEW q \in Seq(Unit), NEW m \in Nat, NEW n \in Nat, m + n <= Len(q)
    PROVE  /\ SubSeq(q, m + 1, m + n) \in Seq(Unit) /\ Len(SubSeq(q, m + 1, m + n)) = n
           /\ \A k \in 1 .. n : SubSeq(q, m + 1, m + n)[k] = q[m + k]
  <1> DEFINE b == SubSeq(q, m + 1, m + n)
  <1>1. \A i \in m + 1 .. m + n : i \in 1 .. Len(q)
    OBVIOUS
  <1>2. b \in Seq(Unit)
    BY <1>1
  <1>3. Len(b) = n
    OBVIOUS
  <1>4. \A k \in 1 .. n : b[k] = q[m + k]
    OBVIOUS
  <1> QED
    BY <1>2, <1>3, <1>4

LEMMA Joined ==
    ASSUME NEW q \in Seq(Unit), NEW b \in Seq(Unit)
    PROVE  /\ q \o b \in Seq(Unit) /\ Len(q \o b) = Len(q) + Len(b)
           /\ \A i \in 1 .. Len(q) : (q \o b)[i] = q[i]
           /\ \A i \in 1 .. Len(b) : (q \o b)[Len(q) + i] = b[i]
  OBVIOUS

LEMMA JoinedTwice ==
    ASSUME NEW q \in Seq(Unit), NEW b \in Seq(Unit), NEW c \in Seq(Unit)
    PROVE  (q \o b) \o c = q \o (b \o c)
  <1> DEFINE S == Unit
  <1>1. q \in Seq(S) /\ b \in Seq(S) /\ c \in Seq(S)
    OBVIOUS
  <1> HIDE DEF S
  <1> QED
    BY <1>1, ConcatAssociative

LEMMA SitedPieces ==
    ASSUME NEW q \in Seq(Unit), NEW b \in Seq(Unit), NEW n \in Nat, n <= Len(b),
           Sited(q), Sited(b)
    PROVE  /\ Sited(q \o SubSeq(b, 1, n)) /\ Sited(SubSeq(b, n + 1, Len(b)))
           /\ q \o SubSeq(b, 1, n) \in Seq(Unit) /\ SubSeq(b, n + 1, Len(b)) \in Seq(Unit)
           /\ Len(SubSeq(b, n + 1, Len(b))) = Len(b) - n
           /\ Len(q \o SubSeq(b, 1, n)) = Len(q) + n
  <1> DEFINE h == SubSeq(b, 1, n)
             t == SubSeq(b, n + 1, Len(b))
  <1>1. h \in Seq(Unit) /\ Len(h) = n /\ \A k \in 1 .. n : h[k] = b[k]
    OBVIOUS
  <1>2. /\ t \in Seq(Unit) /\ Len(t) = Len(b) - n
        /\ \A k \in 1 .. Len(b) - n : t[k] = b[n + k]
    OBVIOUS
  <1> HIDE DEF h, t
  <1>3. Sited(t)
    <2> SUFFICES ASSUME NEW k \in 1 .. Len(b) - n PROVE t[k][1] = "site"
      BY <1>2 DEF Sited
    <2>1. n + k \in 1 .. Len(b) /\ t[k] = b[n + k]
      BY <1>2
    <2> QED
      BY <2>1 DEF Sited
  <1>4. q \o h \in Seq(Unit) /\ Len(q \o h) = Len(q) + n
    BY <1>1, Joined
  <1>5. Sited(q \o h)
    <2> SUFFICES ASSUME NEW k \in 1 .. Len(q) + n PROVE (q \o h)[k][1] = "site"
      BY <1>4 DEF Sited
    <2>1. CASE k <= Len(q)
      <3>1. k \in 1 .. Len(q) /\ (q \o h)[k] = q[k]
        BY <1>1, <2>1, Joined
      <3> QED
        BY <3>1 DEF Sited
    <2>2. CASE ~(k <= Len(q))
      <3> DEFINE j == k - Len(q)
      <3>1. j \in 1 .. n /\ k = Len(q) + j
        BY <2>2
      <3>2. (q \o h)[Len(q) + j] = h[j]
        BY <1>1, <3>1, Joined
      <3>3. h[j] = b[j] /\ j \in 1 .. Len(b)
        BY <1>1, <3>1
      <3> QED
        BY <3>1, <3>2, <3>3 DEF Sited
    <2> QED
      BY <2>1, <2>2
  <1> QED
    BY <1>2, <1>3, <1>4, <1>5 DEF h, t

\* Two whole sequences make one if the second may follow the first.
LEMMA JoinedWhole ==
    ASSUME NEW q \in Seq(Unit), NEW b \in Seq(Unit), Whole(q), Whole(b),
           q # <<>> /\ b # <<>> => Follows(q[Len(q)], b[1])
    PROVE  Whole(q \o b)
  <1> DEFINE r == q \o b
  <1>1. /\ r \in Seq(Unit) /\ Len(r) = Len(q) + Len(b)
        /\ \A i \in 1 .. Len(q) : r[i] = q[i]
        /\ \A i \in 1 .. Len(b) : r[Len(q) + i] = b[i]
    BY Joined
  <1> HIDE DEF r
  <1> SUFFICES ASSUME NEW i \in 1 .. Len(r) - 1 PROVE Follows(r[i], r[i + 1])
    BY DEF Whole, r
  <1>0. i \in Nat /\ Len(q) \in Nat /\ Len(b) \in Nat
    OBVIOUS
  <1>2. CASE i < Len(q)
    <2>1. i \in 1 .. Len(q) - 1 /\ i \in 1 .. Len(q) /\ i + 1 \in 1 .. Len(q)
      BY <1>0, <1>2
    <2>2. r[i] = q[i] /\ r[i + 1] = q[i + 1]
      BY <1>1, <2>1
    <2> QED
      BY <2>1, <2>2 DEF Whole
  <1>3. CASE i = Len(q)
    <2>1. i \in 1 .. Len(q) /\ 1 \in 1 .. Len(b)
      BY <1>0, <1>1, <1>3
    <2>2. r[i] = q[Len(q)] /\ r[i + 1] = b[1]
      BY <1>1, <1>3, <2>1
    <2>3. q # <<>> /\ b # <<>>
      BY <2>1
    <2> QED
      BY <2>2, <2>3
  <1>4. CASE i > Len(q)
    <2> DEFINE j == i - Len(q)
    <2>1. /\ j \in 1 .. Len(b) - 1 /\ j \in 1 .. Len(b) /\ j + 1 \in 1 .. Len(b)
          /\ i = Len(q) + j /\ i + 1 = Len(q) + (j + 1)
      BY <1>0, <1>1, <1>4
    <2> HIDE DEF j
    <2>2. r[i] = b[j] /\ r[i + 1] = b[j + 1]
      BY <1>1, <2>1
    <2> QED
      BY <2>1, <2>2 DEF Whole
  <1> QED
    BY <1>0, <1>2, <1>3, <1>4

-----------------------------------------------------------------------------
(* What the client gets *)

LEMMA ShownSame ==
    ASSUME ShownInv, UNCHANGED <<got, outq, cut>>,
           \A w \in Writers : /\ Amid(w)' <=> Amid(w)
                              /\ Amid(w) => text'[w] = text[w] /\ total'[w] = total[w]
    PROVE  ShownInv'
  <1>1. Shown' = Shown
    BY DEF Shown
  <1> SUFFICES ASSUME ~cut
               PROVE  /\ Whole(Shown)
                      /\ \A w \in Writers :
                            Amid(w)' => Shown # <<>> /\ Last(Shown) = text'[w][total'[w]]
                      /\ (\A w \in Writers : ~Amid(w)') => Settled(Shown)
    BY <1>1 DEF ShownInv
  <1> QED
    BY DEF ShownInv

LEMMA ShownCut ==
    ASSUME cut' = TRUE PROVE ShownInv'
  BY DEF ShownInv

\* Whoever is in the middle of its text holds rwlock.
LEMMA AmidOne ==
    ASSUME LockInv, NEW w \in Writers, rwlock = w
    PROVE  \A v \in Writers : v # w => ~Amid(v)
  BY DEF LockInv, Amid

LEMMA NoticeFacts ==
    /\ NoticeText \in Seq(Unit) /\ Len(NoticeText) = Notice
    /\ \A i \in 1 .. Notice : NoticeText[i] = <<"data", i>>
  <1>1. \A i \in 1 .. Notice : <<"data", i>> \in Unit
    BY ConstFacts DEF Unit
  <1> QED
    BY <1>1, ConstFacts DEF NoticeText

\* A text is of one kind.
LEMMA OneKind ==
    ASSUME TypeOK, TextInv, NEW w \in Writers, NEW i \in 1 .. Len(text[w]),
           NEW j \in 1 .. Len(text[w])
    PROVE  text[w][i][1] = text[w][j][1]
  <1>1. CASE w = "control"
    BY <1>1 DEF TextInv, Sited
  <1>2. CASE w = "data"
    <2>1. i \in 1 .. Notice /\ j \in 1 .. Notice
      BY <1>2, NoticeFacts DEF TextInv
    <2>2. NoticeText[i] = <<"data", i>> /\ NoticeText[j] = <<"data", j>>
      BY <2>1, NoticeFacts
    <2> QED
      BY <1>2, <2>2 DEF TextInv
  <1> QED
    BY <1>1, <1>2, ConstFacts

-----------------------------------------------------------------------------
(* control_read *)

LEMMA BeginReadInv ==
    ASSUME IInv, BeginRead PROVE IInv'
  <1>1. /\ At("control", "loop", "read") /\ rwlock = Free /\ rwlock' = "control"
        /\ tmp' = <<>>
        /\ UNCHANGED <<conns, site, client, writing, history>>
    BY DEF BeginRead
  <1>2. /\ pc["control"] = "loop" /\ pc'["control"] = "read"
        /\ \A v \in Writers : v # "control" => pc'[v] = pc[v]
        /\ pc' \in [Writers -> {"loop", "read", "write", "send", "gone"}]
    BY <1>1, Goes, ConstFacts DEF IInv
  <1>3. LockInv' /\ rwlock' \in Writers \cup {Free}
    BY <1>1, LockStep, ConstFacts DEF IInv
  <1>4. TypeOK'
    BY <1>1, <1>2, <1>3 DEF IInv, TypeOK, conns, site, client, writing, history
  <1>5. TextInv'
    BY <1>1, <1>2, ConstFacts
      DEF IInv, TextInv, Sited, conns, site, client, writing, history
  <1>6. \A w \in Writers : Amid(w)' <=> Amid(w)
    BY <1>1, <1>2, ConstFacts DEF Amid, writing
  <1>7. ShownInv'
    BY <1>1, <1>6, ShownSame DEF IInv, client, history, writing
  <1> QED
    BY <1>3, <1>4, <1>5, <1>7 DEF IInv

\* control_read returns s, a line or cut short.
LEMMA ReturnStep ==
    ASSUME IInv, NEW s \in Seq(Unit), Sited(s), Return(s),
           UNCHANGED <<got, outq>>,
           \/ cut' = TRUE
           \/ cut' = cut /\ s # <<>> /\ EndsLine(Last(s))
    PROVE  /\ LockInv' /\ rwlock' \in Writers \cup {Free}
           /\ pc' \in [Writers -> {"loop", "read", "write", "send", "gone"}]
           /\ text' \in [Writers -> Seq(Unit)]
           /\ total' \in [Writers -> Nat] /\ \A w \in Writers : total'[w] <= Len(text'[w])
           /\ Sited(inq)' /\ Sited(tmp)' => TextInv'
           /\ ShownInv'
  <1>1. /\ At("control", "read", "write") /\ Unlock
        /\ text' = [text EXCEPT !["control"] = s]
        /\ total' = [total EXCEPT !["control"] = 0]
    BY DEF Return
  <1>2. /\ pc["control"] = "read" /\ pc'["control"] = "write"
        /\ \A v \in Writers : v # "control" => pc'[v] = pc[v]
        /\ pc' \in [Writers -> {"loop", "read", "write", "send", "gone"}]
    BY <1>1, Goes, ConstFacts DEF IInv
  <1>3. LockInv' /\ rwlock' \in Writers \cup {Free}
    BY <1>1, LockStep, ConstFacts DEF IInv
  <1>4. /\ text' \in [Writers -> Seq(Unit)] /\ text'["control"] = s
        /\ \A w \in Writers : w # "control" => text'[w] = text[w]
    BY <1>1, ConstFacts DEF IInv, TypeOK
  <1>5. /\ total' \in [Writers -> Nat] /\ total'["control"] = 0
        /\ \A w \in Writers : w # "control" => total'[w] = total[w]
    BY <1>1, ConstFacts DEF IInv, TypeOK
  <1>6. \A w \in Writers : total'[w] <= Len(text'[w])
    <2> TAKE w \in Writers
    <2>1. CASE w = "control"
      BY <1>4, <1>5, <2>1
    <2>2. CASE w # "control"
      BY <1>4, <1>5, <2>2 DEF IInv, TypeOK
    <2> QED
      BY <2>1, <2>2
  <1>7. Sited(inq)' /\ Sited(tmp)' => TextInv'
    <2>1. ~cut' => s # <<>> /\ EndsLine(Last(s))
      OBVIOUS
    <2>2. Sited(text["control"])' /\ text'["data"] = NoticeText
      BY <1>4, ConstFacts DEF IInv, TextInv, Sited
    <2>3. \A w \in Writers : pc'[w] = "write" => total'[w] = 0
      BY <1>2, <1>5 DEF IInv, TextInv
    <2>4. pc'["control"] \in {"write", "send"} /\ ~cut' =>
              text'["control"] # <<>> /\ EndsLine(Last(text'["control"]))
      BY <1>4, <2>1
    <2> QED
      BY <2>2, <2>3, <2>4 DEF TextInv
  <1>8. \A w \in Writers : Amid(w)' <=> Amid(w)
    BY <1>2, <1>5, ConstFacts DEF Amid
  <1>9. \A w \in Writers : Amid(w) => text'[w] = text[w] /\ total'[w] = total[w]
    BY <1>2, <1>4, <1>5, ConstFacts DEF Amid
  <1>10. ShownInv'
    BY <1>8, <1>9, ShownSame, ShownCut DEF IInv
  <1> QED
    BY <1>2, <1>3, <1>4, <1>5, <1>6, <1>7, <1>10

LEMMA ReceiveInv ==
    ASSUME IInv, Receive PROVE IInv'
  <1>1. /\ pc["control"] = "read" /\ inq # <<>>
        /\ UNCHANGED <<conns, sent, eof, client, history>>
    BY DEF Receive
  <1>2. PICK r \in Found :
          LET n == IF r < BufferSize THEN r ELSE BufferSize
              s == tmp \o SubSeq(inq, 1, n)
          IN  /\ inq' = SubSeq(inq, n + 1, Len(inq))
              /\ pending' = IF tlsSite THEN r - n ELSE 0
              /\ IF Complete(n, s)
                 THEN Return(s) /\ tmp' = <<>>
                 ELSE tmp' = s /\ UNCHANGED <<pc, rwlock, writing>>
    BY DEF Receive
  <1> DEFINE n == IF r < BufferSize THEN r ELSE BufferSize
             s == tmp \o SubSeq(inq, 1, n)
  <1>3. r \in 1 .. Len(inq)
    BY DEF Found, IInv, TypeOK
  <1>4. n \in 1 .. Len(inq) /\ n <= r
    BY <1>3, ConstFacts
  <1>5. /\ inq' = SubSeq(inq, n + 1, Len(inq))
        /\ pending' = IF tlsSite THEN r - n ELSE 0
        /\ \/ Complete(n, s) /\ Return(s) /\ tmp' = <<>>
           \/ tmp' = s /\ UNCHANGED <<pc, rwlock, writing>>
    BY <1>2
  <1> HIDE DEF n
  <1>6. /\ Sited(s) /\ Sited(inq)'
        /\ s \in Seq(Unit) /\ inq' \in Seq(Unit)
        /\ Len(inq') = Len(inq) - n /\ Len(s) = Len(tmp) + n
    <2>1. tmp \in Seq(Unit) /\ inq \in Seq(Unit) /\ Sited(tmp) /\ Sited(inq)
      BY DEF IInv, TypeOK, TextInv
    <2>2. n \in Nat /\ n <= Len(inq)
      BY <1>4, <2>1
    <2>3. /\ Sited(s) /\ Sited(SubSeq(inq, n + 1, Len(inq)))
          /\ s \in Seq(Unit) /\ SubSeq(inq, n + 1, Len(inq)) \in Seq(Unit)
          /\ Len(SubSeq(inq, n + 1, Len(inq))) = Len(inq) - n /\ Len(s) = Len(tmp) + n
      BY <2>1, <2>2, SitedPieces
    <2> HIDE DEF s
    <2>4. Sited(inq)' <=> Sited(SubSeq(inq, n + 1, Len(inq)))
      BY <1>5 DEF Sited
    <2> QED
      BY <1>5, <2>3, <2>4
  <1> HIDE DEF s
  <1>7. pending' \in 0 .. Len(inq')
    BY <1>3, <1>4, <1>5, <1>6
  <1>8. CASE Complete(n, s) /\ Return(s) /\ tmp' = <<>>
    <2>1. s # <<>> /\ EndsLine(Last(s))
      BY <1>4, <1>6, <1>8 DEF Complete, IInv, TypeOK
    <2>2. Sited(tmp)' /\ tmp' \in Seq(Unit)
      BY <1>8 DEF Sited
    <2>3. UNCHANGED <<got, outq, cut>>
      BY <1>1 DEF client, history
    <2>4. /\ LockInv' /\ rwlock' \in Writers \cup {Free}
          /\ pc' \in [Writers -> {"loop", "read", "write", "send", "gone"}]
          /\ text' \in [Writers -> Seq(Unit)]
          /\ total' \in [Writers -> Nat] /\ \A w \in Writers : total'[w] <= Len(text'[w])
          /\ TextInv' /\ ShownInv'
      BY <1>6, <1>8, <2>1, <2>2, <2>3, ReturnStep
    <2>5. TypeOK'
      BY <1>1, <1>6, <1>7, <1>8, <2>2, <2>4
        DEF IInv, TypeOK, Return, conns, client, history
    <2> QED
      BY <2>4, <2>5 DEF IInv
  <1>9. CASE tmp' = s /\ UNCHANGED <<pc, rwlock, writing>>
    <2>1. TypeOK'
      BY <1>1, <1>6, <1>7, <1>9 DEF IInv, TypeOK, conns, client, history, writing
    <2>2. LockInv'
      BY <1>9, LockSame DEF IInv
    <2>3. Sited(tmp)'
      BY <1>6, <1>9 DEF Sited
    <2>4. TextInv'
      BY <1>1, <1>6, <1>9, <2>3 DEF IInv, TextInv, Sited, writing, history
    <2>5. ShownInv'
      BY <1>1, <1>9, ShownSame DEF IInv, Amid, client, history, writing
    <2> QED
      BY <2>1, <2>2, <2>4, <2>5 DEF IInv
  <1> QED
    BY <1>5, <1>8, <1>9

LEMMA InterruptReadInv ==
    ASSUME IInv, InterruptRead PROVE IInv'
  <1>1. /\ signals < MaxSignals /\ signals' = signals + 1
        /\ Return(tmp) /\ tmp' = <<>> /\ cut' = TRUE
        /\ UNCHANGED <<conns, site, client, discarded>>
    BY DEF InterruptRead
  <1>2. tmp \in Seq(Unit) /\ Sited(tmp)
    BY DEF IInv, TypeOK, TextInv
  <1>3. Sited(inq)' /\ Sited(tmp)' /\ UNCHANGED <<got, outq>>
    BY <1>1 DEF IInv, TextInv, Sited, site, client
  <1>4. /\ LockInv' /\ rwlock' \in Writers \cup {Free}
        /\ pc' \in [Writers -> {"loop", "read", "write", "send", "gone"}]
        /\ text' \in [Writers -> Seq(Unit)]
        /\ total' \in [Writers -> Nat] /\ \A w \in Writers : total'[w] <= Len(text'[w])
        /\ TextInv' /\ ShownInv'
    BY <1>1, <1>2, <1>3, ReturnStep
  <1>5. signals' \in 0 .. MaxSignals
    <2>1. signals \in 0 .. MaxSignals
      BY DEF IInv, TypeOK
    <2> QED
      BY <1>1, <2>1, ConstFacts
  <1>6. TypeOK'
    <2>1. tmp' \in Seq(Unit) /\ count' = count /\ cut' \in BOOLEAN
      BY <1>1 DEF Return
    <2> QED
      BY <1>1, <1>4, <1>5, <2>1 DEF IInv, TypeOK, conns, site, client
  <1> QED
    BY <1>4, <1>6 DEF IInv

\* control_read gives up: the place changes, and nothing of what is written.
LEMMA ReadOver ==
    ASSUME IInv, NEW to \in {"loop", "gone"}, At("control", "read", to), Unlock,
           tmp' = <<>>, UNCHANGED <<conns, site, client, writing, signals, cut>>,
           discarded' \in BOOLEAN
    PROVE  IInv'
  <1>1. /\ pc["control"] = "read" /\ pc'["control"] = to
        /\ \A v \in Writers : v # "control" => pc'[v] = pc[v]
        /\ pc' \in [Writers -> {"loop", "read", "write", "send", "gone"}]
    BY Goes, ConstFacts DEF IInv
  <1>2. LockInv' /\ rwlock' \in Writers \cup {Free}
    BY LockStep, ConstFacts DEF IInv
  <1>3. TypeOK'
    <2>1. tmp' \in Seq(Unit)
      OBVIOUS
    <2> QED
      BY <1>1, <1>2, <2>1 DEF IInv, TypeOK, conns, site, client, writing
  <1>4. TextInv'
    BY <1>1, ConstFacts DEF IInv, TextInv, Sited, site, writing
  <1>5. \A w \in Writers : Amid(w)' <=> Amid(w)
    BY <1>1, ConstFacts DEF Amid, writing
  <1>6. ShownInv'
    BY <1>5, ShownSame DEF IInv, client, writing
  <1> QED
    BY <1>2, <1>3, <1>4, <1>6 DEF IInv

LEMMA WantReadInv ==
    ASSUME IInv, WantRead PROVE IInv'
  <1>1. /\ At("control", "read", "loop") /\ Unlock /\ tmp' = <<>>
        /\ discarded' \in BOOLEAN
        /\ UNCHANGED <<conns, site, client, writing, signals, cut>>
    BY DEF WantRead, IInv, TypeOK
  <1> QED
    BY <1>1, ReadOver

LEMMA FailReadInv ==
    ASSUME IInv, FailRead PROVE IInv'
  <1>1. /\ At("control", "read", "gone") /\ Unlock /\ tmp' = <<>>
        /\ UNCHANGED <<conns, site, client, writing, history>>
    BY DEF FailRead, FailUnlock
  <1>2. discarded' \in BOOLEAN /\ UNCHANGED <<signals, cut>>
    BY <1>1 DEF IInv, TypeOK, history
  <1> QED
    BY <1>1, <1>2, ReadOver

-----------------------------------------------------------------------------
(* control_write *)

LEMMA BeginWriteInv ==
    ASSUME IInv, NEW w \in Writers, BeginWrite(w) PROVE IInv'
  <1>1. /\ At(w, "write", "send") /\ rwlock = Free /\ rwlock' = w
        /\ count' = [count EXCEPT ![w] = 0]
        /\ UNCHANGED <<conns, site, client, tmp, text, total, history>>
    BY DEF BeginWrite, MayWrite
  <1>2. /\ pc[w] = "write" /\ pc'[w] = "send"
        /\ \A v \in Writers : v # w => pc'[v] = pc[v]
        /\ pc' \in [Writers -> {"loop", "read", "write", "send", "gone"}]
    BY <1>1, Goes DEF IInv
  <1>3. LockInv' /\ rwlock' \in Writers \cup {Free}
    BY <1>1, LockStep DEF IInv
  <1>4. count' \in [Writers -> 0 .. RetryCount]
    BY <1>1, ConstFacts DEF IInv, TypeOK
  <1>5. TypeOK'
    BY <1>1, <1>2, <1>3, <1>4 DEF IInv, TypeOK, conns, site, client, history
  <1>6. TextInv'
    <2>1. \A v \in Writers : pc'[v] = "write" => pc[v] = "write"
      BY <1>2
    <2>2. pc'["control"] \in {"write", "send"} => pc["control"] \in {"write", "send"}
      BY <1>2, ConstFacts
    <2> QED
      BY <1>1, <2>1, <2>2 DEF IInv, TextInv, Sited, site, history
  <1>7. total[w] = 0
    BY <1>2 DEF IInv, TextInv
  <1>8. \A v \in Writers : Amid(v)' <=> Amid(v)
    BY <1>1, <1>2, <1>7 DEF Amid
  <1>9. ShownInv'
    BY <1>1, <1>8, ShownSame DEF IInv, client, history
  <1> QED
    BY <1>3, <1>5, <1>6, <1>9 DEF IInv

\* Send takes units of the rest of the text, at least one.
LEMMA SendStep ==
    ASSUME IInv, NEW w \in Writers, NEW n \in 1 .. Block(w)
    PROVE  /\ n \in Nat /\ n > 0 /\ n <= Left(w) /\ total[w] \in Nat
           /\ total[w] + n <= Len(text[w]) /\ text[w] \in Seq(Unit)
           /\ SubSeq(text[w], total[w] + 1, total[w] + n) \in Seq(Unit)
           /\ Len(SubSeq(text[w], total[w] + 1, total[w] + n)) = n
           /\ \A k \in 1 .. n : /\ total[w] + k \in 1 .. Len(text[w])
                                /\ SubSeq(text[w], total[w] + 1, total[w] + n)[k]
                                      = text[w][total[w] + k]
  <1>1. total[w] \in Nat /\ text[w] \in Seq(Unit) /\ total[w] <= Len(text[w])
    BY DEF IInv, TypeOK
  <1>2. n \in Nat /\ n > 0 /\ n <= Left(w) /\ total[w] + n <= Len(text[w])
    BY <1>1, ConstFacts DEF Block, Left
  <1>3. total[w] + n \in Nat /\ \A k \in 1 .. n : total[w] + k \in 1 .. Len(text[w])
    BY <1>1, <1>2
  <1>4. /\ SubSeq(text[w], total[w] + 1, total[w] + n) \in Seq(Unit)
        /\ Len(SubSeq(text[w], total[w] + 1, total[w] + n)) = n
        /\ \A k \in 1 .. n : SubSeq(text[w], total[w] + 1, total[w] + n)[k]
                                = text[w][total[w] + k]
    BY <1>1, <1>2, Piece
  <1> QED
    BY <1>1, <1>2, <1>3, <1>4

LEMMA SendInv ==
    ASSUME IInv, NEW w \in Writers, Send(w) PROVE IInv'
  <1>1. PICK n \in 1 .. Block(w) :
          /\ outq' = outq \o SubSeq(text[w], total[w] + 1, total[w] + n)
          /\ total' = [total EXCEPT ![w] = total[w] + n]
    BY DEF Send, Advanced
  <1> DEFINE b == SubSeq(text[w], total[w] + 1, total[w] + n)
  <1>2. /\ pc[w] = "send"
        /\ UNCHANGED <<conns, site, got, up, rwlock, pc, tmp, text, count, history>>
    BY DEF Send
  <1>3. /\ n \in Nat /\ n > 0 /\ total[w] \in Nat
        /\ total[w] + n <= Len(text[w]) /\ text[w] \in Seq(Unit)
        /\ b \in Seq(Unit) /\ Len(b) = n
        /\ \A k \in 1 .. n : total[w] + k \in 1 .. Len(text[w]) /\ b[k] = text[w][total[w] + k]
    BY SendStep
  <1>4. outq' = outq \o b
    BY <1>1
  <1> HIDE DEF b
  <1>5. /\ total' \in [Writers -> Nat] /\ total'[w] = total[w] + n
        /\ \A v \in Writers : v # w => total'[v] = total[v]
    <2>1. total \in [Writers -> Nat] /\ total[w] + n \in Nat
      BY <1>3 DEF IInv, TypeOK
    <2> QED
      BY <1>1, <2>1
  <1>6. \A v \in Writers : total'[v] <= Len(text[v])
    <2> TAKE v \in Writers
    <2>1. CASE v = w
      BY <1>3, <1>5, <2>1
    <2>2. CASE v # w
      BY <1>5, <2>2 DEF IInv, TypeOK
    <2> QED
      BY <2>1, <2>2
  <1>7. outq \in Seq(Unit) /\ got \in Seq(Unit) /\ Shown \in Seq(Unit)
    BY Joined DEF IInv, TypeOK, Shown
  <1>8. outq' \in Seq(Unit)
    BY <1>3, <1>4, <1>7, Joined
  <1>9. TypeOK'
    BY <1>2, <1>5, <1>6, <1>8 DEF IInv, TypeOK, conns, site, history
  <1>10. LockInv'
    BY <1>2, LockSame DEF IInv
  <1>11. \A v \in Writers : pc'[v] = "write" => total'[v] = 0
    BY <1>2, <1>5 DEF IInv, TextInv
  <1>12. TextInv'
    BY <1>2, <1>11 DEF IInv, TextInv, Sited, site, history
  <1>13. ShownInv'
    <2> SUFFICES ASSUME ~cut
                 PROVE  /\ Whole(Shown')
                        /\ \A v \in Writers :
                              Amid(v)' => Shown' # <<>> /\ Last(Shown') = text[v][total'[v]]
                        /\ ~ \A v \in Writers : ~Amid(v)'
      BY <1>2 DEF ShownInv, history
    <2>1. rwlock = w /\ \A v \in Writers : v # w => ~Amid(v)
      BY <1>2, AmidOne DEF IInv, LockInv
    <2>2. \A v \in Writers : v # w => ~Amid(v)'
      BY <1>2, <1>5, <2>1 DEF Amid
    <2>3. Amid(w)'
      BY <1>2, <1>3, <1>5 DEF Amid
    <2>4. Shown' = Shown \o b
      <3>1. Shown' = got \o (outq \o b)
        BY <1>2, <1>4 DEF Shown
      <3>2. (got \o outq) \o b = got \o (outq \o b)
        <4>1. got \in Seq(Unit) /\ outq \in Seq(Unit) /\ b \in Seq(Unit)
          BY <1>3, <1>7
        <4> QED
          BY <4>1, JoinedTwice
      <3> QED
        BY <3>1, <3>2 DEF Shown
    <2>5. Whole(b)
      <3> SUFFICES ASSUME NEW k \in 1 .. n - 1 PROVE b[k][1] = b[k + 1][1]
        BY <1>3 DEF Whole, Follows
      <3>1. k \in 1 .. n /\ k + 1 \in 1 .. n
        BY <1>3
      <3>2. /\ total[w] + k \in 1 .. Len(text[w]) /\ b[k] = text[w][total[w] + k]
            /\ total[w] + (k + 1) \in 1 .. Len(text[w])
            /\ b[k + 1] = text[w][total[w] + (k + 1)]
        BY <1>3, <3>1
      <3> QED
        BY <3>2, OneKind DEF IInv
    <2>6. ASSUME Shown # <<>> PROVE Follows(Shown[Len(Shown)], b[1])
      <3>1. CASE total[w] = 0
        <4>1. \A v \in Writers : ~Amid(v)
          BY <2>1, <3>1 DEF Amid
        <4> QED
          BY <2>6, <4>1 DEF IInv, ShownInv, Settled, Follows
      <3>2. CASE total[w] > 0
        <4>1. Shown[Len(Shown)] = text[w][total[w]]
          BY <1>2, <3>2 DEF IInv, ShownInv, Amid, Last
        <4>2. total[w] \in 1 .. Len(text[w])
          BY <1>3, <3>2
        <4>3. total[w] + 1 \in 1 .. Len(text[w]) /\ b[1] = text[w][total[w] + 1]
          BY <1>3
        <4> QED
          BY <4>1, <4>2, <4>3, OneKind DEF IInv, Follows
      <3> QED
        BY <1>3, <3>1, <3>2
    <2>7. Whole(Shown')
      BY <1>3, <1>7, <2>4, <2>5, <2>6, JoinedWhole DEF IInv, ShownInv
    <2>8. Shown' # <<>> /\ Last(Shown') = text[w][total'[w]]
      <3>1. /\ Len(Shown') = Len(Shown) + n
            /\ Shown'[Len(Shown) + n] = b[n] /\ b[n] = text[w][total[w] + n]
        <4>1. n \in 1 .. Len(b) /\ Shown \in Seq(Unit) /\ b \in Seq(Unit) /\ n \in 1 .. n
          BY <1>3, <1>7
        <4>2. Len(Shown \o b) = Len(Shown) + Len(b) /\ (Shown \o b)[Len(Shown) + n] = b[n]
          BY <4>1, Joined
        <4>3. b[n] = text[w][total[w] + n]
          BY <1>3, <4>1
        <4> QED
          BY <1>3, <2>4, <4>2, <4>3
      <3>2. Shown' # <<>>
        BY <1>3, <1>7, <3>1
      <3> QED
        BY <1>5, <3>1, <3>2 DEF Last
    <2> QED
      BY <2>2, <2>3, <2>7, <2>8
  <1> QED
    BY <1>9, <1>10, <1>12, <1>13 DEF IInv

LEMMA WantWriteInv ==
    ASSUME IInv, NEW w \in Writers, WantWrite(w) PROVE IInv'
  <1>1. /\ count[w] < RetryCount /\ count' = [count EXCEPT ![w] = count[w] + 1]
        /\ UNCHANGED <<conns, site, client, rwlock, pc, tmp, text, total, history>>
    BY DEF WantWrite, MayRetry
  <1>2. count' \in [Writers -> 0 .. RetryCount]
    <2>1. count[w] + 1 \in 0 .. RetryCount
      <3>1. count[w] \in 0 .. RetryCount
        BY DEF IInv, TypeOK
      <3> QED
        BY <1>1, <3>1, ConstFacts
    <2> QED
      BY <1>1, <2>1 DEF IInv, TypeOK
  <1>3. TypeOK'
    BY <1>1, <1>2 DEF IInv, TypeOK, conns, site, client, history
  <1>4. LockInv'
    BY <1>1, LockSame DEF IInv
  <1>5. TextInv'
    BY <1>1 DEF IInv, TextInv, Sited, site, history
  <1>6. ShownInv'
    BY <1>1, ShownSame DEF IInv, Amid, client, history
  <1> QED
    BY <1>3, <1>4, <1>5, <1>6 DEF IInv

\* The thread is at the end of its text, or has not sent any and has none.
LEMMA EndWriteInv ==
    ASSUME IInv, NEW w \in Writers, EndWrite(w) PROVE IInv'
  <1> DEFINE to == IF w = "control" THEN "loop" ELSE "gone"
  <1>1. /\ Left(w) = 0 /\ At(w, "send", to) /\ Unlock
        /\ UNCHANGED <<conns, site, client, tmp, writing, history>>
    BY DEF EndWrite
  <1>2. to \in {"loop", "gone"} /\ (w = "data" => to = "gone")
    OBVIOUS
  <1> HIDE DEF to
  <1>3. /\ pc[w] = "send" /\ pc'[w] = to
        /\ \A v \in Writers : v # w => pc'[v] = pc[v]
        /\ pc' \in [Writers -> {"loop", "read", "write", "send", "gone"}]
    BY <1>1, <1>2, Goes DEF IInv
  <1>4. LockInv' /\ rwlock' \in Writers \cup {Free}
    BY <1>1, <1>2, LockStep DEF IInv
  <1>5. TypeOK'
    BY <1>1, <1>3, <1>4 DEF IInv, TypeOK, conns, site, client, writing, history
  <1>6. TextInv'
    <2>1. \A v \in Writers : pc'[v] = "write" => pc[v] = "write"
      BY <1>2, <1>3
    <2>2. pc'["control"] \in {"write", "send"} => pc["control"] \in {"write", "send"}
      BY <1>2, <1>3, ConstFacts
    <2> QED
      BY <1>1, <2>1, <2>2 DEF IInv, TextInv, Sited, site, writing, history
  <1>7. ShownInv'
    <2> SUFFICES ASSUME ~cut
                 PROVE  /\ Whole(Shown)
                        /\ \A v \in Writers : ~Amid(v)'
                        /\ Settled(Shown)
      BY <1>1 DEF ShownInv, Shown, client, history
    <2>1. \A v \in Writers : v # w => ~Amid(v)
      BY <1>3, AmidOne DEF IInv, LockInv
    <2>2. \A v \in Writers : ~Amid(v)'
      BY <1>1, <1>2, <1>3, <2>1 DEF Amid, writing
    <2>3. total[w] \in Nat /\ text[w] \in Seq(Unit) /\ total[w] = Len(text[w])
      BY <1>1 DEF IInv, TypeOK, Left
    <2>4. total[w] > 0
      <3>1. CASE w = "control"
        BY <1>3, <2>3, <3>1 DEF IInv, TextInv
      <3>2. CASE w = "data"
        BY <2>3, <3>2, NoticeFacts, ConstFacts DEF IInv, TextInv
      <3> QED
        BY <3>1, <3>2, ConstFacts
    <2>5. Shown # <<>> /\ Shown[Len(Shown)] = text[w][Len(text[w])]
      BY <1>3, <2>3, <2>4 DEF IInv, ShownInv, Amid, Last
    <2>6. ASSUME w = "control" PROVE Settled(Shown)
      <3>1. /\ EndsLine(text[w][Len(text[w])])
            /\ text[w][Len(text[w])][1] = "site"
        BY <1>3, <2>3, <2>4, <2>6 DEF IInv, TextInv, Sited, Last
      <3> QED
        BY <2>5, <3>1 DEF Settled
    <2>7. ASSUME w = "data" PROVE Settled(Shown)
      <3>1. text[w][Len(text[w])] = <<"data", Notice>>
        BY <2>7, NoticeFacts, ConstFacts DEF IInv, TextInv
      <3> QED
        BY <2>5, <3>1 DEF Settled
    <2>8. Whole(Shown)
      BY DEF IInv, ShownInv
    <2> QED
      BY <2>2, <2>6, <2>7, <2>8, ConstFacts
  <1> QED
    BY <1>4, <1>5, <1>6, <1>7 DEF IInv

LEMMA FailWriteInv ==
    ASSUME IInv, NEW w \in Writers, FailWrite(w) PROVE IInv'
  <1>1. /\ At(w, "send", "gone") /\ Unlock /\ cut' = TRUE
        /\ signals' = signals \/ (signals < MaxSignals /\ signals' = signals + 1)
        /\ UNCHANGED <<conns, site, client, tmp, writing, discarded>>
    BY DEF FailWrite
  <1>2. /\ pc[w] = "send" /\ pc'[w] = "gone"
        /\ \A v \in Writers : v # w => pc'[v] = pc[v]
        /\ pc' \in [Writers -> {"loop", "read", "write", "send", "gone"}]
    BY <1>1, Goes DEF IInv
  <1>3. LockInv' /\ rwlock' \in Writers \cup {Free}
    BY <1>1, LockStep DEF IInv
  <1>4. signals' \in 0 .. MaxSignals
    <2>1. signals \in 0 .. MaxSignals
      BY DEF IInv, TypeOK
    <2> QED
      BY <1>1, <2>1, ConstFacts
  <1>5. TypeOK'
    BY <1>1, <1>2, <1>3, <1>4 DEF IInv, TypeOK, conns, site, client, writing
  <1>6. TextInv'
    BY <1>1, <1>2 DEF IInv, TextInv, Sited, site, writing
  <1> QED
    BY <1>1, <1>3, <1>5, <1>6, ShownCut DEF IInv

-----------------------------------------------------------------------------
(* The peers *)

LEMMA SiteSendsInv ==
    ASSUME IInv, SiteSends PROVE IInv'
  <1>1. /\ sent < MaxUnits /\ sent' = sent + 1 /\ inq' = Append(inq, <<"site", sent + 1>>)
        /\ UNCHANGED <<conns, pending, eof, client, rwlock, pc, tmp, writing, history>>
    BY DEF SiteSends
  <1>2. /\ sent + 1 \in 0 .. MaxUnits /\ <<"site", sent + 1>> \in Unit
        /\ inq \in Seq(Unit) /\ pending \in 0 .. Len(inq)
    <2>1. sent \in 0 .. MaxUnits /\ inq \in Seq(Unit) /\ pending \in 0 .. Len(inq)
      BY DEF IInv, TypeOK
    <2>2. sent + 1 \in Nat /\ sent + 1 \in 0 .. MaxUnits
      BY <1>1, <2>1, ConstFacts
    <2> QED
      BY <2>1, <2>2 DEF Unit
  <1>3. /\ inq' \in Seq(Unit) /\ Len(inq') = Len(inq) + 1
        /\ \A i \in 1 .. Len(inq) : inq'[i] = inq[i]
        /\ inq'[Len(inq) + 1] = <<"site", sent + 1>>
    BY <1>1, <1>2
  <1>4. pending' \in 0 .. Len(inq')
    BY <1>1, <1>2, <1>3
  <1>5. Sited(inq)'
    <2> SUFFICES ASSUME NEW i \in 1 .. Len(inq) + 1 PROVE inq'[i][1] = "site"
      BY <1>3 DEF Sited
    <2>1. CASE i \in 1 .. Len(inq)
      BY <1>3, <2>1 DEF IInv, TextInv, Sited
    <2>2. CASE i = Len(inq) + 1
      BY <1>3, <2>2
    <2> QED
      BY <1>2, <2>1, <2>2
  <1>6. TypeOK'
    BY <1>1, <1>2, <1>3, <1>4 DEF IInv, TypeOK, conns, client, writing, history
  <1>7. LockInv'
    BY <1>1, LockSame DEF IInv
  <1>8. Sited(tmp)' /\ Sited(text["control"])'
    BY <1>1 DEF IInv, TextInv, Sited, writing
  <1>9. TextInv'
    BY <1>1, <1>5, <1>8 DEF IInv, TextInv, writing, history
  <1>10. ShownInv'
    BY <1>1, ShownSame DEF IInv, Amid, client, writing, history
  <1> QED
    BY <1>6, <1>7, <1>9, <1>10 DEF IInv

\* Only eof, up or nothing changes.
LEMMA SameInv ==
    ASSUME IInv, eof' \in BOOLEAN, up' \in BOOLEAN,
           UNCHANGED <<conns, sent, inq, pending, outq, got, rwlock, pc, tmp, writing, history>>
    PROVE  IInv'
  <1>1. TypeOK'
    BY DEF IInv, TypeOK, conns, writing, history
  <1>2. LockInv'
    BY LockSame DEF IInv
  <1>3. TextInv'
    BY DEF IInv, TextInv, Sited, writing, history
  <1>4. ShownInv'
    BY ShownSame DEF IInv, Amid, writing, history
  <1> QED
    BY <1>1, <1>2, <1>3, <1>4 DEF IInv

LEMMA SiteClosesInv ==
    ASSUME IInv, SiteCloses PROVE IInv'
  <1>1. /\ eof' \in BOOLEAN /\ up' \in BOOLEAN
        /\ UNCHANGED <<conns, sent, inq, pending, outq, got, rwlock, pc, tmp, writing, history>>
    BY DEF SiteCloses, IInv, TypeOK, client
  <1> QED
    BY <1>1, SameInv

LEMMA ClientClosesInv ==
    ASSUME IInv, ClientCloses PROVE IInv'
  <1>1. /\ eof' \in BOOLEAN /\ up' \in BOOLEAN
        /\ UNCHANGED <<conns, sent, inq, pending, outq, got, rwlock, pc, tmp, writing, history>>
    BY DEF ClientCloses, IInv, TypeOK, site
  <1> QED
    BY <1>1, SameInv

\* What the client reads stays shown.
LEMMA ClientReadsShown ==
    ASSUME IInv, ClientReads PROVE Shown' = Shown
  <1>1. /\ outq # <<>> /\ got' = Append(got, Head(outq)) /\ outq' = Tail(outq)
    BY DEF ClientReads
  <1>2. got \in Seq(Unit) /\ outq \in Seq(Unit)
    BY DEF IInv, TypeOK
  <1> DEFINE u == Head(outq)
             t == Tail(outq)
  <1>3. u \in Unit /\ t \in Seq(Unit) /\ <<u>> \in Seq(Unit)
    BY <1>1, <1>2
  <1>4. outq = <<u>> \o t /\ Append(got, u) = got \o <<u>>
    BY <1>1, <1>2, <1>3
  <1> HIDE DEF u, t
  <1>5. (got \o <<u>>) \o t = got \o (<<u>> \o t)
    BY <1>2, <1>3, JoinedTwice
  <1> QED
    BY <1>1, <1>4, <1>5 DEF Shown, u, t

LEMMA ClientReadsInv ==
    ASSUME IInv, ClientReads PROVE IInv'
  <1>1. /\ outq # <<>> /\ got' = Append(got, Head(outq)) /\ outq' = Tail(outq)
        /\ UNCHANGED <<conns, site, up, rwlock, pc, tmp, writing, history>>
    BY DEF ClientReads
  <1>2. got \in Seq(Unit) /\ outq \in Seq(Unit)
    BY DEF IInv, TypeOK
  <1>3. got' \in Seq(Unit) /\ outq' \in Seq(Unit)
    BY <1>1, <1>2
  <1>4. Shown' = Shown
    BY ClientReadsShown
  <1>5. TypeOK'
    BY <1>1, <1>3 DEF IInv, TypeOK, conns, site, writing, history
  <1>6. LockInv'
    BY <1>1, LockSame DEF IInv
  <1>7. TextInv'
    BY <1>1 DEF IInv, TextInv, Sited, site, writing, history
  <1>8. \A w \in Writers : Amid(w)' <=> Amid(w)
    BY <1>1 DEF Amid, writing
  <1>9. ShownInv'
    BY <1>1, <1>4, <1>8 DEF IInv, ShownInv, writing, history
  <1> QED
    BY <1>5, <1>6, <1>7, <1>9 DEF IInv

-----------------------------------------------------------------------------
(* The theorems *)

LEMMA InitInv == Init => IInv
  <1> SUFFICES ASSUME Init PROVE IInv
    OBVIOUS
  <1>1. text["control"] = <<>> /\ text["data"] = NoticeText
        /\ text = [w \in Writers |-> IF w = "data" THEN NoticeText ELSE <<>>]
    BY ConstFacts DEF Init, NoticeText
  <1>2. text \in [Writers -> Seq(Unit)]
    BY <1>1, NoticeFacts
  <1>3. /\ pc = [w \in Writers |-> IF w = "control" THEN "loop" ELSE "write"]
        /\ total = [w \in Writers |-> 0] /\ count = [w \in Writers |-> 0]
        /\ inq = <<>> /\ tmp = <<>> /\ outq = <<>> /\ got = <<>>
        /\ rwlock = Free /\ cut = FALSE
    BY DEF Init
  <1>4. \A w \in Writers : total[w] = 0 /\ Len(text[w]) \in Nat
    BY <1>2, <1>3
  <1>5. TypeOK
    <2>1. /\ pc \in [Writers -> {"loop", "read", "write", "send", "gone"}]
          /\ total \in [Writers -> Nat] /\ count \in [Writers -> 0 .. RetryCount]
      BY <1>3, ConstFacts
    <2>2. \A w \in Writers : total[w] <= Len(text[w])
      BY <1>4
    <2>3. /\ tlsSite \in BOOLEAN /\ tlsClient \in BOOLEAN
          /\ eof \in BOOLEAN /\ up \in BOOLEAN /\ cut \in BOOLEAN /\ discarded \in BOOLEAN
      BY DEF Init
    <2>4. sent = 0 /\ signals = 0 /\ pending = 0 /\ Len(inq) = 0
      BY DEF Init
    <2>5. sent \in 0 .. MaxUnits /\ signals \in 0 .. MaxSignals /\ pending \in 0 .. Len(inq)
      BY <2>4, ConstFacts
    <2>6. inq \in Seq(Unit) /\ tmp \in Seq(Unit) /\ outq \in Seq(Unit) /\ got \in Seq(Unit)
      BY <1>3
    <2> QED
      BY <1>2, <1>3, <2>1, <2>2, <2>3, <2>5, <2>6 DEF TypeOK
  <1>6. LockInv
    BY <1>3, ConstFacts DEF LockInv
  <1>7. Sited(<<>>)
    BY DEF Sited
  <1>8. TextInv
    BY <1>1, <1>3, <1>4, <1>7, ConstFacts DEF TextInv
  <1>9. Shown = <<>>
    BY <1>3 DEF Shown
  <1>10. ShownInv
    BY <1>4, <1>9 DEF ShownInv, Whole, Settled, Amid
  <1> QED
    BY <1>5, <1>6, <1>8, <1>10 DEF IInv

LEMMA NextInv == IInv /\ [Next]_vars => IInv'
  <1> SUFFICES ASSUME IInv, [Next]_vars PROVE IInv'
    OBVIOUS
  <1>1. ASSUME Reading \/ WantRead \/ InterruptRead PROVE IInv'
    BY <1>1, BeginReadInv, ReceiveInv, FailReadInv, WantReadInv, InterruptReadInv
      DEF Reading
  <1>2. ASSUME NEW w \in Writers, Writing(w) \/ WantWrite(w) PROVE IInv'
    BY <1>2, BeginWriteInv, SendInv, EndWriteInv, FailWriteInv, WantWriteInv DEF Writing
  <1>3. ASSUME SiteSends \/ SiteCloses \/ ClientReads \/ ClientCloses PROVE IInv'
    BY <1>3, SiteSendsInv, SiteClosesInv, ClientReadsInv, ClientClosesInv
  <1>4. CASE UNCHANGED vars
    <2>1. eof' \in BOOLEAN /\ up' \in BOOLEAN
      BY <1>4 DEF IInv, TypeOK, vars, site, client
    <2> QED
      BY <1>4, <2>1, SameInv DEF vars, site, client
  <1> QED
    BY <1>1, <1>2, <1>3, <1>4 DEF Next

\* The types, the lock, the texts and what is shown.
THEOREM LinesInvariant == Spec => []IInv
  <1> QED
    BY InitInv, NextInv, PTL DEF Spec

\* The variables keep their types, and no line is broken by a line of the other
\* thread, whatever the sizes: control_write keeps rwlock over all the blocks of
\* a text, and every text is a line or the notice unless a read was cut.
THEOREM LinesAreWhole == Spec => []LinesWhole
  <1>1. IInv => LinesWhole
    BY DEF IInv, ShownInv, Whole, Follows, LinesWhole
  <1> QED
    BY <1>1, LinesInvariant, PTL

-----------------------------------------------------------------------------
(* Counting the units of the site *)

Counted(s, n) == Cardinality(SiteUnits(s, n))

LEMMA CountIs ==
    ASSUME NEW s, NEW n \in Nat
    PROVE  /\ IsFiniteSet(SiteUnits(s, n)) /\ Counted(s, n) \in Nat
           /\ Counted(s, 0) = 0
  <1>1. IsFiniteSet(1 .. n) /\ SiteUnits(s, n) \in SUBSET (1 .. n)
    BY FS_Interval DEF SiteUnits
  <1>2. IsFiniteSet(SiteUnits(s, n))
    BY <1>1, FS_Subset
  <1>3. SiteUnits(s, 0) = {}
    BY DEF SiteUnits
  <1> QED
    BY <1>2, <1>3, FS_CardinalityType, FS_EmptySet DEF Counted

LEMMA CountSame ==
    ASSUME NEW s, NEW t, NEW n \in Nat, \A i \in 1 .. n : s[i] = t[i]
    PROVE  SiteUnits(s, n) = SiteUnits(t, n) /\ Counted(s, n) = Counted(t, n)
  <1>1. SiteUnits(s, n) = SiteUnits(t, n)
    BY DEF SiteUnits
  <1> QED
    BY <1>1 DEF Counted

LEMMA CountNext ==
    ASSUME NEW s, NEW n \in Nat
    PROVE  Counted(s, n + 1) = IF s[n + 1][1] = "site" THEN Counted(s, n) + 1 ELSE Counted(s, n)
  <1>1. IsFiniteSet(SiteUnits(s, n)) /\ n + 1 \notin SiteUnits(s, n)
    BY CountIs DEF SiteUnits
  <1>2. CASE s[n + 1][1] = "site"
    <2>1. SiteUnits(s, n + 1) = SiteUnits(s, n) \cup {n + 1}
      BY <1>2 DEF SiteUnits
    <2> QED
      BY <1>1, <1>2, <2>1, FS_AddElement DEF Counted
  <1>3. CASE s[n + 1][1] # "site"
    <2>1. SiteUnits(s, n + 1) = SiteUnits(s, n)
      BY <1>3 DEF SiteUnits
    <2> QED
      BY <1>3, <2>1 DEF Counted
  <1> QED
    BY <1>2, <1>3

LEMMA CountGrows ==
    ASSUME NEW s, NEW m \in Nat, NEW n \in Nat, m <= n
    PROVE  Counted(s, m) <= Counted(s, n)
  <1>1. SiteUnits(s, m) \in SUBSET SiteUnits(s, n)
    BY DEF SiteUnits
  <1> QED
    BY <1>1, CountIs, FS_Subset DEF Counted

\* A piece that is all of the site counts, one of the notice does not.
LEMMA CountJoined ==
    ASSUME NEW q \in Seq(Unit), NEW b \in Seq(Unit), NEW k \in 0 .. Len(b)
    PROVE  /\ \A i \in 0 .. Len(q) : Counted(q \o b, i) = Counted(q, i)
           /\ Sited(b) => Counted(q \o b, Len(q) + k) = Counted(q, Len(q)) + k
           /\ (\A i \in 1 .. Len(b) : b[i][1] # "site") =>
                 Counted(q \o b, Len(q) + k) = Counted(q, Len(q))
  <1> DEFINE r == q \o b
             n == Len(q)
  <1>2. n \in Nat /\ Len(b) \in Nat /\ k \in Nat /\ k <= Len(b)
    OBVIOUS
  <1>3. \A i \in 1 .. n : r[i] = q[i]
    BY Joined
  <1>4. \A j \in 1 .. Len(b) : r[n + j] = b[j]
    BY Joined
  <1> HIDE DEF r, n
  <1>5. ASSUME NEW i \in 0 .. n PROVE SiteUnits(r, i) = SiteUnits(q, i)
    BY <1>2, <1>3, <1>5, CountSame
  <1>6. \A i \in 0 .. n : Counted(r, i) = Counted(q, i)
    BY <1>5 DEF Counted
  <1>7. SiteUnits(r, n) = SiteUnits(q, n)
    BY <1>2, <1>5
  <1>8. ASSUME Sited(b) PROVE Counted(r, n + k) = Counted(q, n) + k
    <2> DEFINE K == n + 1 .. n + k
    <2>1. \A i \in K : r[i][1] = "site"
      <3> TAKE i \in K
      <3>1. i - n \in 1 .. Len(b) /\ n + (i - n) = i
        BY <1>2
      <3> QED
        BY <1>4, <1>8, <3>1 DEF Sited
    <2>2. SiteUnits(r, n + k) = SiteUnits(r, n) \cup K
      BY <1>2, <2>1 DEF SiteUnits
    <2>3. SiteUnits(r, n) \cap K = {}
      BY <1>2 DEF SiteUnits
    <2>4. IsFiniteSet(K) /\ Cardinality(K) = k
      <3> DEFINE a == n + 1
                 z == n + k
      <3>1. a \in Int /\ z \in Int /\ (IF a > z THEN 0 ELSE z - a + 1) = k
        BY <1>2
      <3> HIDE DEF a, z
      <3>2. IsFiniteSet(a .. z) /\ Cardinality(a .. z) = k
        BY <3>1, FS_Interval
      <3> QED
        BY <3>2 DEF a, z
    <2>5. IsFiniteSet(SiteUnits(r, n)) /\ Counted(r, n) \in Nat /\ Counted(q, n) = Counted(r, n)
      BY <1>2, <1>6, CountIs
    <2>6. Cardinality(SiteUnits(r, n) \cup K)
            = Cardinality(SiteUnits(r, n)) + Cardinality(K) - Cardinality(SiteUnits(r, n) \cap K)
      BY <2>4, <2>5, FS_Union
    <2> HIDE DEF K
    <2>7. Cardinality(SiteUnits(r, n) \cap K) = 0
      BY <2>3, FS_EmptySet
    <2>8. Counted(r, n + k) = Counted(r, n) + k - 0
      BY <2>2, <2>4, <2>6, <2>7 DEF Counted
    <2> QED
      BY <1>2, <2>5, <2>8
  <1>9. ASSUME \A i \in 1 .. Len(b) : b[i][1] # "site" PROVE Counted(r, n + k) = Counted(q, n)
    <2>1. \A i \in n + 1 .. n + k : r[i][1] # "site"
      <3> TAKE i \in n + 1 .. n + k
      <3>1. i - n \in 1 .. Len(b) /\ n + (i - n) = i
        BY <1>2
      <3> QED
        BY <1>4, <1>9, <3>1
    <2>2. SiteUnits(r, n + k) = SiteUnits(r, n)
      BY <1>2, <2>1 DEF SiteUnits
    <2> QED
      BY <1>7, <2>2 DEF Counted
  <1> QED
    BY <1>6, <1>8, <1>9 DEF r, n

-----------------------------------------------------------------------------
(* The stream of the site's units *)

\* q goes on after the first m units of the site.
After(q, m) == \A k \in 1 .. Len(q) : q[k] = <<"site", m + k>>

LEMMA AfterJoined ==
    ASSUME NEW q \in Seq(Unit), NEW r \in Seq(Unit), NEW m \in Nat,
           After(q, m), After(r, m + Len(q))
    PROVE  After(q \o r, m)
  <1>1. Len(q) \in Nat /\ Len(r) \in Nat /\ Len(q \o r) = Len(q) + Len(r)
    OBVIOUS
  <1>2. ASSUME NEW k \in 1 .. Len(q) PROVE (q \o r)[k] = <<"site", m + k>>
    BY <1>2, Joined DEF After
  <1>3. ASSUME NEW k \in Len(q) + 1 .. Len(q) + Len(r) PROVE (q \o r)[k] = <<"site", m + k>>
    <2>1. k - Len(q) \in 1 .. Len(r) /\ Len(q) + (k - Len(q)) = k
          /\ (m + Len(q)) + (k - Len(q)) = m + k
      BY <1>1
    <2>2. (q \o r)[Len(q) + (k - Len(q))] = r[k - Len(q)]
      BY <2>1, Joined
    <2> QED
      BY <2>1, <2>2 DEF After
  <1>4. \A k \in 1 .. Len(q) + Len(r) : k \in 1 .. Len(q) \/ k \in Len(q) + 1 .. Len(q) + Len(r)
    BY <1>1
  <1> QED
    BY <1>1, <1>2, <1>3, <1>4 DEF After

LEMMA AfterPieces ==
    ASSUME NEW q \in Seq(Unit), NEW m \in Nat, NEW n \in 0 .. Len(q), After(q, m)
    PROVE  /\ SubSeq(q, 1, n) \in Seq(Unit) /\ Len(SubSeq(q, 1, n)) = n
           /\ After(SubSeq(q, 1, n), m)
           /\ SubSeq(q, n + 1, Len(q)) \in Seq(Unit)
           /\ Len(SubSeq(q, n + 1, Len(q))) = Len(q) - n
           /\ After(SubSeq(q, n + 1, Len(q)), m + n)
  <1>1. n \in Nat /\ Len(q) \in Nat /\ n <= Len(q)
    OBVIOUS
  <1>2. /\ SubSeq(q, 1, n) \in Seq(Unit) /\ Len(SubSeq(q, 1, n)) = n
        /\ \A k \in 1 .. n : SubSeq(q, 1, n)[k] = q[k]
    <2>1. 0 + 1 = 1 /\ 0 + n = n /\ 0 + n <= Len(q) /\ 0 \in Nat /\ \A k \in 1 .. n : 0 + k = k
      BY <1>1
    <2>2. /\ SubSeq(q, 0 + 1, 0 + n) \in Seq(Unit) /\ Len(SubSeq(q, 0 + 1, 0 + n)) = n
          /\ \A k \in 1 .. n : SubSeq(q, 0 + 1, 0 + n)[k] = q[0 + k]
      BY <1>1, <2>1, Piece
    <2> QED
      BY <2>1, <2>2
  <1>3. /\ SubSeq(q, n + 1, Len(q)) \in Seq(Unit) /\ Len(SubSeq(q, n + 1, Len(q))) = Len(q) - n
        /\ \A k \in 1 .. Len(q) - n : SubSeq(q, n + 1, Len(q))[k] = q[n + k]
    <2> DEFINE l == Len(q) - n
    <2>1. l \in Nat /\ n + l = Len(q)
      BY <1>1
    <2> HIDE DEF l
    <2>2. /\ SubSeq(q, n + 1, n + l) \in Seq(Unit) /\ Len(SubSeq(q, n + 1, n + l)) = l
          /\ \A k \in 1 .. l : SubSeq(q, n + 1, n + l)[k] = q[n + k]
      BY <1>1, <2>1, Piece
    <2>3. /\ SubSeq(q, n + 1, Len(q)) \in Seq(Unit) /\ Len(SubSeq(q, n + 1, Len(q))) = l
          /\ \A k \in 1 .. l : SubSeq(q, n + 1, Len(q))[k] = q[n + k]
      BY <2>1, <2>2
    <2> QED
      BY <2>3 DEF l
  <1>4. After(SubSeq(q, 1, n), m)
    BY <1>1, <1>2 DEF After
  <1>5. After(SubSeq(q, n + 1, Len(q)), m + n)
    <2> SUFFICES ASSUME NEW k \in 1 .. Len(q) - n
                 PROVE  SubSeq(q, n + 1, Len(q))[k] = <<"site", (m + n) + k>>
      BY <1>3 DEF After
    <2>1. n + k \in 1 .. Len(q) /\ m + (n + k) = (m + n) + k
      BY <1>1
    <2> QED
      BY <1>3, <2>1 DEF After
  <1> QED
    BY <1>2, <1>3, <1>4, <1>5

\* Some of r is read behind q.
LEMMA AfterRead ==
    ASSUME NEW q \in Seq(Unit), NEW r \in Seq(Unit), NEW m \in Nat, NEW n \in 0 .. Len(r),
           After(q, m), After(r, m + Len(q))
    PROVE  LET q1 == q \o SubSeq(r, 1, n)
               r1 == SubSeq(r, n + 1, Len(r))
           IN  /\ After(q1, m) /\ After(r1, m + Len(q1))
               /\ m + Len(q1) + Len(r1) = m + Len(q) + Len(r)
  <1> DEFINE b == SubSeq(r, 1, n)
             p == m + Len(q)
             r1 == SubSeq(r, n + 1, Len(r))
  <1>1. Len(q) \in Nat /\ Len(r) \in Nat /\ n \in Nat /\ p \in Nat
    OBVIOUS
  <1>2. /\ b \in Seq(Unit) /\ Len(b) = n /\ After(b, p)
        /\ Len(r1) = Len(r) - n /\ After(r1, p + n)
    BY <1>1, AfterPieces
  <1> HIDE DEF b, r1
  <1>3. After(q \o b, m)
    BY <1>2, AfterJoined
  <1>4. Len(q \o b) = Len(q) + n
    <2>1. b \in Seq(Unit) /\ Len(b) = n
      BY <1>2
    <2>2. Len(q \o b) = Len(q) + Len(b)
      BY <2>1, Joined
    <2> QED
      BY <2>1, <2>2
  <1>5. p + n = m + Len(q \o b) /\ m + Len(q \o b) + Len(r1) = m + Len(q) + Len(r)
    BY <1>1, <1>2, <1>4
  <1>6. After(r1, m + Len(q \o b))
    BY <1>2, <1>5
  <1> QED
    BY <1>3, <1>5, <1>6 DEF b, r1

\* What the control thread has read and not sent.
Held ==
    IF pc["control"] \in {"write", "send"}
    THEN SubSeq(text["control"], total["control"] + 1, Len(text["control"]))
    ELSE tmp

Passed == Counted(Shown, Len(Shown))

\* Unless a read gave up half a line, the units of the site among what is shown
\* are numbered without a gap, and what the control thread has and what is on its
\* way from the site go on from there, until the control thread is gone.
StreamInv ==
    ~discarded =>
        /\ \A i \in SiteUnits(Shown, Len(Shown)) : Shown[i] = <<"site", Counted(Shown, i)>>
        /\ Passed <= sent
        /\ pc["control"] # "gone" =>
              /\ After(Held, Passed) /\ After(inq, Passed + Len(Held))
              /\ Passed + Len(Held) + Len(inq) = sent

TmpInv == pc["control"] # "read" => tmp = <<>>

\* The units of the site that the client got are counted one by one.
RankInv ==
    \A k \in 1 .. Counted(got, Len(got)) :
        \E i \in SiteUnits(got, Len(got)) : Counted(got, i) = k

LEMMA StreamTyped ==
    ASSUME TypeOK
    PROVE  /\ Shown \in Seq(Unit) /\ Held \in Seq(Unit) /\ inq \in Seq(Unit) /\ got \in Seq(Unit)
           /\ outq \in Seq(Unit) /\ tmp \in Seq(Unit)
           /\ Passed \in Nat /\ sent \in Nat /\ Len(Shown) \in Nat /\ Len(Held) \in Nat
           /\ Len(inq) \in Nat /\ Len(got) \in Nat
  <1>1. /\ got \in Seq(Unit) /\ outq \in Seq(Unit) /\ tmp \in Seq(Unit) /\ inq \in Seq(Unit)
        /\ sent \in Nat
    BY ConstFacts DEF TypeOK
  <1>2. Shown \in Seq(Unit)
    BY <1>1 DEF Shown
  <1>3. /\ text["control"] \in Seq(Unit) /\ total["control"] \in Nat
        /\ total["control"] <= Len(text["control"])
    BY ConstFacts DEF TypeOK
  <1>4. Held \in Seq(Unit)
    <2> DEFINE n == Len(text["control"]) - total["control"]
    <2>1. n \in Nat /\ total["control"] + n = Len(text["control"])
      BY <1>3
    <2>2. SubSeq(text["control"], total["control"] + 1, total["control"] + n) \in Seq(Unit)
      BY <1>3, <2>1, Piece
    <2> QED
      BY <1>1, <2>1, <2>2 DEF Held
  <1>5. Passed \in Nat
    BY <1>2, CountIs DEF Passed
  <1> QED
    BY <1>1, <1>2, <1>4, <1>5

\* A step that reads nothing and shows nothing, or ends the control thread.
LEMMA StreamMoves ==
    ASSUME StreamInv, Shown' = Shown, sent' = sent, discarded => discarded',
           pc'["control"] # "gone" /\ ~discarded' =>
               pc["control"] # "gone" /\ Held' = Held /\ inq' = inq
    PROVE  StreamInv'
  <1>1. Passed' = Passed
    BY DEF Passed, Counted, SiteUnits
  <1>2. SiteUnits(Shown, Len(Shown))' = SiteUnits(Shown, Len(Shown))
    BY DEF SiteUnits
  <1>3. \A i : Counted(Shown', i) = Counted(Shown, i)
    OBVIOUS
  <1>4. SUFFICES ASSUME ~discarded'
                 PROVE  /\ \A i \in SiteUnits(Shown, Len(Shown))' :
                              Shown'[i] = <<"site", Counted(Shown', i)>>
                        /\ Passed' <= sent'
                        /\ pc'["control"] # "gone" =>
                              /\ After(Held, Passed)' /\ After(inq, Passed + Len(Held))'
                              /\ Passed' + Len(Held') + Len(inq') = sent'
    BY DEF StreamInv, Counted, SiteUnits
  <1>5. ~discarded
    BY <1>4
  <1>6. \A i \in SiteUnits(Shown, Len(Shown))' : Shown'[i] = <<"site", Counted(Shown', i)>>
    BY <1>2, <1>3, <1>5 DEF StreamInv
  <1>7. Passed' <= sent'
    BY <1>1, <1>5 DEF StreamInv
  <1>8. ASSUME pc'["control"] # "gone"
        PROVE  /\ After(Held, Passed)' /\ After(inq, Passed + Len(Held))'
               /\ Passed' + Len(Held') + Len(inq') = sent'
    BY <1>1, <1>4, <1>5, <1>8 DEF StreamInv, After
  <1> QED
    BY <1>6, <1>7, <1>8

\* The control thread reads some of what is on its way.
LEMMA StreamReads ==
    ASSUME TypeOK, StreamInv, pc["control"] # "gone", NEW n \in 0 .. Len(inq),
           Held' = Held \o SubSeq(inq, 1, n), inq' = SubSeq(inq, n + 1, Len(inq)),
           Shown' = Shown, sent' = sent, discarded' = discarded
    PROVE  StreamInv'
  <1>1. Passed' = Passed
    BY DEF Passed, Counted, SiteUnits
  <1>2. ASSUME ~discarded
        PROVE  /\ After(Held', Passed) /\ After(inq', Passed + Len(Held'))
               /\ Passed + Len(Held') + Len(inq') = sent
    <2>1. /\ Held \in Seq(Unit) /\ inq \in Seq(Unit) /\ Passed \in Nat /\ sent \in Nat
          /\ Len(Held) \in Nat /\ Len(inq) \in Nat /\ n \in Nat
      BY StreamTyped
    <2>2. /\ After(Held, Passed) /\ After(inq, Passed + Len(Held))
          /\ Passed + Len(Held) + Len(inq) = sent
      BY <1>2 DEF StreamInv
    <2> DEFINE h == Held \o SubSeq(inq, 1, n)
               r == SubSeq(inq, n + 1, Len(inq))
    <2>4. /\ After(h, Passed) /\ After(r, Passed + Len(h))
          /\ Passed + Len(h) + Len(r) = Passed + Len(Held) + Len(inq)
      <3>1. /\ Held \in Seq(Unit) /\ inq \in Seq(Unit) /\ Passed \in Nat /\ n \in 0 .. Len(inq)
            /\ After(Held, Passed) /\ After(inq, Passed + Len(Held))
        BY <2>1, <2>2
      <3> QED
        BY <3>1, AfterRead
    <2>5. Held' = h /\ inq' = r
      OBVIOUS
    <2> HIDE DEF h, r
    <2>3. /\ After(Held', Passed) /\ After(inq', Passed + Len(Held'))
          /\ Passed + Len(Held') + Len(inq') = Passed + Len(Held) + Len(inq)
      BY <2>4, <2>5
    <2> QED
      BY <2>2, <2>3
  <1>3. SiteUnits(Shown, Len(Shown))' = SiteUnits(Shown, Len(Shown))
    BY DEF SiteUnits
  <1>4. \A i : Counted(Shown, i)' = Counted(Shown, i)
    BY DEF Counted, SiteUnits
  <1>5. ~discarded' =>
            /\ \A i \in SiteUnits(Shown, Len(Shown))' : Shown'[i] = <<"site", Counted(Shown, i)'>>
            /\ Passed' <= sent'
    BY <1>1, <1>3, <1>4 DEF StreamInv
  <1>6. ~discarded' =>
            /\ After(Held, Passed)' /\ After(inq, Passed + Len(Held))'
            /\ Passed' + Len(Held') + Len(inq') = sent'
    BY <1>1, <1>2 DEF After
  <1> QED
    BY <1>5, <1>6 DEF StreamInv, Counted, SiteUnits

\* It sends some of what it has.
LEMMA StreamSends ==
    ASSUME TypeOK, StreamInv, pc["control"] # "gone",
           NEW b \in Seq(Unit), Len(b) <= Len(Held), \A k \in 1 .. Len(b) : b[k] = Held[k],
           Shown' = Shown \o b,
           Len(Held') = Len(Held) - Len(b),
           \A k \in 1 .. Len(Held) - Len(b) : Held'[k] = Held[Len(b) + k],
           inq' = inq, sent' = sent, discarded' = discarded
    PROVE  StreamInv'
  <1> SUFFICES ASSUME ~discarded
               PROVE  /\ \A i \in SiteUnits(Shown, Len(Shown))' :
                            Shown'[i] = <<"site", Counted(Shown', i)>>
                      /\ Passed' <= sent
                      /\ After(Held', Passed') /\ After(inq, Passed' + Len(Held'))
                      /\ Passed' + Len(Held') + Len(inq) = sent
    BY DEF StreamInv, After, Counted, SiteUnits
  <1> DEFINE n == Len(b)
             m == Len(Shown)
  <1>1. /\ Shown \in Seq(Unit) /\ Held \in Seq(Unit) /\ Passed \in Nat /\ sent \in Nat
        /\ Len(Held) \in Nat /\ Len(inq) \in Nat /\ n \in Nat /\ m \in Nat
    BY StreamTyped
  <1>2. /\ \A i \in SiteUnits(Shown, m) : Shown[i] = <<"site", Counted(Shown, i)>>
        /\ After(Held, Passed) /\ After(inq, Passed + Len(Held))
        /\ Passed + Len(Held) + Len(inq) = sent
    BY DEF StreamInv
  <1>3. \A k \in 1 .. n : b[k] = <<"site", Passed + k>>
    BY <1>1, <1>2 DEF After
  <1>4. Sited(b)
    BY <1>3 DEF Sited
  <1>5. /\ \A i \in 0 .. m : Counted(Shown', i) = Counted(Shown, i)
        /\ \A k \in 0 .. n : Counted(Shown', m + k) = Passed + k
    BY <1>1, <1>4, CountJoined DEF Passed
  <1>6. Len(Shown') = m + n
    BY <1>1
  <1>7. Passed' = Passed + n
    <2>1. n \in 0 .. n
      BY <1>1
    <2> QED
      BY <1>5, <1>6, <2>1 DEF Passed, Counted, SiteUnits
  <1>8. ASSUME NEW i \in SiteUnits(Shown, Len(Shown))'
        PROVE  Shown'[i] = <<"site", Counted(Shown', i)>>
    <2>1. i \in 1 .. m + n /\ Shown'[i][1] = "site"
      BY <1>6 DEF SiteUnits
    <2>2. CASE i <= m
      <3>1. i \in 1 .. m /\ i \in 0 .. m
        BY <1>1, <2>1, <2>2
      <3>2. Shown'[i] = Shown[i]
        BY <1>1, <3>1, Joined
      <3>3. i \in SiteUnits(Shown, m)
        BY <2>1, <3>1, <3>2 DEF SiteUnits
      <3> QED
        BY <1>2, <1>5, <3>1, <3>2, <3>3
    <2>3. CASE i > m
      <3>1. i - m \in 1 .. n /\ m + (i - m) = i /\ i - m \in 0 .. n
        BY <1>1, <2>1, <2>3
      <3>2. Shown'[m + (i - m)] = b[i - m]
        BY <1>1, <3>1, Joined
      <3> QED
        BY <1>3, <1>5, <3>1, <3>2
    <2> QED
      BY <1>1, <2>1, <2>2, <2>3
  <1>9. After(Held', Passed')
    <2> SUFFICES ASSUME NEW k \in 1 .. Len(Held) - n PROVE Held'[k] = <<"site", (Passed + n) + k>>
      BY <1>7 DEF After
    <2>1. n + k \in 1 .. Len(Held) /\ Passed + (n + k) = (Passed + n) + k
      BY <1>1
    <2> QED
      BY <1>2, <2>1 DEF After
  <1>10. Passed' + Len(Held') = Passed + Len(Held)
    BY <1>1, <1>7
  <1>11. Passed' <= sent
    BY <1>1, <1>2, <1>7
  <1> QED
    BY <1>2, <1>8, <1>9, <1>10, <1>11

\* The data thread sends some of its notice.
LEMMA StreamNoticed ==
    ASSUME TypeOK, StreamInv,
           NEW b \in Seq(Unit), \A k \in 1 .. Len(b) : b[k][1] # "site", Shown' = Shown \o b,
           Held' = Held, inq' = inq, sent' = sent, discarded' = discarded,
           pc'["control"] = pc["control"]
    PROVE  StreamInv'
  <1> DEFINE n == Len(b)
             m == Len(Shown)
  <1>1. /\ Shown \in Seq(Unit) /\ n \in Nat /\ m \in Nat
    BY StreamTyped
  <1>2. /\ \A i \in 0 .. m : Counted(Shown', i) = Counted(Shown, i)
        /\ \A k \in 0 .. n : Counted(Shown', m + k) = Passed
    <2>1. ASSUME NEW k \in 0 .. n
          PROVE  /\ \A i \in 0 .. m : Counted(Shown \o b, i) = Counted(Shown, i)
                 /\ Counted(Shown \o b, m + k) = Counted(Shown, m)
      BY <1>1, CountJoined
    <2>2. 0 \in 0 .. n
      BY <1>1
    <2> QED
      BY <2>1, <2>2 DEF Passed
  <1>3. Len(Shown') = m + n
    BY <1>1
  <1>4. Passed' = Passed
    <2>1. n \in 0 .. n
      BY <1>1
    <2> QED
      BY <1>2, <1>3, <2>1 DEF Passed, Counted, SiteUnits
  <1>5. ASSUME ~discarded, NEW i \in SiteUnits(Shown, Len(Shown))'
        PROVE  Shown'[i] = <<"site", Counted(Shown', i)>>
    <2>1. i \in 1 .. m + n /\ Shown'[i][1] = "site"
      BY <1>3 DEF SiteUnits
    <2>2. CASE i <= m
      <3>1. i \in 1 .. m /\ i \in 0 .. m
        BY <1>1, <2>1, <2>2
      <3>2. Shown'[i] = Shown[i]
        BY <1>1, <3>1, Joined
      <3>3. i \in SiteUnits(Shown, m)
        BY <2>1, <3>1, <3>2 DEF SiteUnits
      <3> QED
        BY <1>2, <1>5, <3>1, <3>2, <3>3 DEF StreamInv
    <2>3. CASE i > m
      <3>1. i - m \in 1 .. n /\ m + (i - m) = i
        BY <1>1, <2>1, <2>3
      <3>2. Shown'[m + (i - m)] = b[i - m]
        BY <1>1, <3>1, Joined
      <3> QED
        BY <2>1, <3>1, <3>2
    <2> QED
      BY <1>1, <2>1, <2>2, <2>3
  <1>6. ~discarded' =>
            /\ Passed' <= sent'
            /\ pc'["control"] # "gone" =>
                  /\ After(Held, Passed)' /\ After(inq, Passed + Len(Held))'
                  /\ Passed' + Len(Held') + Len(inq') = sent'
    BY <1>4 DEF StreamInv, After
  <1> QED
    BY <1>5, <1>6 DEF StreamInv, Counted, SiteUnits

-----------------------------------------------------------------------------
(* The steps *)

PipeInv == TmpInv /\ StreamInv

\* The rest of s behind its first t units.
LEMMA Remains ==
    ASSUME NEW s \in Seq(Unit), NEW t \in Nat, t <= Len(s)
    PROVE  /\ Len(SubSeq(s, t + 1, Len(s))) = Len(s) - t
           /\ \A k \in 1 .. Len(s) - t : SubSeq(s, t + 1, Len(s))[k] = s[t + k]
  <1> DEFINE l == Len(s) - t
  <1>1. l \in Nat /\ t + l = Len(s)
    OBVIOUS
  <1> HIDE DEF l
  <1>2. /\ Len(SubSeq(s, t + 1, t + l)) = l
        /\ \A k \in 1 .. l : SubSeq(s, t + 1, t + l)[k] = s[t + k]
    BY <1>1, Piece
  <1> QED
    BY <1>1, <1>2 DEF l

LEMMA AllOf ==
    ASSUME NEW q \in Seq(Unit) PROVE SubSeq(q, 0 + 1, Len(q)) = q
  OBVIOUS

LEMMA ReadingStream ==
    ASSUME IInv, PipeInv, BeginRead \/ FailRead \/ WantRead PROVE PipeInv'
  <1>1. /\ Shown' = Shown /\ sent' = sent /\ inq' = inq /\ tmp' = <<>>
        /\ discarded => discarded'
    <2>1. /\ sent' = sent /\ inq' = inq /\ tmp' = <<>> /\ got' = got /\ outq' = outq
          /\ discarded' = discarded \/ discarded' = (discarded \/ tmp # <<>>)
      BY DEF BeginRead, FailRead, WantRead, site, client, history
    <2>2. discarded => discarded'
      BY <2>1
    <2> QED
      BY <2>1, <2>2 DEF Shown
  <1>2. TmpInv'
    BY <1>1 DEF TmpInv
  <1>3. CASE BeginRead
    <2>1. pc["control"] = "loop" /\ pc'["control"] = "read"
      BY <1>3 DEF BeginRead, At, IInv, TypeOK, Writers
    <2>2. tmp = <<>>
      BY <2>1 DEF PipeInv, TmpInv
    <2> QED
      BY <1>1, <1>2, <2>1, <2>2, StreamMoves DEF PipeInv, Held
  <1>4. CASE FailRead
    <2>1. pc'["control"] = "gone"
      BY <1>4 DEF FailRead, At, IInv, TypeOK, Writers
    <2> QED
      BY <1>1, <1>2, <2>1, StreamMoves DEF PipeInv
  <1>5. CASE WantRead
    <2>1. pc["control"] = "read" /\ pc'["control"] = "loop"
      BY <1>5 DEF WantRead, At, IInv, TypeOK, Writers
    <2>2. ~discarded' => tmp = <<>>
      BY <1>5 DEF WantRead
    <2> QED
      BY <1>1, <1>2, <2>1, <2>2, StreamMoves DEF PipeInv, Held
  <1> QED
    BY <1>3, <1>4, <1>5

LEMMA InterruptReadStream ==
    ASSUME IInv, PipeInv, InterruptRead PROVE PipeInv'
  <1>1. /\ Shown' = Shown /\ sent' = sent /\ inq' = inq /\ discarded' = discarded
        /\ tmp' = <<>> /\ Return(tmp)
    BY DEF InterruptRead, Shown, site, client
  <1>2. /\ pc["control"] = "read" /\ pc'["control"] = "write"
        /\ text'["control"] = tmp /\ total'["control"] = 0
    BY <1>1 DEF Return, At, IInv, TypeOK, Writers
  <1>3. tmp \in Seq(Unit)
    BY DEF IInv, TypeOK
  <1>4. Held' = SubSeq(tmp, 0 + 1, Len(tmp)) /\ Held = tmp
    BY <1>2 DEF Held
  <1>5. Held' = Held
    BY <1>3, <1>4, AllOf
  <1> QED
    BY <1>1, <1>2, <1>5, StreamMoves DEF PipeInv, TmpInv

LEMMA ReceiveStream ==
    ASSUME IInv, PipeInv, Receive PROVE PipeInv'
  <1>1. /\ pc["control"] = "read" /\ Shown' = Shown /\ sent' = sent /\ discarded' = discarded
    BY DEF Receive, Shown, client, history
  <1>2. PICK r \in Found :
          LET n == IF r < BufferSize THEN r ELSE BufferSize
              s == tmp \o SubSeq(inq, 1, n)
          IN  /\ inq' = SubSeq(inq, n + 1, Len(inq))
              /\ IF Complete(n, s)
                 THEN Return(s) /\ tmp' = <<>>
                 ELSE tmp' = s /\ UNCHANGED <<pc, rwlock, writing>>
    BY DEF Receive
  <1> DEFINE n == IF r < BufferSize THEN r ELSE BufferSize
             s == tmp \o SubSeq(inq, 1, n)
  <1>3. r \in 1 .. Len(inq)
    BY <1>2 DEF Found, IInv, TypeOK
  <1>4. n \in 0 .. Len(inq)
    BY <1>3, ConstFacts
  <1>5. /\ inq' = SubSeq(inq, n + 1, Len(inq))
        /\ \/ Return(s) /\ tmp' = <<>>
           \/ tmp' = s /\ UNCHANGED <<pc, rwlock, writing>>
    BY <1>2
  <1>6. s \in Seq(Unit)
    <2>1. tmp \in Seq(Unit) /\ inq \in Seq(Unit)
      BY DEF IInv, TypeOK
    <2>2. n \in Nat /\ 0 + n <= Len(inq) /\ 0 \in Nat /\ 0 + n = n /\ 0 + 1 = 1
      BY <1>4, <2>1
    <2> HIDE DEF n
    <2>3. SubSeq(inq, 0 + 1, 0 + n) \in Seq(Unit)
      BY <2>1, <2>2, Piece
    <2> QED
      BY <2>1, <2>2, <2>3
  <1> HIDE DEF n
  <1>7. Held = tmp
    BY <1>1 DEF Held
  <1>8. Held' = s /\ TmpInv'
    <2>1. CASE Return(s) /\ tmp' = <<>>
      <3>1. pc'["control"] = "write" /\ text'["control"] = s /\ total'["control"] = 0
        BY <2>1 DEF Return, At, IInv, TypeOK, Writers
      <3> HIDE DEF s
      <3>2. Held' = SubSeq(s, 0 + 1, Len(s))
        BY <3>1 DEF Held
      <3> QED
        BY <1>6, <2>1, <3>2, AllOf DEF TmpInv
    <2>2. CASE tmp' = s /\ UNCHANGED <<pc, rwlock, writing>>
      BY <1>1, <2>2 DEF Held, TmpInv
    <2> QED
      BY <1>5, <2>1, <2>2
  <1>9. StreamInv'
    <2>1. Held' = Held \o SubSeq(inq, 1, n)
      BY <1>7, <1>8
    <2>2. pc["control"] # "gone" /\ TypeOK
      BY <1>1 DEF IInv
    <2> QED
      BY <1>1, <1>4, <1>5, <2>1, <2>2, StreamReads DEF PipeInv
  <1> QED
    BY <1>8, <1>9 DEF PipeInv

LEMMA SendStream ==
    ASSUME IInv, PipeInv, NEW w \in Writers, Send(w) PROVE PipeInv'
  <1>1. PICK n \in 1 .. Block(w) :
          /\ outq' = outq \o SubSeq(text[w], total[w] + 1, total[w] + n)
          /\ total' = [total EXCEPT ![w] = total[w] + n]
    BY DEF Send, Advanced
  <1> DEFINE b == SubSeq(text[w], total[w] + 1, total[w] + n)
  <1>2. /\ pc[w] = "send" /\ pc' = pc /\ text' = text /\ tmp' = tmp /\ got' = got
        /\ inq' = inq /\ sent' = sent /\ discarded' = discarded
    BY DEF Send, site, history
  <1>3. /\ n \in Nat /\ total[w] \in Nat /\ n <= Left(w)
        /\ total[w] + n <= Len(text[w]) /\ text[w] \in Seq(Unit)
        /\ b \in Seq(Unit) /\ Len(b) = n
        /\ \A k \in 1 .. n : total[w] + k \in 1 .. Len(text[w]) /\ b[k] = text[w][total[w] + k]
    BY SendStep
  <1>4. outq' = outq \o b
    BY <1>1
  <1> HIDE DEF b
  <1>5. Shown' = Shown \o b
    <2>1. got \in Seq(Unit) /\ outq \in Seq(Unit)
      BY DEF IInv, TypeOK
    <2>2. (got \o outq) \o b = got \o (outq \o b)
      BY <1>3, <2>1, JoinedTwice
    <2> QED
      BY <1>2, <1>4, <2>2 DEF Shown
  <1>6. TmpInv'
    BY <1>2 DEF PipeInv, TmpInv
  <1>7. total'[w] = total[w] + n /\ \A v \in Writers : v # w => total'[v] = total[v]
    BY <1>1 DEF IInv, TypeOK
  <1>8. CASE w = "control"
    <2> DEFINE s == text["control"]
               t == total["control"]
    <2>1. s \in Seq(Unit) /\ t \in Nat /\ t + n <= Len(s) /\ n \in Nat /\ Len(s) \in Nat
      BY <1>3, <1>8
    <2>2. Held = SubSeq(s, t + 1, Len(s)) /\ Held' = SubSeq(s, (t + n) + 1, Len(s))
      BY <1>2, <1>7, <1>8 DEF Held
    <2>3. \A k \in 1 .. n : b[k] = s[t + k]
      BY <1>3, <1>8
    <2> HIDE DEF s, t
    <2>4. Len(Held) = Len(s) - t /\ \A k \in 1 .. Len(s) - t : Held[k] = s[t + k]
      BY <2>1, <2>2, Remains
    <2>5. /\ Len(Held') = Len(s) - (t + n)
          /\ \A k \in 1 .. Len(s) - (t + n) : Held'[k] = s[(t + n) + k]
      BY <2>1, <2>2, Remains
    <2>6. Len(b) <= Len(Held) /\ \A k \in 1 .. Len(b) : b[k] = Held[k]
      <3>1. Len(b) = n /\ n <= Len(s) - t
        BY <1>3, <2>1
      <3>2. \A k \in 1 .. n : k \in 1 .. Len(s) - t
        BY <2>1, <3>1
      <3> QED
        BY <2>3, <2>4, <3>1, <3>2
    <2>7. Len(Held') = Len(Held) - Len(b)
      BY <1>3, <2>1, <2>4, <2>5
    <2>8. ASSUME NEW k \in 1 .. Len(Held) - Len(b) PROVE Held'[k] = Held[Len(b) + k]
      <3>1. Len(Held) - Len(b) = (Len(s) - t) - n /\ k \in 1 .. (Len(s) - t) - n
        BY <1>3, <2>4
      <3>2. /\ k \in 1 .. Len(s) - (t + n) /\ n + k \in 1 .. Len(s) - t
            /\ (t + n) + k = t + (n + k)
        BY <2>1, <3>1
      <3>3. Held[n + k] = s[t + (n + k)] /\ Held'[k] = s[(t + n) + k]
        BY <2>4, <2>5, <3>2
      <3> QED
        BY <1>3, <3>2, <3>3
    <2>9. pc["control"] # "gone" /\ TypeOK /\ StreamInv
      BY <1>2, <1>8 DEF IInv, PipeInv
    <2>10. StreamInv'
      BY <1>2, <1>3, <1>5, <2>6, <2>7, <2>8, <2>9, StreamSends
    <2> QED
      BY <1>6, <2>10 DEF PipeInv
  <1>9. CASE w = "data"
    <2>1. \A k \in 1 .. Len(b) : b[k][1] # "site"
      <3> TAKE k \in 1 .. Len(b)
      <3>1. total[w] + k \in 1 .. Len(NoticeText) /\ b[k] = NoticeText[total[w] + k]
        BY <1>3, <1>9 DEF IInv, TextInv
      <3>2. NoticeText[total[w] + k][1] = "data"
        BY <3>1, NoticeFacts DEF NoticeText
      <3> QED
        BY <3>1, <3>2
    <2>2. Held' = Held
      BY <1>2, <1>7, <1>9, ConstFacts DEF Held
    <2>3. StreamInv'
      BY <1>2, <1>3, <1>5, <2>1, <2>2, StreamNoticed DEF IInv, PipeInv
    <2> QED
      BY <1>6, <2>3 DEF PipeInv
  <1> QED
    BY <1>8, <1>9, ConstFacts

\* The other steps of a writer send nothing.
LEMMA WriterStream ==
    ASSUME IInv, PipeInv, NEW w \in Writers,
           BeginWrite(w) \/ WantWrite(w) \/ EndWrite(w) \/ FailWrite(w)
    PROVE  PipeInv'
  <1>1. /\ Shown' = Shown /\ sent' = sent /\ inq' = inq /\ discarded' = discarded
        /\ tmp' = tmp /\ text' = text /\ total' = total
    BY DEF BeginWrite, WantWrite, EndWrite, FailWrite, Shown, site, client, writing, history
  <1>2. pc \in [Writers -> {"loop", "read", "write", "send", "gone"}]
    BY DEF IInv, TypeOK
  <1>3. CASE w = "data" \/ WantWrite(w)
    <2>1. pc'["control"] = pc["control"]
      BY <1>2, <1>3, ConstFacts DEF BeginWrite, WantWrite, EndWrite, FailWrite, At
    <2>2. Held' = Held
      BY <1>1, <2>1 DEF Held
    <2> QED
      BY <1>1, <2>1, <2>2, StreamMoves DEF PipeInv, TmpInv
  <1>4. CASE w = "control" /\ BeginWrite(w)
    <2>1. pc["control"] = "write" /\ pc'["control"] = "send"
      BY <1>2, <1>4, ConstFacts DEF BeginWrite, At
    <2>2. Held' = Held
      BY <1>1, <2>1 DEF Held
    <2> QED
      BY <1>1, <2>1, <2>2, StreamMoves DEF PipeInv, TmpInv
  <1>5. CASE w = "control" /\ EndWrite(w)
    <2>1. pc["control"] = "send" /\ pc'["control"] = "loop" /\ Left("control") = 0
      BY <1>2, <1>5, ConstFacts DEF EndWrite, At
    <2>2. tmp = <<>>
      BY <2>1 DEF PipeInv, TmpInv
    <2>3. /\ Held = SubSeq(text["control"], total["control"] + 1, Len(text["control"]))
          /\ Held' = tmp
      BY <1>1, <2>1 DEF Held
    <2>4. Held = <<>>
      <3>1. text["control"] \in Seq(Unit) /\ total["control"] \in Nat
            /\ Len(text["control"]) = total["control"]
        BY <2>1, ConstFacts DEF IInv, TypeOK, Left
      <3> QED
        BY <2>3, <3>1
    <2> QED
      BY <1>1, <2>1, <2>2, <2>3, <2>4, StreamMoves DEF PipeInv, TmpInv
  <1>6. CASE w = "control" /\ FailWrite(w)
    <2>1. pc["control"] = "send" /\ pc'["control"] = "gone"
      BY <1>2, <1>6, ConstFacts DEF FailWrite, At
    <2> QED
      BY <1>1, <2>1, StreamMoves DEF PipeInv, TmpInv
  <1> QED
    BY <1>3, <1>4, <1>5, <1>6, ConstFacts

LEMMA SiteSendsStream ==
    ASSUME IInv, PipeInv, SiteSends PROVE PipeInv'
  <1>1. /\ sent' = sent + 1 /\ inq' = Append(inq, <<"site", sent + 1>>)
        /\ pc' = pc /\ tmp' = tmp /\ text' = text /\ total' = total
        /\ Shown' = Shown /\ discarded' = discarded
    BY DEF SiteSends, client, writing, history, Shown
  <1>2. Held' = Held
    BY <1>1 DEF Held
  <1>3. Passed' = Passed
    BY <1>1 DEF Passed, Counted, SiteUnits
  <1>4. /\ inq \in Seq(Unit) /\ Passed \in Nat /\ sent \in Nat
        /\ Len(Held) \in Nat /\ Len(inq) \in Nat
    BY StreamTyped DEF IInv
  <1>5. ASSUME ~discarded
        PROVE  /\ \A i \in SiteUnits(Shown, Len(Shown)) : Shown[i] = <<"site", Counted(Shown, i)>>
               /\ Passed <= sent
               /\ pc["control"] # "gone" =>
                     /\ After(Held, Passed) /\ After(inq, Passed + Len(Held))
                     /\ Passed + Len(Held) + Len(inq) = sent
    BY <1>5 DEF PipeInv, StreamInv
  <1>6. ASSUME ~discarded, pc["control"] # "gone"
        PROVE  After(inq', Passed + Len(Held)) /\ Passed + Len(Held) + Len(inq') = sent + 1
    <2> DEFINE p == Passed + Len(Held)
    <2>1. p \in Nat /\ p + Len(inq) = sent /\ After(inq, p)
      BY <1>4, <1>5, <1>6
    <2> HIDE DEF p
    <2>2. /\ Len(inq') = Len(inq) + 1 /\ inq'[Len(inq) + 1] = <<"site", sent + 1>>
          /\ \A k \in 1 .. Len(inq) : inq'[k] = inq[k]
      BY <1>1, <1>4
    <2>3. After(inq', p)
      <3> SUFFICES ASSUME NEW k \in 1 .. Len(inq) + 1 PROVE inq'[k] = <<"site", p + k>>
        BY <2>2 DEF After
      <3>1. CASE k \in 1 .. Len(inq)
        BY <2>1, <2>2, <3>1 DEF After
      <3>2. CASE k = Len(inq) + 1
        <4>1. p + k = sent + 1
          BY <1>4, <2>1, <3>2
        <4> QED
          BY <2>2, <3>2, <4>1
      <3> QED
        BY <1>4, <3>1, <3>2
    <2>4. p + Len(inq') = sent + 1
      BY <1>4, <2>1, <2>2
    <2> QED
      BY <2>3, <2>4 DEF p
  <1>7. Passed <= sent => Passed <= sent + 1
    BY <1>4
  <1>8. ~discarded =>
          /\ \A i \in SiteUnits(Shown, Len(Shown))' : Shown'[i] = <<"site", Counted(Shown', i)>>
          /\ Passed' <= sent'
          /\ pc'["control"] # "gone" =>
                /\ After(Held', Passed') /\ After(inq', Passed' + Len(Held'))
                /\ Passed' + Len(Held') + Len(inq') = sent'
    BY <1>1, <1>2, <1>3, <1>5, <1>6, <1>7 DEF SiteUnits, Counted
  <1>9. StreamInv'
    BY <1>1, <1>8 DEF StreamInv, After, Counted, SiteUnits
  <1> QED
    BY <1>1, <1>9 DEF PipeInv, TmpInv

LEMMA PipeStep ==
    ASSUME IInv, PipeInv, [Next]_vars PROVE PipeInv'
  <1>1. CASE SiteCloses \/ ClientCloses \/ UNCHANGED vars
    <2>1. /\ Shown' = Shown /\ sent' = sent /\ inq' = inq /\ discarded' = discarded
          /\ tmp' = tmp /\ text' = text /\ total' = total /\ pc' = pc
      BY <1>1 DEF SiteCloses, ClientCloses, vars, Shown, site, client, writing, history
    <2>2. Held' = Held
      BY <2>1 DEF Held
    <2> QED
      BY <2>1, <2>2, StreamMoves DEF PipeInv, TmpInv
  <1>2. CASE ClientReads
    <2>1. Shown' = Shown
      BY <1>2, ClientReadsShown
    <2>2. /\ sent' = sent /\ inq' = inq /\ discarded' = discarded
          /\ tmp' = tmp /\ text' = text /\ total' = total /\ pc' = pc
      BY <1>2 DEF ClientReads, site, writing, history
    <2>3. Held' = Held
      BY <2>2 DEF Held
    <2> QED
      BY <2>1, <2>2, <2>3, StreamMoves DEF PipeInv, TmpInv
  <1>3. CASE Reading \/ WantRead \/ InterruptRead
    BY <1>3, ReadingStream, ReceiveStream, InterruptReadStream DEF Reading
  <1>4. ASSUME NEW w \in Writers, Writing(w) \/ WantWrite(w) PROVE PipeInv'
    BY <1>4, SendStream, WriterStream DEF Writing
  <1>5. CASE SiteSends
    BY <1>5, SiteSendsStream
  <1> QED
    BY <1>1, <1>2, <1>3, <1>4, <1>5 DEF Next

-----------------------------------------------------------------------------
(* What the client got *)

\* One more unit is got.
LEMMA RankNext ==
    ASSUME IInv, RankInv, ClientReads PROVE RankInv'
  <1> DEFINE u == Head(outq)
             n == Len(got)
  <1>1. got \in Seq(Unit) /\ outq \in Seq(Unit) /\ n \in Nat
    BY DEF IInv, TypeOK
  <1>2. got' = Append(got, u) /\ u \in Unit
    BY <1>1 DEF ClientReads
  <1> HIDE DEF u
  <1>3. /\ Len(got') = n + 1 /\ got'[n + 1] = u
        /\ \A i \in 1 .. n : got'[i] = got[i]
    BY <1>1, <1>2
  <1>4. ASSUME NEW i \in 0 .. n
        PROVE  Counted(got', i) = Counted(got, i) /\ SiteUnits(got', i) = SiteUnits(got, i)
    <2>1. i \in Nat /\ \A j \in 1 .. i : got'[j] = got[j]
      BY <1>1, <1>3
    <2> QED
      BY <2>1, CountSame
  <1>5. /\ Counted(got, n) \in Nat /\ Counted(got', n) = Counted(got, n)
        /\ SiteUnits(got', n) = SiteUnits(got, n)
    BY <1>1, <1>4, CountIs
  <1>6. \A k \in 1 .. Counted(got, n) : \E i \in SiteUnits(got', n + 1) : Counted(got', i) = k
    <2> TAKE k \in 1 .. Counted(got, n)
    <2>1. PICK i \in SiteUnits(got, n) : Counted(got, i) = k
      BY DEF RankInv
    <2>2. i \in 0 .. n /\ i \in SiteUnits(got', n + 1)
      BY <1>1, <1>5, <2>1 DEF SiteUnits
    <2> QED
      BY <1>4, <2>1, <2>2
  <1>7. \A k \in 1 .. Counted(got', n + 1) : \E i \in SiteUnits(got', n + 1) : Counted(got', i) = k
    <2>1. CASE u[1] = "site"
      <3>1. Counted(got', n + 1) = Counted(got, n) + 1
        BY <1>1, <1>3, <1>5, <2>1, CountNext
      <3>2. n + 1 \in SiteUnits(got', n + 1)
        BY <1>1, <1>3, <2>1 DEF SiteUnits
      <3>3. \A k \in 1 .. Counted(got, n) + 1 :
                k \in 1 .. Counted(got, n) \/ k = Counted(got, n) + 1
        BY <1>5
      <3> QED
        BY <1>6, <3>1, <3>2, <3>3
    <2>2. CASE u[1] # "site"
      BY <1>1, <1>3, <1>5, <1>6, <2>2, CountNext
    <2> QED
      BY <2>1, <2>2
  <1> QED
    BY <1>3, <1>7 DEF RankInv, Counted, SiteUnits

\* Until something was lost, the site's part of what the client got is the first
\* units the site sent.
GotInv ==
    ~discarded =>
        /\ FromSite(got) = [k \in 1 .. Counted(got, Len(got)) |-> <<"site", k>>]
        /\ Counted(got, Len(got)) \in Nat /\ Counted(got, Len(got)) <= sent

LEMMA GotIs ==
    ASSUME TypeOK, StreamInv, RankInv PROVE GotInv
  <1> SUFFICES ASSUME ~discarded
               PROVE  /\ FromSite(got) = [k \in 1 .. Counted(got, Len(got)) |-> <<"site", k>>]
                      /\ Counted(got, Len(got)) \in Nat /\ Counted(got, Len(got)) <= sent
    BY DEF GotInv
  <1> DEFINE n == Len(got)
             m == Len(Shown)
             c == Counted(got, n)
  <1>1. /\ got \in Seq(Unit) /\ outq \in Seq(Unit) /\ Shown \in Seq(Unit)
        /\ n \in Nat /\ m \in Nat /\ Passed \in Nat /\ sent \in Nat
    BY StreamTyped
  <1>2. m = n + Len(outq) /\ \A i \in 1 .. n : Shown[i] = got[i]
    BY <1>1, Joined DEF Shown
  <1>3. n <= m
    BY <1>1, <1>2
  <1>4. ASSUME NEW i \in 0 .. n PROVE Counted(Shown, i) = Counted(got, i)
    <2>1. i \in Nat /\ \A j \in 1 .. i : Shown[j] = got[j]
      BY <1>1, <1>2
    <2> QED
      BY <2>1, CountSame
  <1>5. ASSUME NEW i \in SiteUnits(got, n) PROVE got[i] = <<"site", Counted(got, i)>>
    <2>1. i \in 1 .. n /\ i \in 0 .. n /\ got[i][1] = "site"
      BY <1>1 DEF SiteUnits
    <2>2. i \in SiteUnits(Shown, m)
      BY <1>1, <1>2, <1>3, <2>1 DEF SiteUnits
    <2> QED
      BY <1>2, <1>4, <2>1, <2>2 DEF StreamInv
  <1>6. ASSUME NEW k \in 1 .. c PROVE got[SitePlace(got, k)] = <<"site", k>>
    <2>1. \E i \in SiteUnits(got, n) : Counted(got, i) = k
      BY DEF RankInv
    <2>2. SitePlace(got, k) \in SiteUnits(got, n) /\ Counted(got, SitePlace(got, k)) = k
      BY <2>1 DEF SitePlace, Counted
    <2> QED
      BY <1>5, <2>2
  <1>7. FromSite(got) = [k \in 1 .. c |-> <<"site", k>>]
    BY <1>6 DEF FromSite, Counted
  <1>8. c \in Nat /\ c <= sent
    <2>1. c = Counted(Shown, n) /\ Counted(Shown, n) <= Passed
      BY <1>1, <1>3, <1>4, CountGrows DEF Passed
    <2>2. Passed <= sent
      BY DEF StreamInv
    <2> QED
      BY <1>1, <2>1, <2>2, CountIs
  <1> QED
    BY <1>7, <1>8

LEMMA RankStep ==
    ASSUME IInv, RankInv, [Next]_vars PROVE RankInv'
  <1>1. CASE ClientReads
    BY <1>1, RankNext
  <1>2. CASE got' = got
    BY <1>2 DEF RankInv, Counted, SiteUnits
  <1>3. ClientReads \/ got' = got
    BY DEF Next, Reading, BeginRead, Receive, FailRead, WantRead, InterruptRead, Writing,
           BeginWrite, Send, EndWrite, FailWrite, WantWrite, SiteSends, SiteCloses, ClientCloses, vars, client
  <1> QED
    BY <1>1, <1>2, <1>3

LEMMA StreamInit == Init => PipeInv /\ RankInv
  <1> SUFFICES ASSUME Init PROVE PipeInv /\ RankInv
    OBVIOUS
  <1>1. /\ tmp = <<>> /\ inq = <<>> /\ got = <<>> /\ outq = <<>> /\ sent = 0
        /\ pc["control"] = "loop"
    BY ConstFacts DEF Init
  <1>2. Shown = <<>> /\ Held = <<>>
    BY <1>1 DEF Shown, Held
  <1>3. Len(Shown) = 0 /\ Len(got) = 0 /\ Len(Held) = 0 /\ Len(inq) = 0
    BY <1>1, <1>2
  <1>4. SiteUnits(Shown, Len(Shown)) = {} /\ Passed = 0 /\ Counted(got, Len(got)) = 0
    BY <1>3, CountIs DEF SiteUnits, Passed
  <1>5. After(Held, Passed) /\ After(inq, Passed + Len(Held))
    BY <1>3 DEF After
  <1>6. StreamInv
    BY <1>1, <1>3, <1>4, <1>5 DEF StreamInv
  <1>7. RankInv
    BY <1>4 DEF RankInv
  <1> QED
    BY <1>1, <1>6, <1>7 DEF PipeInv, TmpInv

LEMMA StreamInvariant == Spec => [](IInv /\ GotInv)
  <1>1. IInv /\ PipeInv /\ RankInv /\ [Next]_vars => (IInv /\ PipeInv /\ RankInv)'
    BY NextInv, PipeStep, RankStep
  <1>2. Init => IInv /\ PipeInv /\ RankInv
    BY InitInv, StreamInit
  <1>3. IInv /\ PipeInv /\ RankInv => IInv /\ GotInv
    BY GotIs DEF IInv, PipeInv
  <1> QED
    BY <1>1, <1>2, <1>3, PTL DEF Spec

\* A step of Lines is one of the pipe, or changes neither end of it.
LEMMA PipeActs ==
    ASSUME IInv, GotInv, GotInv', [Next]_vars, ~discarded
    PROVE  Replies!Next \/ UNCHANGED <<sent, FromSite(got)>>
  <1>1. CASE SiteSends
    <2>1. sent < MaxUnits /\ sent' = sent + 1 /\ got' = got
      BY <1>1 DEF SiteSends, client
    <2>2. FromSite(got)' = FromSite(got)
      BY <2>1 DEF FromSite, SitePlace, SiteUnits
    <2> QED
      BY <2>1, <2>2 DEF Replies!Next, Replies!Send
  <1>2. CASE ClientReads
    <2> DEFINE u == Head(outq)
               n == Len(got)
               c == Counted(got, n)
    <2>1. /\ got \in Seq(Unit) /\ outq \in Seq(Unit) /\ n \in Nat /\ sent \in Nat
      BY StreamTyped DEF IInv
    <2>2. got' = Append(got, u) /\ u \in Unit /\ sent' = sent /\ ~discarded'
      BY <1>2, <2>1 DEF ClientReads, site, history
    <2> HIDE DEF u
    <2>3. /\ Len(got') = n + 1 /\ got'[n + 1] = u /\ \A i \in 1 .. n : got'[i] = got[i]
      BY <2>1, <2>2
    <2>4. Counted(got', n) = c
      BY <2>1, <2>3, CountSame
    <2>5. FromSite(got) = [k \in 1 .. c |-> <<"site", k>>] /\ c \in Nat /\ c <= sent
      BY DEF GotInv
    <2>6. /\ FromSite(got)' = [k \in 1 .. Counted(got', n + 1) |-> <<"site", k>>]
          /\ Counted(got', n + 1) <= sent
      <3>1. /\ FromSite(got)' = [k \in 1 .. Counted(got, Len(got))' |-> <<"site", k>>]
            /\ Counted(got, Len(got))' <= sent'
        BY <2>2 DEF GotInv
      <3> QED
        BY <2>2, <2>3, <3>1 DEF Counted, SiteUnits
    <2>7. Counted(got', n + 1) = c \/ Counted(got', n + 1) = c + 1
      BY <2>1, <2>4, CountNext
    <2>8. CASE Counted(got', n + 1) = c
      BY <2>2, <2>5, <2>6, <2>8
    <2>9. CASE Counted(got', n + 1) = c + 1
      <3> HIDE DEF c
      <3> DEFINE f == [k \in 1 .. c |-> <<"site", k>>]
                 g == [k \in 1 .. c + 1 |-> <<"site", k>>]
      <3>1. f \in Seq({"site"} \X Nat) /\ Len(f) = c
        BY <2>5
      <3>2. g = Append(f, <<"site", c + 1>>)
        BY <2>5
      <3>3. c < sent
        BY <2>1, <2>5, <2>6, <2>9
      <3>4. FromSite(got)' = Append(FromSite(got), <<"site", Len(FromSite(got)) + 1>>)
        BY <2>5, <2>6, <2>9, <3>1, <3>2
      <3> QED
        BY <2>2, <2>5, <3>1, <3>3, <3>4 DEF Replies!Next, Replies!Deliver
    <2> QED
      BY <2>7, <2>8, <2>9
  <1>3. CASE UNCHANGED <<sent, got>>
    BY <1>3 DEF FromSite, SitePlace, SiteUnits
  <1>4. SiteSends \/ ClientReads \/ UNCHANGED <<sent, got>>
    BY DEF Next, Reading, BeginRead, Receive, FailRead, WantRead, InterruptRead, Writing,
           BeginWrite, Send, EndWrite, FailWrite, WantWrite, SiteCloses, ClientCloses, vars, site, client
  <1> QED
    BY <1>1, <1>2, <1>3, <1>4

\* The client gets the site's replies as from a pipe, whatever the sizes, over
\* short reads and writes, blocks, retries, signals and TLS, and between the
\* blocks of the data thread's notice, until a read gave up half a line.
THEOREM RepliesAsPipe == Spec => RepliesArePipe
  <1>1. Init => Replies!Init
    <2> SUFFICES ASSUME Init PROVE Replies!Init
      OBVIOUS
    <2>1. got = <<>> /\ sent = 0
      BY DEF Init
    <2>2. Counted(got, Len(got)) = 0
      BY <2>1, CountIs
    <2>3. FromSite(got) = <<>>
      BY <2>2 DEF FromSite, Counted
    <2> QED
      BY <2>1, <2>3 DEF Replies!Init
  <1>2. (IInv /\ GotInv) /\ (IInv /\ GotInv)' /\ [Next]_vars
        => [discarded \/ Replies!Next]_<<sent, FromSite(got)>>
    BY PipeActs
  <1> QED
    BY <1>1, <1>2, StreamInvariant, PTL DEF Spec, RepliesArePipe
=============================================================================
