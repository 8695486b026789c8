-------------------------------- MODULE Lines --------------------------------
(***************************************************************************)
(* The control connections byte by byte: control_read puts lines together  *)
(* from what recv or SSL_read find, control_write sends them on in blocks, *)
(* each under rwlock.  The control thread passes the site's replies to the *)
(* client, the data thread writes a notice of its own to the same client,  *)
(* and SIGHUP may interrupt the select of either.                          *)
(*                                                                         *)
(* Units stand for bytes, and correctReply, which puts the missing \r      *)
(* before an \n, is left out.  inq, pending, outq and got are as in Relay. *)
(***************************************************************************)
EXTENDS Integers, Sequences, SequencesExt

CONSTANTS
    BufferSize,   \* config.buffersize
    RetryCount,   \* config.retry_count
    Window,       \* what a socket takes before a send blocks
    Ends,         \* the units of the site that end a line
    Notice,       \* the length of the notice
    MaxUnits,     \* how much the site sends at most
    MaxSignals    \* SIGHUPs

Writers == {"control", "data"}
Free    == "free"

ASSUME LinesAssumption ==
    /\ BufferSize \in Nat \ {0} /\ Window \in Nat \ {0} /\ Notice \in Nat \ {0}
    /\ RetryCount \in Nat /\ MaxUnits \in Nat /\ MaxSignals \in Nat
    /\ Ends \subseteq Nat

VARIABLES
    tlsSite, tlsClient,       \* TLS on the control connection of each
    sent, inq, pending, eof,  \* of the site; eof, it has closed
    outq, got, up,            \* of the client; up, it has not closed
    rwlock,
    pc, tmp,                  \* of the writers, the string of control_read
    text, total, count,       \* of control_write in each writer
    signals,
    cut, discarded            \* history: a read or write was cut, a read lost something

conns   == <<tlsSite, tlsClient>>
site    == <<sent, inq, pending, eof>>
client  == <<outq, got, up>>
writing == <<text, total, count>>
history == <<signals, cut, discarded>>
vars    == <<conns, site, client, rwlock, pc, tmp, writing, history>>

At(w, from, to) == pc[w] = from /\ pc' = [pc EXCEPT ![w] = to]
Unlock          == rwlock' = Free

-----------------------------------------------------------------------------
(* control_read, in TryRead of the control thread                          *)

EndsLine(u) == u[2] \in Ends

\* what select sees: not what is left of a record
Readable == Len(inq) > pending \/ eof

\* the select of mainloop says that there is something; TryRead locks
BeginRead ==
    /\ Readable
    /\ At("control", "loop", "read")
    /\ rwlock = Free /\ rwlock' = "control"
    /\ tmp' = <<>>
    /\ UNCHANGED <<conns, site, client, writing, history>>

\* control_read returns 1, and the reply is written to the client
Return(s) ==
    /\ At("control", "read", "write")
    /\ Unlock
    /\ text' = [text EXCEPT !["control"] = s]
    /\ total' = [total EXCEPT !["control"] = 0]
    /\ UNCHANGED count

\* a short read that ends with \n ends the string
Complete(n, s) == n < BufferSize /\ EndsLine(Last(s))

\* one recv or SSL_read finds what has arrived, a record or the rest of one
Found == IF pending > 0 THEN {pending} ELSE 1 .. Len(inq)

Receive ==
    /\ pc["control"] = "read" /\ Readable /\ inq # <<>>
    /\ \E r \in Found :
          LET n == IF r < BufferSize THEN r ELSE BufferSize
              s == tmp \o SubSeq(inq, 1, n)
          IN  /\ inq' = SubSeq(inq, n + 1, Len(inq))
              /\ pending' = IF tlsSite THEN r - n ELSE 0
              /\ IF Complete(n, s)
                 THEN Return(s) /\ tmp' = <<>>
                 ELSE tmp' = s /\ UNCHANGED <<pc, rwlock, writing>>
    /\ UNCHANGED <<conns, sent, eof, client, history>>

\* SSL_ERROR_WANT_...: control_read returns 2, and mainloop begins again
WantRead ==
    /\ tlsSite /\ RetryCount # 0
    /\ Len(inq) > pending
    /\ At("control", "read", "loop")
    /\ Unlock
    /\ discarded' = (discarded \/ tmp # <<>>) /\ tmp' = <<>>
    /\ UNCHANGED <<conns, site, client, writing, signals, cut>>

\* select returns -1: what there is is returned as if it were complete
InterruptRead ==
    /\ signals < MaxSignals /\ signals' = signals + 1
    /\ Return(tmp) /\ tmp' = <<>>
    /\ cut' = TRUE
    /\ UNCHANGED <<conns, site, client, discarded>>

\* Mutant: TryRead returns with the lock held
FailUnlockMutant == UNCHANGED rwlock

FailUnlock == Unlock

\* a timeout, EOF or an error: control_read returns 0, mainloop returns
FailRead ==
    /\ \/ ~Readable
       \/ inq = <<>>
       \/ tlsSite
    /\ At("control", "read", "gone")
    /\ FailUnlock
    /\ tmp' = <<>>
    /\ UNCHANGED <<conns, site, client, writing, history>>

-----------------------------------------------------------------------------
(* control_write, in Write of either thread                                *)

\* Mutant: nobody looks at rwlock
MayWriteMutant(w) == rwlock' = w

MayWrite(w) == rwlock = Free /\ rwlock' = w

BeginWrite(w) ==
    /\ At(w, "write", "send")
    /\ MayWrite(w)
    /\ count' = [count EXCEPT ![w] = 0]
    /\ UNCHANGED <<conns, site, client, tmp, text, total, history>>

Left(w) == Len(text[w]) - total[w]

\* a block is buffersize at most
Block(w) == IF Left(w) > BufferSize THEN BufferSize ELSE Left(w)

\* Mutant: the rest of a block that was sent in part is skipped
AdvancedMutant(w, n) == total[w] + Block(w)

Advanced(w, n) == total[w] + n

\* send or SSL_write of a block takes some of it; a full socket is waited
\* for, for ever
Send(w) ==
    /\ pc[w] = "send"
    /\ \E n \in 1 .. Block(w) :
          /\ Len(outq) + n <= Window
          /\ outq' = outq \o SubSeq(text[w], total[w] + 1, total[w] + n)
          /\ total' = [total EXCEPT ![w] = Advanced(w, n)]
    /\ UNCHANGED <<conns, site, got, up, rwlock, pc, tmp, text, count, history>>

MayRetry(w) == count[w] < RetryCount

\* SSL_ERROR_WANT_...
WantWrite(w) ==
    /\ pc[w] = "send" /\ Left(w) > 0
    /\ tlsClient /\ Len(outq) < Window /\ MayRetry(w)
    /\ count' = [count EXCEPT ![w] = @ + 1]
    /\ UNCHANGED <<conns, site, client, rwlock, pc, tmp, text, total, history>>

\* control_write returns 1
EndWrite(w) ==
    /\ Left(w) = 0
    /\ At(w, "send", IF w = "control" THEN "loop" ELSE "gone")
    /\ Unlock
    /\ UNCHANGED <<conns, site, client, tmp, writing, history>>

\* an error, or SIGHUP in select: control_write returns 0 and so does Write
FailWrite(w) ==
    /\ Left(w) > 0
    /\ \/ (~up \/ tlsClient) /\ UNCHANGED signals
       \/ signals < MaxSignals /\ signals' = signals + 1
    /\ At(w, "send", "gone")
    /\ Unlock
    /\ cut' = TRUE
    /\ UNCHANGED <<conns, site, client, tmp, writing, discarded>>

-----------------------------------------------------------------------------
(* The peers *)

SiteSends ==
    /\ ~eof /\ sent < MaxUnits
    /\ sent' = sent + 1
    /\ inq' = Append(inq, <<"site", sent + 1>>)
    /\ UNCHANGED <<conns, pending, eof, client, rwlock, pc, tmp, writing, history>>

SiteCloses ==
    /\ ~eof /\ eof' = TRUE
    /\ UNCHANGED <<conns, sent, inq, pending, client, rwlock, pc, tmp, writing, history>>

ClientReads ==
    /\ up /\ outq # <<>>
    /\ got' = Append(got, Head(outq)) /\ outq' = Tail(outq)
    /\ UNCHANGED <<conns, site, up, rwlock, pc, tmp, writing, history>>

ClientCloses ==
    /\ up /\ up' = FALSE
    /\ UNCHANGED <<conns, site, outq, got, rwlock, pc, tmp, writing, history>>

Init ==
    /\ tlsSite \in BOOLEAN /\ tlsClient \in BOOLEAN
    /\ sent = 0 /\ inq = <<>> /\ pending = 0 /\ eof = FALSE
    /\ outq = <<>> /\ got = <<>> /\ up = TRUE
    /\ rwlock = Free
    /\ pc = [w \in Writers |-> IF w = "control" THEN "loop" ELSE "write"]
    /\ tmp = <<>>
    /\ text = [w \in Writers |->
                  IF w = "data" THEN [i \in 1 .. Notice |-> <<"data", i>>] ELSE <<>>]
    /\ total = [w \in Writers |-> 0] /\ count = [w \in Writers |-> 0]
    /\ signals = 0 /\ cut = FALSE /\ discarded = FALSE

Reading    == BeginRead \/ Receive \/ FailRead
Writing(w) == BeginWrite(w) \/ Send(w) \/ EndWrite(w) \/ FailWrite(w)
Next ==
    \/ Reading \/ WantRead \/ InterruptRead
    \/ \E w \in Writers : Writing(w) \/ WantWrite(w)
    \/ SiteSends \/ SiteCloses \/ ClientReads \/ ClientCloses

Spec == Init /\ [][Next]_vars

(* A thread that can go on does, its timeouts are steps of it, and the     *)
(* client reads what it gets until it closes.                              *)
FairSpec ==
    /\ Spec
    /\ WF_vars(Reading) /\ \A w \in Writers : WF_vars(Writing(w))
    /\ WF_vars(ClientReads)

-----------------------------------------------------------------------------
(* Properties                                                              *)

Unit == {"site", "data"} \X Nat

\* Every variable has its type.
TypeOK ==
    /\ tlsSite \in BOOLEAN /\ tlsClient \in BOOLEAN
    /\ sent \in 0 .. MaxUnits /\ inq \in Seq(Unit) /\ pending \in 0 .. Len(inq)
    /\ eof \in BOOLEAN /\ up \in BOOLEAN
    /\ outq \in Seq(Unit) /\ got \in Seq(Unit)
    /\ rwlock \in Writers \cup {Free}
    /\ pc \in [Writers -> {"loop", "read", "write", "send", "gone"}]
    /\ tmp \in Seq(Unit) /\ text \in [Writers -> Seq(Unit)]
    /\ total \in [Writers -> Nat] /\ \A w \in Writers : total[w] <= Len(text[w])
    /\ count \in [Writers -> 0 .. RetryCount]
    /\ signals \in 0 .. MaxSignals /\ cut \in BOOLEAN /\ discarded \in BOOLEAN

\* what the client has got or will get
Shown == got \o outq

\* Two threads write to the client, but a line is never broken by a line of the
\* other, neither in the middle of what control_write sends in blocks nor
\* because control_read returned half of it; unless a signal or an error cut a
\* read or a write of this connection.  All variables keep their types.
LinesWhole ==
    /\ TypeOK
    /\ ~cut =>
       \A i \in 1 .. Len(Shown) - 1 :
          \/ Shown[i][1] = Shown[i + 1][1]
          \/ Shown[i][1] = "site" /\ EndsLine(Shown[i])
          \/ Shown[i] = <<"data", Notice>>

\* The site's units are taken out of s: where they are in the first n, where the
\* k-th of them is.
SiteUnits(s, n) == {i \in 1 .. n : s[i][1] = "site"}
SitePlace(s, k) == CHOOSE i \in SiteUnits(s, Len(s)) : Cardinality(SiteUnits(s, i)) = k
FromSite(s) == [k \in 1 .. Cardinality(SiteUnits(s, Len(s))) |-> s[SitePlace(s, k)]]

\* The client gets what the site sent, in order, nothing twice and nothing left
\* out, over short reads, short writes, blocks and retries, unless a read gave
\* up half a line.
Replies == INSTANCE Pipe WITH Sender <- "site", rcvd <- FromSite(got)
RepliesArePipe ==
    Replies!Init /\ [][discarded \/ Replies!Next]_<<sent, FromSite(got)>>

\* Whoever takes rwlock gives it back, if the client reads or closes: a silent
\* site, half a line or a full buffer never keep the other thread from the
\* client for good.
LockComesBack == \A w \in Writers : rwlock = w ~> rwlock # w
=============================================================================
