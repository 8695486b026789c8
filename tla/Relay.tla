-------------------------------- MODULE Relay --------------------------------
(***************************************************************************)
(* The copy loops at the end of CDataThread::dataloop: the select loop,    *)
(* which serves both directions, and the loop of speed_write, which serves *)
(* one, with DataRead and DataWrite, SRead and SWrite.                     *)
(*                                                                         *)
(* Both data sockets are blocking.  inq is what has arrived from a peer    *)
(* and outq what waits in the socket towards it, Window units at most.     *)
(*                                                                         *)
(* The select loop goes through all its rounds before it reads: it stops   *)
(* early only when both sockets are readable.  A TLS side is read record   *)
(* by record, and select does not see what is left of a record when it is  *)
(* larger than the buffer.                                                 *)
(***************************************************************************)
EXTENDS Naturals, Sequences, FiniteSets

CONSTANTS
    BufferSize,   \* config.buffersize
    Window,       \* what a socket takes before a send blocks
    Rounds,       \* config.read_write_timeout * 2
    RetryCount,   \* config.retry_count
    Tls,          \* the sides with TLS on the data connection
    MaxUnits      \* how much a side sends at most

Sides    == {"site", "client"}
Other(s) == IF s = "site" THEN "client" ELSE "site"

ASSUME RelayAssumption ==
    /\ BufferSize \in Nat \ {0} /\ Window \in Nat \ {0} /\ Rounds \in Nat \ {0}
    /\ RetryCount \in Nat /\ MaxUnits \in Nat
    /\ Tls \subseteq Sides

VARIABLES
    speed, source,           \* speed_write, and which side it reads
    sent, inq, closed,       \* per side: units sent, what has arrived, EOF behind it
    pending,                 \* per side: how much of inq the TLS layer holds
    outq, got,               \* per side: in the socket to it, what it has read
    quit,                    \* shouldquit
    pc, ready, round,        \* the loop, the result of select
    from, buffer, total,     \* which side was read, what, how much of it is written
    count,                   \* retries of this read or write
    reason,                  \* why the loop was left (history)
    late                     \* reads begun after shouldquit was set (history)

streams == <<sent, inq, pending, closed, got>>
config  == <<speed, source>>
loop    == <<pc, ready, round, from, buffer, total, count, reason, late>>
vars    == <<config, streams, outq, quit, loop>>

to         == Other(from)
Room(s)    == Len(outq[s]) < Window
Min2(a, b) == IF a < b THEN a ELSE b

\* what select sees: not the rest of a TLS record that is already decrypted
Readable(s) == Len(inq[s]) > pending[s] \/ closed[s]

\* how much one recv or SSL_read finds: what has arrived, the record, or the
\* rest of a record
Found(s) == IF pending[s] > 0 THEN {pending[s]} ELSE 1 .. Len(inq[s])

\* closeconnection
Close(why) == pc' = "closed" /\ reason' = why

-----------------------------------------------------------------------------
(* The loops *)

\* Mutant: the test of the quit flag is gone
EnterLoopMutant ==
    /\ pc = "loop"
    /\ IF speed THEN pc' = "read" /\ from' = source
       ELSE pc' = "select" /\ UNCHANGED from
    /\ round' = 0 /\ count' = 0
    /\ late' = IF speed /\ quit THEN late + 1 ELSE late
    /\ UNCHANGED <<config, streams, outq, quit, ready, buffer, total, reason>>

\* while(!getQuit())
EnterLoop ==
    /\ pc = "loop"
    /\ IF quit
       THEN Close("quit") /\ UNCHANGED from
       ELSE /\ UNCHANGED reason
            /\ IF speed THEN pc' = "read" /\ from' = source
               ELSE pc' = "select" /\ UNCHANGED from
    /\ round' = 0 /\ count' = 0
    /\ UNCHANGED <<config, streams, outq, quit, ready, buffer, total, late>>

\* Mutant: a select that times out does not count as a round
SelectMutant ==
    /\ pc = "select"
    /\ ready' = {s \in Sides : Readable(s)}
    /\ \/ /\ Cardinality(ready') > 1
          /\ pc' = "pick"
          /\ UNCHANGED <<round, reason>>
       \/ /\ Cardinality(ready') <= 1
          /\ IF quit THEN Close("quit") /\ UNCHANGED round
             ELSE /\ round' = IF ready' = {} THEN round ELSE round + 1
                  /\ pc' = IF round' = Rounds THEN "pick" ELSE "select"
                  /\ UNCHANGED reason
    /\ UNCHANGED <<config, streams, outq, quit, from, buffer, total, count, late>>

\* one round of the for loop
Select ==
    /\ pc = "select"
    /\ ready' = {s \in Sides : Readable(s)}
    /\ \/ /\ Cardinality(ready') > 1
          /\ pc' = "pick"
          /\ UNCHANGED <<round, reason>>
       \/ /\ Cardinality(ready') <= 1
          /\ IF quit THEN Close("quit") /\ UNCHANGED round
             ELSE /\ round' = round + 1
                  /\ pc' = IF round' = Rounds THEN "pick" ELSE "select"
                  /\ UNCHANGED reason
    /\ UNCHANGED <<config, streams, outq, quit, from, buffer, total, count, late>>

\* FD_ISSET: the site first, nobody is a timeout
PickSide ==
    /\ pc = "pick"
    /\ IF ready = {}
       THEN Close("timeout") /\ UNCHANGED <<from, late>>
       ELSE /\ from' = IF "site" \in ready THEN "site" ELSE "client"
            /\ pc' = "read"
            /\ late' = IF quit THEN late + 1 ELSE late
            /\ UNCHANGED reason
    /\ count' = 0
    /\ UNCHANGED <<config, streams, outq, quit, ready, round, buffer, total>>

\* what a read takes off the socket or the record
Take(r) ==
    LET n == Min2(BufferSize, r)
    IN  /\ buffer'  = SubSeq(inq[from], 1, n)
        /\ inq'     = [inq EXCEPT ![from] = SubSeq(@, n + 1, Len(@))]
        /\ pending' = [pending EXCEPT ![from] = IF from \in Tls THEN r - n ELSE 0]
        /\ pc'      = IF speed THEN "send" ELSE "write"
        /\ total'   = 0 /\ count' = 0
        /\ UNCHANGED reason

\* Mutant: the retries of a read are not counted against the limit
ReadMutant ==
    /\ pc = "read"
    /\ \/ \E r \in Found(from) : Take(r)
       \/ /\ inq[from] = <<>> /\ closed[from]
          /\ Close("eof")
          /\ UNCHANGED <<inq, pending, buffer, total, count>>
       \/ /\ from \in Tls /\ inq[from] # <<>>
          /\ count' = count + 1
          /\ UNCHANGED <<pc, reason, inq, pending, buffer, total>>
    /\ UNCHANGED <<config, sent, closed, got, outq, quit, ready, round, from, late>>

\* Mutant: the EOF is seen before the data
ReadEofMutant ==
    /\ pc = "read"
    /\ \/ \E r \in Found(from) : ~closed[from] /\ Take(r)
       \/ /\ closed[from]
          /\ Close("eof")
          /\ UNCHANGED <<inq, pending, buffer, total, count>>
    /\ UNCHANGED <<config, sent, closed, got, outq, quit, ready, round, from, late>>

\* DataRead and SRead: recv or SSL_read
Read ==
    /\ pc = "read"
    /\ \/ \E r \in Found(from) : Take(r)
       \/ /\ inq[from] = <<>> /\ closed[from]
          /\ Close("eof")
          /\ UNCHANGED <<inq, pending, buffer, total, count>>
       \/ /\ closed[from] \/ (from \in Tls /\ inq[from] # <<>>)
          /\ Close("fail")                      \* reset, or a TLS error
          /\ UNCHANGED <<inq, pending, buffer, total, count>>
       \/ /\ from \in Tls /\ inq[from] # <<>>   \* SSL_ERROR_WANT_...
          /\ count < RetryCount
          /\ count' = count + 1
          /\ UNCHANGED <<pc, reason, inq, pending, buffer, total>>
    /\ UNCHANGED <<config, sent, closed, got, outq, quit, ready, round, from, late>>

\* the select at the head of DataWrite
AwaitWritable ==
    /\ pc = "write"
    /\ \/ /\ Room(to) \/ closed[to]
          /\ pc' = "send"
          /\ UNCHANGED reason
       \/ Close("timeout")
    /\ UNCHANGED <<config, streams, outq, quit, ready, round, from, buffer, total,
                   count, late>>

\* how many units one send or SSL_write takes, none when the socket is full
Takes == 1 .. Min2(Len(buffer) - total, Window - Len(outq[to]))

\* n units of the buffer after the first k go into the socket
Put(k, n) ==
    /\ outq' = [outq EXCEPT ![to] = @ \o SubSeq(buffer, k + 1, k + n)]
    /\ UNCHANGED <<count, reason>>

\* Mutant: a short write counts as a complete one
SendMutant ==
    /\ pc = "send"
    /\ \/ \E n \in Takes :
             /\ Put(total, n)
             /\ total' = Len(buffer) /\ pc' = "loop"
       \/ /\ closed[to]
          /\ Close("fail")
          /\ UNCHANGED <<outq, total, count>>
    /\ UNCHANGED <<config, streams, quit, ready, round, from, buffer, late>>

\* Mutant: a retry starts at the head of the buffer
SendAgainMutant ==
    /\ pc = "send"
    /\ \/ \E n \in Takes :
             /\ Put(0, n)
             /\ total' = total + n
             /\ pc' = IF total' = Len(buffer) THEN "loop" ELSE "send"
       \/ /\ closed[to]
          /\ Close("fail")
          /\ UNCHANGED <<outq, total, count>>
    /\ UNCHANGED <<config, streams, quit, ready, round, from, buffer, late>>

\* DataWrite and SWrite: send or SSL_write until the buffer is written.  A
\* full socket blocks it.
Send ==
    /\ pc = "send"
    /\ \/ \E n \in Takes :
             /\ Put(total, n)
             /\ total' = total + n
             /\ pc' = IF total' = Len(buffer) THEN "loop" ELSE "send"
       \/ /\ closed[to] \/ (to \in Tls /\ Room(to))
          /\ Close("fail")
          /\ UNCHANGED <<outq, total, count>>
       \/ /\ to \in Tls /\ Room(to) /\ count < RetryCount
          /\ count' = count + 1
          /\ UNCHANGED <<pc, reason, outq, total>>
    /\ UNCHANGED <<config, streams, quit, ready, round, from, buffer, late>>

CopyNext ==
    EnterLoop \/ Select \/ PickSide \/ Read \/ AwaitWritable \/ Send

-----------------------------------------------------------------------------
(* The peers and the control thread *)

PeerSends(s) ==
    /\ ~closed[s] /\ sent[s] < MaxUnits /\ pc # "closed"
    /\ sent' = [sent EXCEPT ![s] = @ + 1]
    /\ inq'  = [inq EXCEPT ![s] = Append(@, <<s, sent[s] + 1>>)]
    /\ UNCHANGED <<config, pending, closed, got, outq, quit, loop>>

PeerCloses(s) ==
    /\ ~closed[s] /\ pc # "closed"
    /\ closed' = [closed EXCEPT ![s] = TRUE]
    /\ UNCHANGED <<config, sent, inq, pending, got, outq, quit, loop>>

\* what is in the socket still arrives when the bouncer has closed its end
PeerReads(s) ==
    /\ ~closed[s] /\ outq[s] # <<>>
    /\ got'  = [got EXCEPT ![s] = Append(@, Head(outq[s]))]
    /\ outq' = [outq EXCEPT ![s] = Tail(@)]
    /\ UNCHANGED <<config, sent, inq, pending, closed, quit, loop>>

\* ... unless a socket is closed before all that came from its peer is read
SocketReset(s) ==
    /\ pc = "closed" /\ inq[s] # <<>> /\ outq[s] # <<>>
    /\ outq' = [outq EXCEPT ![s] = <<>>]
    /\ UNCHANGED <<config, streams, quit, loop>>

\* deletedatathread
SetQuit ==
    /\ ~quit /\ pc # "closed"
    /\ quit' = TRUE
    /\ UNCHANGED <<config, streams, outq, loop>>

PeersNext ==
    \/ SetQuit
    \/ \E s \in Sides : PeerSends(s) \/ PeerCloses(s) \/ PeerReads(s) \/ SocketReset(s)

Init ==
    /\ speed \in BOOLEAN /\ source \in Sides
    /\ sent = [s \in Sides |-> 0] /\ closed = [s \in Sides |-> FALSE]
    /\ inq = [s \in Sides |-> <<>>] /\ outq = [s \in Sides |-> <<>>]
    /\ got = [s \in Sides |-> <<>>] /\ pending = [s \in Sides |-> 0]
    /\ quit = FALSE
    /\ pc = "loop" /\ ready = {} /\ round = 0
    /\ from = "site" /\ buffer = <<>> /\ total = 0 /\ count = 0
    /\ reason = "none" /\ late = 0

Terminated == pc = "closed" /\ UNCHANGED vars

Next == CopyNext \/ PeersNext \/ Terminated
Spec == Init /\ [][Next]_vars

\* The thread runs when it can.  Its timeouts are steps of it.
FairSpec == Spec /\ WF_vars(CopyNext)
\* The peers read what is in the socket to them, until they close.
ReadersSpec == FairSpec /\ \A s \in Sides : WF_vars(PeerReads(s))

-----------------------------------------------------------------------------
(* Properties *)

Unit == Sides \X Nat

\* Every variable has its type.
TypeOK ==
    /\ speed \in BOOLEAN /\ source \in Sides /\ quit \in BOOLEAN
    /\ sent \in [Sides -> 0 .. MaxUnits] /\ closed \in [Sides -> BOOLEAN]
    /\ inq \in [Sides -> Seq(Unit)] /\ outq \in [Sides -> Seq(Unit)]
    /\ got \in [Sides -> Seq(Unit)] /\ pending \in [Sides -> Nat]
    /\ pc \in {"loop", "select", "pick", "read", "write", "send", "closed"}
    /\ ready \subseteq Sides /\ round \in 0 .. Rounds
    /\ from \in Sides /\ buffer \in Seq(Unit) /\ total \in 0 .. Len(buffer)
    /\ count \in 0 .. RetryCount /\ late \in Nat
    /\ reason \in {"none", "quit", "timeout", "eof", "fail"}

\* what has been read from s and not yet written
Unwritten(s) == IF from = s THEN Len(buffer) - total ELSE 0

\* Nothing is doubled, reordered or left out: what s has sent is, in this
\* order, in the other peer, the socket to it, the buffer and the socket from
\* s.  A reset empties the second.
Conserved ==
    \A s \in Sides :
        LET o == Other(s)
            g == Len(got[o])   q == Len(outq[o])   b == Unwritten(s)
        IN  /\ g + q <= sent[s]
            /\ \A k \in 1 .. g : got[o][k] = <<s, k>>
            /\ \A k \in 1 .. q : outq[o][k] = <<s, g + k>>
            /\ pc # "closed" =>
                 /\ g + q + b + Len(inq[s]) = sent[s]
                 /\ \A k \in 1 .. b : buffer[total + k] = <<s, g + q + k>>
                 /\ \A k \in 1 .. Len(inq[s]) : inq[s][k] = <<s, g + q + b + k>>

\* A transfer that ends with the sender's EOF has all of its data in the
\* receiver or in the socket to it, unless that socket was reset.
EofComplete ==
    pc = "closed" /\ reason = "eof" =>
        \/ Len(got[to]) + Len(outq[to]) = sent[from]
        \/ inq[to] # <<>>

\* When the control thread has set the quit flag the loop reads at most once
\* more before deletedatathread can join it.
QuitStopsReading == late <= 1

\* README.md: "read/write timeout in seconds".  A transfer whose peers are
\* silent ends by itself; speed_write has no timeout.
TransferTimesOut == ~speed ~> pc = "closed"

\* Each direction is a pipe: over short reads and writes, retries and TLS
\* records a peer gets what the other one sent, in order and once.
Download == INSTANCE Pipe WITH Sender <- "site", sent <- sent["site"], rcvd <- got["client"]
Upload   == INSTANCE Pipe WITH Sender <- "client", sent <- sent["client"], rcvd <- got["site"]
DownloadIsPipe == Download!Spec
UploadIsPipe   == Upload!Spec
BothArePipes   == DownloadIsPipe /\ UploadIsPipe
=============================================================================
