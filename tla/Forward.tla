------------------------------- MODULE Forward -------------------------------
(***************************************************************************)
(* The forwarder of an entry server (CForward): a listener, and a thread   *)
(* with a CFwData for each connection, which copies between the client and *)
(* the bouncer behind it.  All of them share the descriptors of the        *)
(* process: what a thread calls its socket is a number, and it is the      *)
(* order of the close and socket calls of all threads that says what this  *)
(* number means.                                                           *)
(*                                                                         *)
(* An endpoint <<c, s>> is the peer on side s of connection c; inq, outq,  *)
(* closed and got are as in Relay.                                         *)
(***************************************************************************)
EXTENDS Integers, Sequences

CONSTANTS
    Conns,        \* the connections, each with a CFwData of its own
    MaxFd,        \* the descriptors are 0 .. MaxFd
    BufferSize,   \* config.buffersize
    Window,       \* what a socket takes before a send blocks
    MaxUnits      \* how much each peer sends at most

Fds      == 0 .. MaxFd
Sides    == {"site", "client"}
Ends     == Conns \X Sides
Nothing  == <<"nothing", "nothing">>
Other(s) == IF s = "site" THEN "client" ELSE "site"

ASSUME ForwardAssumption ==
    /\ MaxFd \in Nat /\ MaxUnits \in [Ends -> Nat]
    /\ BufferSize \in Nat \ {0} /\ Window \in Nat \ {0}
    /\ "nothing" \notin Conns

VARIABLES
    file,                      \* what a descriptor is
    sock,                      \* client_sock and server_sock of each CFwData
    pc, ready, from, buffer,   \* of its thread
    sent, inq, closed,         \* of the endpoints
    outq, got,
    wild                       \* history: the listener closed what is not its own

loop    == <<pc, ready, from, buffer>>
streams == <<sent, inq, closed, outq, got>>
vars    == <<file, sock, loop, streams, wild>>

Goto(c, to)     == pc' = [pc EXCEPT ![c] = to]
At(c, here, to) == pc[c] = here /\ Goto(c, to)

\* what the thread of c reaches through its socket for side s
Sock(c, s) == sock[<<c, s>>]
File(c, s) == IF Sock(c, s) = -1 THEN Nothing ELSE file[Sock(c, s)]

\* accept and socket take the lowest free descriptor
Lowest(fd) == file[fd] = Nothing /\ \A lower \in 0 .. fd - 1 : file[lower] # Nothing

-----------------------------------------------------------------------------
(* The listener                                                            *)

\* Accept and new CFwData
AcceptConn(c) ==
    /\ At(c, "none", "new")
    /\ \E fd \in Fds :
          /\ Lowest(fd)
          /\ file' = [file EXCEPT ![fd] = <<c, "client">>]
          /\ sock' = [sock EXCEPT ![<<c, "client">>] = fd]
    /\ UNCHANGED <<ready, from, buffer, streams, wild>>

\* pthread_create; without a thread the listener deletes the object, whose
\* server_sock is what new found in the memory
CreateThread(c) ==
    /\ pc[c] = "new"
    /\ \/ Goto(c, "socket") /\ UNCHANGED sock
       \/ /\ Goto(c, "delete")
          /\ \E garbage \in Fds \cup {-1} : sock' = [sock EXCEPT ![<<c, "site">>] = garbage]
    /\ UNCHANGED <<file, ready, from, buffer, streams, wild>>

-----------------------------------------------------------------------------
(* CFwData::mainloop                                                       *)

OpenSite(c) ==
    /\ pc[c] = "socket"
    /\ \/ \E fd \in Fds :
             /\ Lowest(fd)
             /\ file' = [file EXCEPT ![fd] = <<c, "site">>]
             /\ sock' = [sock EXCEPT ![<<c, "site">>] = fd]
             /\ Goto(c, "connect")
       \/ /\ \A fd \in Fds : file[fd] # Nothing
          /\ sock' = [sock EXCEPT ![<<c, "site">>] = -1]
          /\ Goto(c, "close")
          /\ UNCHANGED file
    /\ UNCHANGED <<ready, from, buffer, streams, wild>>

\* Bind and Connect
ConnectSite(c) ==
    /\ pc[c] = "connect"
    /\ Goto(c, "select") \/ Goto(c, "close")
    /\ UNCHANGED <<file, sock, ready, from, buffer, streams, wild>>

Readable(e) == inq[e] # <<>> \/ closed[e]

\* select: one with a closed descriptor fails, one that finds nothing times out
Select(c) ==
    /\ pc[c] = "select"
    /\ ready' = [ready EXCEPT ![c] =
           {s \in Sides : File(c, s) # Nothing /\ Readable(File(c, s))}]
    /\ IF ready'[c] = {} \/ \E s \in Sides : File(c, s) = Nothing
       THEN Goto(c, "close") ELSE Goto(c, "pick")
    /\ UNCHANGED <<file, sock, from, buffer, streams, wild>>

\* FD_ISSET: the site, then the client, in the same round
PickSide(c) ==
    /\ pc[c] = "pick"
    /\ \/ /\ ready[c] = {} /\ Goto(c, "select")
          /\ UNCHANGED <<ready, from>>
       \/ \E s \in ready[c] :
             /\ s = "client" => "site" \notin ready[c]
             /\ from' = [from EXCEPT ![c] = s]
             /\ ready' = [ready EXCEPT ![c] = @ \ {s}]
             /\ Goto(c, "read")
    /\ UNCHANGED <<file, sock, buffer, streams, wild>>

\* DataRead: one recv, which waits for data if there is none
Read(c) ==
    /\ pc[c] = "read"
    /\ LET e == File(c, from[c])
       IN  \/ \E n \in 1 .. BufferSize :
                 /\ e # Nothing /\ n <= Len(inq[e])
                 /\ buffer' = [buffer EXCEPT ![c] = SubSeq(inq[e], 1, n)]
                 /\ inq' = [inq EXCEPT ![e] = SubSeq(@, n + 1, Len(@))]
                 /\ Goto(c, "write")
           \/ /\ e # Nothing => inq[e] = <<>> /\ closed[e]
              /\ Goto(c, "close")
              /\ UNCHANGED <<buffer, inq>>
    /\ UNCHANGED <<file, sock, ready, from, sent, closed, outq, got, wild>>

\* Mutant: the rest is sent from the head of the buffer again
RestMutant(c, n) == SubSeq(buffer[c], 1, Len(buffer[c]) - n)

\* what is left of the buffer when n units of it were sent
Rest(c, n) == SubSeq(buffer[c], n + 1, Len(buffer[c]))

Fits(e, n) == Len(outq[e]) + n <= Window

\* DataWrite: a timeout before the first send only
AwaitWritable(c) ==
    /\ pc[c] = "write"
    /\ LET e == File(c, Other(from[c]))
       IN  IF e # Nothing /\ (Len(outq[e]) < Window \/ closed[e])
           THEN Goto(c, "send") ELSE Goto(c, "close")
    /\ UNCHANGED <<file, sock, ready, from, buffer, streams, wild>>

\* then a full socket blocks
Write(c) ==
    /\ pc[c] = "send"
    /\ LET e == File(c, Other(from[c]))
       IN  \/ \E n \in 1 .. Len(buffer[c]) :
                 /\ e # Nothing /\ Fits(e, n)
                 /\ outq' = [outq EXCEPT ![e] = @ \o SubSeq(buffer[c], 1, n)]
                 /\ buffer' = [buffer EXCEPT ![c] = Rest(c, n)]
                 /\ Goto(c, IF Rest(c, n) = <<>> THEN "pick" ELSE "send")
           \/ /\ e # Nothing => closed[e]
              /\ Goto(c, "close")
              /\ UNCHANGED <<outq, buffer>>
    /\ UNCHANGED <<file, sock, ready, from, sent, inq, closed, got, wild>>

\* Mutant: client_sock is closed twice
OfSiteMutant(c) == Sock(c, "client")

OfSite(c) == Sock(c, "site")

CloseFd(fd) == file' = IF fd = -1 THEN file ELSE [file EXCEPT ![fd] = Nothing]

\* ~CFwData, by the thread or by the listener
CloseClient(c) ==
    /\ At(c, "close", "close site") \/ At(c, "delete", "delete site")
    /\ CloseFd(Sock(c, "client"))
    /\ ready' = [ready EXCEPT ![c] = {}] /\ buffer' = [buffer EXCEPT ![c] = <<>>]
    /\ UNCHANGED <<sock, from, streams, wild>>

CloseSite(c) ==
    /\ At(c, "close site", "gone")
    /\ CloseFd(OfSite(c))
    /\ UNCHANGED <<sock, ready, from, buffer, streams, wild>>

\* the listener closes a server_sock that was never set
DeleteSite(c) ==
    /\ At(c, "delete site", "gone")
    /\ CloseFd(Sock(c, "site"))
    /\ wild' = (file' # file)
    /\ UNCHANGED <<sock, ready, from, buffer, streams>>

-----------------------------------------------------------------------------
(* The peers.  The client sends from its connect on, the site once it is   *)
(* connected.                                                              *)

Connected(e) ==
    IF e[2] = "client" THEN pc[e[1]] # "none"
    ELSE pc[e[1]] \notin {"none", "new", "socket", "connect"}

PeerSends(e) ==
    /\ Connected(e) /\ ~closed[e] /\ sent[e] < MaxUnits[e] /\ pc[e[1]] # "gone"
    /\ sent' = [sent EXCEPT ![e] = @ + 1]
    /\ inq' = [inq EXCEPT ![e] = Append(@, <<e, sent[e] + 1>>)]
    /\ UNCHANGED <<file, sock, loop, closed, outq, got, wild>>

PeerCloses(e) ==
    /\ Connected(e) /\ ~closed[e] /\ pc[e[1]] # "gone"
    /\ closed' = [closed EXCEPT ![e] = TRUE]
    /\ UNCHANGED <<file, sock, loop, sent, inq, outq, got, wild>>

PeerReads(e) ==
    /\ ~closed[e] /\ outq[e] # <<>>
    /\ got' = [got EXCEPT ![e] = Append(@, Head(outq[e]))]
    /\ outq' = [outq EXCEPT ![e] = Tail(@)]
    /\ UNCHANGED <<file, sock, loop, sent, inq, closed, wild>>

Init ==
    /\ file = [fd \in Fds |-> Nothing]
    /\ sock = [e \in Ends |-> -1]
    /\ pc = [c \in Conns |-> "none"] /\ ready = [c \in Conns |-> {}]
    /\ from = [c \in Conns |-> "site"] /\ buffer = [c \in Conns |-> <<>>]
    /\ sent = [e \in Ends |-> 0] /\ closed = [e \in Ends |-> FALSE]
    /\ inq = [e \in Ends |-> <<>>] /\ outq = [e \in Ends |-> <<>>]
    /\ got = [e \in Ends |-> <<>>]
    /\ wild = FALSE

Thread(c) ==
    \/ CreateThread(c) \/ OpenSite(c) \/ ConnectSite(c) \/ Select(c) \/ PickSide(c)
    \/ Read(c) \/ AwaitWritable(c) \/ Write(c) \/ CloseClient(c) \/ CloseSite(c)
    \/ DeleteSite(c)

\* What comes after a wild close is not followed: nothing is said of it.
Next ==
    /\ ~wild
    /\ \/ \E c \in Conns : AcceptConn(c) \/ Thread(c)
       \/ \E e \in Ends : PeerSends(e) \/ PeerCloses(e) \/ PeerReads(e)

Spec == Init /\ [][Next]_vars

-----------------------------------------------------------------------------
(* Properties                                                              *)

Unit == Ends \X Nat

\* Every variable has its type.
TypeOK ==
    /\ file \in [Fds -> Ends \cup {Nothing}] /\ sock \in [Ends -> Fds \cup {-1}]
    /\ pc \in [Conns -> {"none", "new", "socket", "connect", "select", "pick", "read",
                         "write", "send", "close", "close site",
                         "delete", "delete site", "gone"}]
    /\ ready \in [Conns -> SUBSET Sides] /\ from \in [Conns -> Sides]
    /\ buffer \in [Conns -> Seq(Unit)]
    /\ sent \in [Ends -> Nat] /\ closed \in [Ends -> BOOLEAN]
    /\ inq \in [Ends -> Seq(Unit)] /\ outq \in [Ends -> Seq(Unit)]
    /\ \A e \in Ends : Len(outq[e]) <= Window
    /\ got \in [Ends -> Seq(Unit)]
    /\ wild \in BOOLEAN

\* What a thread calls its sockets are its own, and no other's, over all the
\* orders in which the threads open and close descriptors, unless the listener
\* deleted an object whose server_sock was never set.  All variables keep their
\* types.
SocketsOwned ==
    /\ TypeOK
    /\ ~wild => \A c \in Conns :
       /\ pc[c] \in {"select", "pick", "read", "write", "send"} =>
             \A s \in Sides : File(c, s) = <<c, s>>
       /\ pc[c] = "gone" => \A fd \in Fds : file[fd][1] # c

\* Each direction of each connection is a pipe: nobody gets what was sent on
\* another connection, nothing is doubled, reordered or left out.
Copy(e) == INSTANCE Pipe WITH
    Sender <- e, MaxUnits <- MaxUnits[e], sent <- sent[e], rcvd <- got[<<e[1], Other(e[2])>>]
EachIsPipe ==
    [][\A e \in Ends :
          \/ wild
          \/ Copy(e)!Next
          \/ UNCHANGED <<sent[e], got[<<e[1], Other(e[2])>>]>>]_vars
=============================================================================
