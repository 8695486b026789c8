--------------------------- MODULE Forward_proofs ---------------------------
(***************************************************************************)
(* Forward keeps its sockets apart and copies each connection's data as a  *)
(* pipe: for any connections, descriptors, sizes of the buffer and socket. *)
(*                                                                         *)
(* Owned relates the three things the code keeps apart: what a descriptor  *)
(* is, which number a CFwData has for it, and where its thread is.  Chain  *)
(* follows one direction of one connection, as in Relay_proofs, and needs  *)
(* Owned: a thread reads and writes its own peers only.                    *)
(***************************************************************************)
EXTENDS Forward, TLAPS

Opp(e) == <<e[1], Other(e[2])>>

LEMMA SidesFacts ==
    /\ Sides = {"site", "client"} /\ "site" \in Sides /\ "client" \in Sides
    /\ \A s \in Sides : Other(s) \in Sides /\ Other(s) # s /\ Other(Other(s)) = s
  BY DEF Sides, Other

LEMMA Pairs ==
    \A c \in Conns, s \in Sides : <<c, s>> \in Ends /\ <<c, s>> # Nothing
  BY ForwardAssumption DEF Ends, Nothing

LEMMA OppFacts ==
    ASSUME NEW e \in Ends
    PROVE  /\ Opp(e) \in Ends /\ Opp(e) # e /\ Opp(Opp(e)) = e
           /\ e[1] \in Conns /\ e[2] \in Sides /\ e = <<e[1], e[2]>>
           /\ Opp(e)[1] = e[1] /\ Opp(e)[2] = Other(e[2])
  BY SidesFacts DEF Ends, Opp

LEMMA FdFacts == Fds \subseteq Nat /\ -1 \notin Fds
  BY ForwardAssumption DEF Fds

-----------------------------------------------------------------------------
(* Sockets *)

InLoop     == {"select", "pick", "read", "write", "send"}
WithClient == InLoop \cup {"new", "socket", "connect", "close", "delete"}
WithSite   == InLoop \cup {"connect"}
Closing    == {"close", "close site"}

\* A thread has both sockets from its connect to its close, and none before and
\* after.
Held(c) ==
    /\ pc[c] \in WithClient => /\ Sock(c, "client") \in Fds
                               /\ file[Sock(c, "client")] = <<c, "client">>
    /\ pc[c] \notin WithClient => \A fd \in Fds : file[fd] # <<c, "client">>
    /\ pc[c] \in WithSite => /\ Sock(c, "site") \in Fds
                             /\ file[Sock(c, "site")] = <<c, "site">>
    /\ pc[c] \in Closing => \/ /\ Sock(c, "site") = -1
                               /\ \A fd \in Fds : file[fd] # <<c, "site">>
                            \/ /\ Sock(c, "site") \in Fds
                               /\ file[Sock(c, "site")] = <<c, "site">>
    /\ pc[c] \notin WithSite \cup Closing => \A fd \in Fds : file[fd] # <<c, "site">>

\* An open descriptor is the socket of the connection it belongs to.
Named == \A fd \in Fds : file[fd] # Nothing => sock[file[fd]] = fd

Owned == Named /\ \A c \in Conns : Held(c)

\* A thread in its loop has the sockets of its own two peers.
LEMMA OwnFiles ==
    ASSUME Owned, NEW c \in Conns, pc[c] \in InLoop
    PROVE  \A s \in Sides : File(c, s) = <<c, s>> /\ File(c, s) # Nothing
  <1>1. Held(c) /\ pc[c] \in WithClient /\ pc[c] \in WithSite
    BY DEF Owned, WithClient, WithSite
  <1>2. \A s \in Sides : Sock(c, s) \in Fds /\ file[Sock(c, s)] = <<c, s>>
    BY <1>1, Pairs, SidesFacts DEF Held
  <1>3. \A s \in Sides : <<c, s>> # Nothing
    BY Pairs, SidesFacts
  <1> QED
    BY <1>2, <1>3, FdFacts DEF File

\* What the other threads do to descriptors that are not those of d.
LEMMA HeldKept ==
    ASSUME NEW d \in Conns, Held(d), pc'[d] = pc[d],
           \A s \in Sides : sock'[<<d, s>>] = sock[<<d, s>>],
           \A g \in Fds : \/ file'[g] = file[g]
                          \/ \A s \in Sides : file[g] # <<d, s>> /\ file'[g] # <<d, s>>
    PROVE  Held(d)'
  <1>1. \A s \in Sides : Sock(d, s)' = Sock(d, s)
    BY DEF Sock
  <1>2. "client" \in Sides /\ "site" \in Sides
    BY Pairs, SidesFacts
  <1>3. \A g \in Fds, s \in Sides : file'[g] = <<d, s>> <=> file[g] = <<d, s>>
    OBVIOUS
  <1> QED
    BY <1>1, <1>2, <1>3 DEF Held

LEMMA OwnedKept ==
    ASSUME TypeOK, Owned, UNCHANGED <<file, sock>>,
           NEW c \in Conns, pc[c] \in WithSite,
           NEW to \in InLoop \cup {"close"}, pc' = [pc EXCEPT ![c] = to]
    PROVE  Owned'
  <1>1. pc'[c] = to /\ \A d \in Conns : d # c => pc'[d] = pc[d]
    BY DEF TypeOK
  <1>2. pc[c] \in WithClient /\ to \in WithClient
        /\ (to \in WithSite \/ to \in Closing) /\ (to \in WithSite \cup Closing)
        /\ pc[c] \in WithSite \cup Closing
    BY DEF WithClient, WithSite, InLoop, Closing
  <1>3. Named'
    BY DEF Owned, Named
  <1>4. Held(c)'
    BY <1>1, <1>2 DEF Owned, Held, Sock
  <1>5. \A d \in Conns : d # c => Held(d)'
    BY <1>1, HeldKept DEF Owned
  <1> QED
    BY <1>3, <1>4, <1>5 DEF Owned

LEMMA OwnedSame ==
    ASSUME Owned, UNCHANGED <<file, sock, pc>>
    PROVE  Owned'
  <1>1. Named'
    BY DEF Owned, Named
  <1>2. \A d \in Conns : Held(d)'
    BY HeldKept DEF Owned
  <1> QED
    BY <1>1, <1>2 DEF Owned

\* accept and socket: a side that has no descriptor gets one that is free.
LEMMA OpenFacts ==
    ASSUME TypeOK, Owned, NEW c \in Conns, NEW s \in Sides, NEW fd \in Fds,
           file[fd] = Nothing, \A g \in Fds : file[g] # <<c, s>>,
           file' = [file EXCEPT ![fd] = <<c, s>>], sock' = [sock EXCEPT ![<<c, s>>] = fd]
    PROVE  /\ Named'
           /\ file'[fd] = <<c, s>> /\ sock'[<<c, s>>] = fd
           /\ sock'[<<c, Other(s)>>] = sock[<<c, Other(s)>>]
           /\ \A g \in Fds : g # fd => file'[g] = file[g]
           /\ \A d \in Conns : d # c /\ pc'[d] = pc[d] => Held(d)'
  <1>1. file'[fd] = <<c, s>> /\ \A g \in Fds : g # fd => file'[g] = file[g]
    BY DEF TypeOK
  <1>2. sock'[<<c, s>>] = fd /\ \A e \in Ends : e # <<c, s>> => sock'[e] = sock[e]
    BY Pairs, SidesFacts DEF TypeOK
  <1>3. Named'
    <2> SUFFICES ASSUME NEW g \in Fds, file'[g] # Nothing PROVE sock'[file'[g]] = g
      BY DEF Named
    <2>1. file[g] # Nothing => file[g] \in Ends
      BY DEF TypeOK
    <2> QED
      BY <2>1, <1>1, <1>2 DEF Owned, Named
  <1>4. <<c, Other(s)>> \in Ends /\ <<c, Other(s)>> # <<c, s>>
    BY Pairs, SidesFacts
  <1>5. ASSUME NEW d \in Conns, d # c, pc'[d] = pc[d] PROVE Held(d)'
    <2>1. \A t \in Sides : <<d, t>> \in Ends /\ <<d, t>> # <<c, s>> /\ <<d, t>> # Nothing
      BY <1>5, Pairs, SidesFacts
    <2>2. \A t \in Sides : sock'[<<d, t>>] = sock[<<d, t>>]
      BY <2>1, <1>2
    <2>3. \A g \in Fds : \/ file'[g] = file[g]
                         \/ \A t \in Sides : file[g] # <<d, t>> /\ file'[g] # <<d, t>>
      BY <2>1, <1>1
    <2> QED
      BY <1>5, <2>2, <2>3, HeldKept DEF Owned
  <1> QED
    BY <1>1, <1>2, <1>3, <1>4, <1>5

LEMMA AcceptOwned ==
    ASSUME TypeOK, Owned, NEW c \in Conns, AcceptConn(c)
    PROVE  Owned'
  <1>1. PICK fd \in Fds :
           /\ file[fd] = Nothing
           /\ file' = [file EXCEPT ![fd] = <<c, "client">>]
           /\ sock' = [sock EXCEPT ![<<c, "client">>] = fd]
    BY DEF AcceptConn, Lowest
  <1>2. pc[c] = "none" /\ pc' = [pc EXCEPT ![c] = "new"]
    BY DEF AcceptConn, At, Goto
  <1>3. pc'[c] = "new" /\ \A d \in Conns : d # c => pc'[d] = pc[d]
    BY <1>2 DEF TypeOK
  <1>4. \A g \in Fds : file[g] # <<c, "client">> /\ file[g] # <<c, "site">>
    BY <1>2 DEF Owned, Held, WithClient, WithSite, Closing, InLoop
  <1>5. /\ Named'
        /\ file'[fd] = <<c, "client">> /\ sock'[<<c, "client">>] = fd
        /\ \A g \in Fds : g # fd => file'[g] = file[g]
        /\ \A d \in Conns : d # c /\ pc'[d] = pc[d] => Held(d)'
    <2>1. "client" \in Sides
      BY SidesFacts
    <2>2. \A g \in Fds : file[g] # <<c, "client">>
      BY <1>4
    <2> QED
      BY <1>1, <2>1, <2>2, OpenFacts, Zenon
  <1>6. "new" \in WithClient /\ "new" \notin WithSite \cup Closing /\ "new" \notin WithSite
        /\ "new" \notin Closing
    BY DEF WithClient, WithSite, Closing, InLoop
  <1>7. <<c, "client">> # <<c, "site">>
    OBVIOUS
  <1>8. Held(c)'
    BY <1>3, <1>4, <1>5, <1>6, <1>7 DEF Held, Sock
  <1> QED
    BY <1>3, <1>5, <1>8 DEF Owned

LEMMA CreateOwned ==
    ASSUME TypeOK, Owned, NEW c \in Conns, CreateThread(c)
    PROVE  Owned'
  <1>1. PICK to \in {"socket", "delete"} : pc' = [pc EXCEPT ![c] = to]
    BY DEF CreateThread, Goto
  <1>2. /\ pc[c] = "new" /\ pc'[c] = to
        /\ \A d \in Conns : d # c => pc'[d] = pc[d]
    BY <1>1 DEF CreateThread, TypeOK
  <1>3. file' = file /\ \A e \in Ends : e # <<c, "site">> => sock'[e] = sock[e]
    BY DEF CreateThread, TypeOK
  <1>4. \A g \in Fds : file[g] # <<c, "site">>
    BY <1>2 DEF Owned, Held, WithSite, Closing, InLoop
  <1>5. Named'
    <2> SUFFICES ASSUME NEW g \in Fds, file[g] # Nothing PROVE sock'[file[g]] = g
      BY <1>3 DEF Named
    <2>1. file[g] \in Ends /\ file[g] # <<c, "site">>
      BY <1>4 DEF TypeOK
    <2> QED
      BY <2>1, <1>3 DEF Owned, Named
  <1>6. <<c, "client">> \in Ends /\ <<c, "client">> # <<c, "site">>
    BY Pairs, SidesFacts
  <1>7. pc[c] \in WithClient /\ to \in WithClient /\ to \notin WithSite \cup Closing
        /\ to \notin WithSite /\ to \notin Closing
    BY <1>2 DEF WithClient, WithSite, Closing, InLoop
  <1>8. sock'[<<c, "client">>] = sock[<<c, "client">>]
    BY <1>3, <1>6
  <1>9. Held(c)'
    BY <1>2, <1>3, <1>4, <1>7, <1>8 DEF Owned, Held, Sock
  <1>10. ASSUME NEW d \in Conns, d # c PROVE Held(d)'
    <2>1. \A t \in Sides : <<d, t>> \in Ends /\ <<d, t>> # <<c, "site">>
      BY <1>10, Pairs, SidesFacts
    <2> QED
      BY <2>1, <1>2, <1>3, <1>10, HeldKept DEF Owned
  <1> QED
    BY <1>5, <1>9, <1>10 DEF Owned

LEMMA OpenOwned ==
    ASSUME TypeOK, Owned, NEW c \in Conns, OpenSite(c)
    PROVE  Owned'
  <1>1. pc[c] = "socket" /\ Held(c)
    BY DEF OpenSite, Owned
  <1>2. /\ \A g \in Fds : file[g] # <<c, "site">>
        /\ Sock(c, "client") \in Fds /\ file[Sock(c, "client")] = <<c, "client">>
    BY <1>1 DEF Held, WithClient, WithSite, Closing, InLoop
  <1>3. CASE /\ pc' = [pc EXCEPT ![c] = "connect"]
             /\ \E fd \in Fds : /\ file[fd] = Nothing
                                /\ file' = [file EXCEPT ![fd] = <<c, "site">>]
                                /\ sock' = [sock EXCEPT ![<<c, "site">>] = fd]
    <2>1. PICK fd \in Fds : /\ file[fd] = Nothing
                            /\ file' = [file EXCEPT ![fd] = <<c, "site">>]
                            /\ sock' = [sock EXCEPT ![<<c, "site">>] = fd]
      BY <1>3
    <2>2. pc'[c] = "connect" /\ \A d \in Conns : d # c => pc'[d] = pc[d]
      BY <1>3 DEF TypeOK
    <2>3. Other("site") = "client" /\ "site" \in Sides
      BY Pairs, SidesFacts DEF Other
    <2>4. /\ Named'
          /\ file'[fd] = <<c, "site">> /\ sock'[<<c, "site">>] = fd
          /\ sock'[<<c, "client">>] = sock[<<c, "client">>]
          /\ \A g \in Fds : g # fd => file'[g] = file[g]
          /\ \A d \in Conns : d # c /\ pc'[d] = pc[d] => Held(d)'
      <3>1. /\ Named'
            /\ file'[fd] = <<c, "site">> /\ sock'[<<c, "site">>] = fd
            /\ sock'[<<c, Other("site")>>] = sock[<<c, Other("site")>>]
            /\ \A g \in Fds : g # fd => file'[g] = file[g]
            /\ \A d \in Conns : d # c /\ pc'[d] = pc[d] => Held(d)'
        BY <2>1, <1>2, <2>3, OpenFacts
      <3> QED
        BY <3>1, <2>3
    <2>5. Sock(c, "client") # fd
      BY <1>2, <2>1, Pairs, SidesFacts
    <2>6. "connect" \in WithClient /\ "connect" \in WithSite /\ "connect" \notin Closing
          /\ "connect" \in WithSite \cup Closing
      BY DEF WithClient, WithSite, Closing, InLoop
    <2>7. Held(c)'
      BY <1>2, <2>2, <2>4, <2>5, <2>6 DEF Held, Sock
    <2> QED
      BY <2>2, <2>4, <2>7 DEF Owned
  <1>4. CASE /\ pc' = [pc EXCEPT ![c] = "close"] /\ file' = file
             /\ sock' = [sock EXCEPT ![<<c, "site">>] = -1]
    <2>2. pc'[c] = "close" /\ \A d \in Conns : d # c => pc'[d] = pc[d]
      BY <1>4 DEF TypeOK
    <2>3. sock'[<<c, "site">>] = -1 /\ \A e \in Ends : e # <<c, "site">> => sock'[e] = sock[e]
      BY <1>4, Pairs, SidesFacts DEF TypeOK
    <2>4. Named'
      <3> SUFFICES ASSUME NEW g \in Fds, file[g] # Nothing PROVE sock'[file[g]] = g
        BY <1>4 DEF Named
      <3>1. file[g] \in Ends /\ file[g] # <<c, "site">>
        BY <1>2 DEF TypeOK
      <3> QED
        BY <3>1, <2>3 DEF Owned, Named
    <2>5. sock'[<<c, "client">>] = sock[<<c, "client">>]
      BY <2>3, Pairs, SidesFacts
    <2>6. "close" \in WithClient /\ "close" \notin WithSite /\ "close" \in WithSite \cup Closing
      BY DEF WithClient, WithSite, Closing, InLoop
    <2>7. Held(c)'
      BY <1>2, <1>4, <2>2, <2>3, <2>5, <2>6 DEF Held, Sock
    <2>8. ASSUME NEW d \in Conns, d # c PROVE Held(d)'
      <3>1. \A t \in Sides : <<d, t>> \in Ends /\ <<d, t>> # <<c, "site">>
        BY <2>8, Pairs, SidesFacts
      <3> QED
        BY <3>1, <1>4, <2>2, <2>3, <2>8, HeldKept DEF Owned
    <2> QED
      BY <2>4, <2>7, <2>8 DEF Owned
  <1> QED
    BY <1>3, <1>4 DEF OpenSite, Goto, Lowest

\* close of a descriptor that belongs to c, or is closed already
LEMMA CloseFacts ==
    ASSUME TypeOK, Owned, NEW c \in Conns, NEW s \in Sides, NEW fd \in Fds,
           file[fd] = <<c, s>>, file' = [file EXCEPT ![fd] = Nothing], UNCHANGED sock
    PROVE  /\ Named'
           /\ \A g \in Fds : file'[g] = IF g = fd THEN Nothing ELSE file[g]
           /\ \A g \in Fds : file'[g] # <<c, s>>
           /\ \A d \in Conns : d # c /\ pc'[d] = pc[d] => Held(d)'
  <1>1. \A g \in Fds : file'[g] = IF g = fd THEN Nothing ELSE file[g]
    BY DEF TypeOK
  <1>2. <<c, s>> \in Ends /\ <<c, s>> # Nothing
    BY Pairs, SidesFacts
  <1>3. Named'
    BY <1>1 DEF Owned, Named
  <1>4. sock[<<c, s>>] = fd
    BY <1>2 DEF Owned, Named
  <1>5. \A g \in Fds : file'[g] # <<c, s>>
    BY <1>1, <1>2, <1>4 DEF Owned, Named
  <1>6. ASSUME NEW d \in Conns, d # c, pc'[d] = pc[d] PROVE Held(d)'
    <2>1. \A t \in Sides : <<d, t>> # <<c, s>> /\ <<d, t>> # Nothing
      BY <1>6, Pairs, SidesFacts
    <2>2. \A g \in Fds : \/ file'[g] = file[g]
                         \/ \A t \in Sides : file[g] # <<d, t>> /\ file'[g] # <<d, t>>
      BY <2>1, <1>1
    <2> QED
      BY <1>6, <2>2, HeldKept DEF Owned
  <1> QED
    BY <1>1, <1>3, <1>5, <1>6

LEMMA CloseClientOwned ==
    ASSUME TypeOK, Owned, NEW c \in Conns, CloseClient(c)
    PROVE  Owned'
  <1>1. PICK to \in {"close site", "delete site"} :
           /\ pc' = [pc EXCEPT ![c] = to]
           /\ pc[c] = IF to = "close site" THEN "close" ELSE "delete"
    BY DEF CloseClient, At, Goto
  <1>2. pc'[c] = to /\ \A d \in Conns : d # c => pc'[d] = pc[d]
    BY <1>1 DEF TypeOK
  <1>3. Held(c) /\ pc[c] \in WithClient /\ to \notin WithClient
        /\ (to \in Closing <=> pc[c] \in Closing) /\ pc[c] \notin WithSite /\ to \notin WithSite
    BY <1>1 DEF Owned, WithClient, WithSite, Closing, InLoop
  <1> DEFINE fd == Sock(c, "client")
  <1>4. fd \in Fds /\ file[fd] = <<c, "client">>
    BY <1>3 DEF Held
  <1>5. file' = [file EXCEPT ![fd] = Nothing] /\ UNCHANGED sock
    BY <1>4, FdFacts DEF CloseClient, CloseFd
  <1>6. /\ Named'
        /\ \A g \in Fds : file'[g] = IF g = fd THEN Nothing ELSE file[g]
        /\ \A g \in Fds : file'[g] # <<c, "client">>
        /\ \A d \in Conns : d # c /\ pc'[d] = pc[d] => Held(d)'
    BY <1>4, <1>5, CloseFacts, Pairs, SidesFacts
  <1>7. \A g \in Fds : file'[g] = <<c, "site">> <=> file[g] = <<c, "site">>
    <2>1. <<c, "site">> # Nothing /\ <<c, "client">> # <<c, "site">>
      BY Pairs, SidesFacts
    <2> QED
      BY <2>1, <1>4, <1>6
  <1>8. Sock(c, "site")' = Sock(c, "site")
    BY <1>5 DEF Sock
  <1>9. Held(c)'
    BY <1>2, <1>3, <1>6, <1>7, <1>8 DEF Held
  <1> QED
    BY <1>2, <1>6, <1>9 DEF Owned

LEMMA CloseSiteOwned ==
    ASSUME TypeOK, Owned, NEW c \in Conns, CloseSite(c)
    PROVE  Owned'
  <1>1. pc[c] = "close site" /\ pc' = [pc EXCEPT ![c] = "gone"] /\ UNCHANGED sock
    BY DEF CloseSite, At, Goto
  <1>2. pc'[c] = "gone" /\ \A d \in Conns : d # c => pc'[d] = pc[d]
    BY <1>1 DEF TypeOK
  <1>3. Held(c) /\ pc[c] \notin WithClient /\ pc[c] \in Closing
        /\ "gone" \notin WithClient /\ "gone" \notin WithSite /\ "gone" \notin Closing
    BY <1>1 DEF Owned, WithClient, WithSite, Closing, InLoop
  <1> DEFINE fd == Sock(c, "site")
  <1>4. CASE fd = -1 /\ \A g \in Fds : file[g] # <<c, "site">>
    <2>1. file' = file
      BY <1>4 DEF CloseSite, CloseFd, OfSite
    <2>2. Named'
      BY <1>1, <2>1 DEF Owned, Named
    <2>3. Held(c)'
      BY <1>2, <1>3, <1>4, <2>1 DEF Held
    <2>4. \A d \in Conns : d # c => Held(d)'
      BY <1>1, <1>2, <2>1, HeldKept DEF Owned
    <2> QED
      BY <2>2, <2>3, <2>4 DEF Owned
  <1>5. CASE fd \in Fds /\ file[fd] = <<c, "site">>
    <2>1. file' = [file EXCEPT ![fd] = Nothing]
      BY <1>5, FdFacts DEF CloseSite, CloseFd, OfSite
    <2>2. /\ Named'
          /\ \A g \in Fds : file'[g] = IF g = fd THEN Nothing ELSE file[g]
          /\ \A g \in Fds : file'[g] # <<c, "site">>
          /\ \A d \in Conns : d # c /\ pc'[d] = pc[d] => Held(d)'
      BY <1>1, <1>5, <2>1, CloseFacts, Pairs, SidesFacts
    <2>3. \A g \in Fds : file'[g] # <<c, "client">>
      BY <1>3, <2>2, Pairs, SidesFacts DEF Held
    <2>4. Held(c)'
      BY <1>2, <1>3, <2>2, <2>3 DEF Held
    <2> QED
      BY <1>2, <2>2, <2>4 DEF Owned
  <1> QED
    BY <1>3, <1>4, <1>5 DEF Held

LEMMA DeleteSiteOwned ==
    ASSUME TypeOK, Owned, NEW c \in Conns, DeleteSite(c), ~wild'
    PROVE  Owned'
  <1>1. pc[c] = "delete site" /\ pc' = [pc EXCEPT ![c] = "gone"] /\ UNCHANGED <<sock, file>>
    BY DEF DeleteSite, At, Goto
  <1>2. pc'[c] = "gone" /\ \A d \in Conns : d # c => pc'[d] = pc[d]
    BY <1>1 DEF TypeOK
  <1>3. Held(c) /\ pc[c] \notin WithClient /\ pc[c] \notin WithSite \cup Closing
        /\ "gone" \notin WithClient /\ "gone" \notin WithSite /\ "gone" \notin Closing
    BY <1>1 DEF Owned, WithClient, WithSite, Closing, InLoop
  <1>4. Named'
    BY <1>1 DEF Owned, Named
  <1>5. Held(c)'
    BY <1>1, <1>2, <1>3 DEF Held
  <1>6. \A d \in Conns : d # c => Held(d)'
    BY <1>1, <1>2, HeldKept DEF Owned
  <1> QED
    BY <1>4, <1>5, <1>6 DEF Owned
-----------------------------------------------------------------------------
(* Types *)

LEMMA ConstFacts ==
    /\ Window \in Nat \ {0} /\ BufferSize \in Nat \ {0}
    /\ \A e \in Ends : MaxUnits[e] \in Nat
  BY ForwardAssumption

LEMMA NoUnits == <<>> \in Seq(Unit)
  OBVIOUS

\* A step of a thread that touches its own sockets and place only.
LEMMA PlaceType ==
    ASSUME TypeOK, UNCHANGED streams, NEW c \in Conns,
           NEW to \in {"new", "socket", "connect", "select", "pick", "read", "write",
                       "send", "close", "close site", "delete", "delete site", "gone"},
           pc' = [pc EXCEPT ![c] = to],
           NEW r \in SUBSET Sides, ready' = [ready EXCEPT ![c] = r],
           NEW s \in Sides, from' = [from EXCEPT ![c] = s],
           NEW b \in Seq(Unit), buffer' = [buffer EXCEPT ![c] = b],
           file' \in [Fds -> Ends \cup {Nothing}], sock' \in [Ends -> Fds \cup {-1}],
           wild' \in BOOLEAN
    PROVE  TypeOK'
  <1>1. pc' \in [Conns -> {"none", "new", "socket", "connect", "select", "pick", "read",
                           "write", "send", "close", "close site",
                           "delete", "delete site", "gone"}]
    BY DEF TypeOK
  <1>2. ready' \in [Conns -> SUBSET Sides] /\ from' \in [Conns -> Sides]
        /\ buffer' \in [Conns -> Seq(Unit)]
    BY DEF TypeOK
  <1> QED
    BY <1>1, <1>2 DEF TypeOK, streams

\* What a thread does not change of its loop.
LEMMA LoopSame ==
    ASSUME TypeOK, NEW c \in Conns
    PROVE  /\ ready' = ready => ready[c] \in SUBSET Sides /\ ready' = [ready EXCEPT ![c] = ready[c]]
           /\ from' = from => from[c] \in Sides /\ from' = [from EXCEPT ![c] = from[c]]
           /\ buffer' = buffer => /\ buffer[c] \in Seq(Unit)
                                  /\ buffer' = [buffer EXCEPT ![c] = buffer[c]]
  BY DEF TypeOK

LEMMA CloseFdType ==
    ASSUME TypeOK, NEW fd, CloseFd(fd)
    PROVE  file' \in [Fds -> Ends \cup {Nothing}]
  <1>1. file \in [Fds -> Ends \cup {Nothing}]
    BY DEF TypeOK
  <1>2. file' = file \/ file' = [file EXCEPT ![fd] = Nothing]
    BY DEF CloseFd
  <1> QED
    BY <1>1, <1>2

LEMMA SocketsType ==
    ASSUME TypeOK, NEW c \in Conns,
           \/ AcceptConn(c) \/ CreateThread(c) \/ OpenSite(c)
           \/ CloseClient(c) \/ CloseSite(c) \/ DeleteSite(c)
    PROVE  TypeOK'
  <1>1. /\ file \in [Fds -> Ends \cup {Nothing}] /\ sock \in [Ends -> Fds \cup {-1}]
        /\ wild \in BOOLEAN
    BY DEF TypeOK
  <1>2. \A s \in Sides : <<c, s>> \in Ends
    BY Pairs
  <1>3. CASE AcceptConn(c)
    <2>1. PICK fd \in Fds : /\ file' = [file EXCEPT ![fd] = <<c, "client">>]
                            /\ sock' = [sock EXCEPT ![<<c, "client">>] = fd]
      BY <1>3 DEF AcceptConn
    <2>2. file' \in [Fds -> Ends \cup {Nothing}] /\ sock' \in [Ends -> Fds \cup {-1}]
      BY <2>1, <1>1, <1>2, SidesFacts
    <2>3. pc' = [pc EXCEPT ![c] = "new"] /\ UNCHANGED <<ready, from, buffer, streams, wild>>
      BY <1>3 DEF AcceptConn, At, Goto
    <2>4. wild' \in BOOLEAN
      BY <2>3, <1>1
    <2> QED
      BY <2>2, <2>3, <2>4, LoopSame, PlaceType
  <1>4. CASE CreateThread(c)
    <2>1. PICK to \in {"socket", "delete"} : pc' = [pc EXCEPT ![c] = to]
      BY <1>4 DEF CreateThread, Goto
    <2>2. sock' = sock \/ \E g \in Fds \cup {-1} : sock' = [sock EXCEPT ![<<c, "site">>] = g]
      BY <1>4 DEF CreateThread
    <2>3. sock' \in [Ends -> Fds \cup {-1}]
      BY <2>2, <1>1, <1>2
    <2>4. UNCHANGED <<file, ready, from, buffer, streams, wild>>
      BY <1>4 DEF CreateThread
    <2> QED
      BY <2>1, <2>3, <2>4, <1>1, LoopSame, PlaceType
  <1>5. CASE OpenSite(c)
    <2>1. PICK to \in {"connect", "close"} : pc' = [pc EXCEPT ![c] = to]
      BY <1>5 DEF OpenSite, Goto
    <2>2. \/ file' = file /\ sock' = [sock EXCEPT ![<<c, "site">>] = -1]
          \/ \E fd \in Fds : /\ file' = [file EXCEPT ![fd] = <<c, "site">>]
                             /\ sock' = [sock EXCEPT ![<<c, "site">>] = fd]
      BY <1>5 DEF OpenSite
    <2>3. file' \in [Fds -> Ends \cup {Nothing}] /\ sock' \in [Ends -> Fds \cup {-1}]
      BY <2>2, <1>1, <1>2, SidesFacts
    <2>4. UNCHANGED <<ready, from, buffer, streams, wild>>
      BY <1>5 DEF OpenSite
    <2> QED
      BY <2>1, <2>3, <2>4, <1>1, LoopSame, PlaceType
  <1>6. CASE CloseClient(c)
    <2>1. PICK to \in {"close site", "delete site"} : pc' = [pc EXCEPT ![c] = to]
      BY <1>6 DEF CloseClient, At, Goto
    <2>2. file' \in [Fds -> Ends \cup {Nothing}]
      BY <1>6, CloseFdType DEF CloseClient
    <2>3. /\ ready' = [ready EXCEPT ![c] = {}] /\ buffer' = [buffer EXCEPT ![c] = <<>>]
          /\ UNCHANGED <<sock, from, streams, wild>>
      BY <1>6 DEF CloseClient
    <2>4. {} \in SUBSET Sides
      OBVIOUS
    <2>5. <<>> \in Seq(Unit)
      BY NoUnits
    <2> QED
      BY <2>1, <2>2, <2>3, <2>4, <2>5, <1>1, LoopSame, PlaceType
  <1>7. CASE CloseSite(c) \/ DeleteSite(c)
    <2>1. /\ pc' = [pc EXCEPT ![c] = "gone"]
          /\ UNCHANGED <<sock, ready, from, buffer, streams>>
      BY <1>7 DEF CloseSite, DeleteSite, At, Goto
    <2>2. file' \in [Fds -> Ends \cup {Nothing}]
      BY <1>7, CloseFdType DEF CloseSite, DeleteSite
    <2>3. wild' \in BOOLEAN
      BY <1>7, <1>1 DEF CloseSite, DeleteSite
    <2> QED
      BY <2>1, <2>2, <2>3, <1>1, LoopSame, PlaceType
  <1> QED
    BY <1>3, <1>4, <1>5, <1>6, <1>7

\* Steps of the loop that copy nothing.
LEMMA LoopType ==
    ASSUME TypeOK, NEW c \in Conns,
           \/ ConnectSite(c) \/ Select(c) \/ PickSide(c) \/ AwaitWritable(c)
    PROVE  TypeOK'
  <1>1. UNCHANGED <<file, sock, buffer, streams, wild>>
    BY DEF ConnectSite, Select, PickSide, AwaitWritable
  <1>2. PICK to \in {"select", "pick", "read", "send", "close"} : pc' = [pc EXCEPT ![c] = to]
    BY DEF ConnectSite, Select, PickSide, AwaitWritable, Goto
  <1>3. PICK r \in SUBSET Sides : ready' = [ready EXCEPT ![c] = r]
    <2>1. CASE ready' = ready
      BY <2>1, LoopSame
    <2>2. CASE Select(c)
      BY <2>2 DEF Select
    <2>3. CASE PickSide(c) /\ ready' # ready
      <3>1. PICK s \in Sides : ready' = [ready EXCEPT ![c] = @ \ {s}]
        BY <2>3 DEF PickSide, TypeOK
      <3>2. ready' = [ready EXCEPT ![c] = ready[c] \ {s}] /\ ready[c] \ {s} \in SUBSET Sides
        BY <3>1 DEF TypeOK
      <3> QED
        BY <3>2
    <2> QED
      BY <2>1, <2>2, <2>3 DEF ConnectSite, AwaitWritable
  <1>4. PICK s \in Sides : from' = [from EXCEPT ![c] = s]
    <2>1. CASE from' = from
      BY <2>1, LoopSame
    <2>2. CASE from' # from
      BY <2>2 DEF ConnectSite, Select, PickSide, AwaitWritable, TypeOK
    <2> QED
      BY <2>1, <2>2
  <1>5. /\ file' \in [Fds -> Ends \cup {Nothing}] /\ sock' \in [Ends -> Fds \cup {-1}]
        /\ wild' \in BOOLEAN
    BY <1>1 DEF TypeOK
  <1> QED
    BY <1>1, <1>2, <1>3, <1>4, <1>5, LoopSame, PlaceType

LEMMA ThreadOwned ==
    ASSUME TypeOK, Owned, NEW c \in Conns, AcceptConn(c) \/ Thread(c), ~wild'
    PROVE  Owned'
  <1>1. CASE \/ ConnectSite(c) \/ Select(c) \/ PickSide(c) \/ Read(c) \/ AwaitWritable(c)
             \/ Write(c)
    <2>1. UNCHANGED <<file, sock>> /\ pc[c] \in WithSite
      BY <1>1 DEF ConnectSite, Select, PickSide, Read, AwaitWritable, Write, WithSite, InLoop
    <2>2. PICK to \in InLoop \cup {"close"} : pc' = [pc EXCEPT ![c] = to]
      BY <1>1 DEF ConnectSite, Select, PickSide, Read, AwaitWritable, Write, Goto, InLoop
    <2> QED
      BY <2>1, <2>2, OwnedKept
  <1>2. CASE AcceptConn(c)
    BY <1>2, AcceptOwned
  <1>3. CASE CreateThread(c)
    BY <1>3, CreateOwned
  <1>4. CASE OpenSite(c)
    BY <1>4, OpenOwned
  <1>5. CASE CloseClient(c)
    BY <1>5, CloseClientOwned
  <1>6. CASE CloseSite(c)
    BY <1>6, CloseSiteOwned
  <1>7. CASE DeleteSite(c)
    BY <1>7, DeleteSiteOwned
  <1> QED
    BY <1>1, <1>2, <1>3, <1>4, <1>5, <1>6, <1>7 DEF Thread
-----------------------------------------------------------------------------
(* Data *)

\* the thread has given up nothing yet
Alive == InLoop \cup {"none", "new", "socket", "connect"}

\* how much of the buffer is data of e
Left(e) == IF from[e[1]] = e[2] THEN Len(buffer[e[1]]) ELSE 0

\* The data of e is, in order, in the peer, in the socket to it, in the buffer
\* and in the socket from e.
Chain(e) ==
    LET o == Opp(e)
        g == Len(got[o])   q == Len(outq[o])   b == Left(e)
    IN  /\ g + q <= sent[e]
        /\ \A k \in 1 .. g : got[o][k] = <<e, k>>
        /\ \A k \in 1 .. q : outq[o][k] = <<e, g + k>>
        /\ pc[e[1]] \in Alive =>
             /\ g + q + b + Len(inq[e]) = sent[e]
             /\ \A k \in 1 .. b : buffer[e[1]][k] = <<e, g + q + k>>
             /\ \A k \in 1 .. Len(inq[e]) : inq[e][k] = <<e, g + q + b + k>>

\* Outside a read and its write nothing is in the buffer.
Written(c) == pc[c] \in Alive \ {"write", "send"} => buffer[c] = <<>>

Copied == (\A c \in Conns : Written(c)) /\ (\A e \in Ends : Chain(e))

IInv == TypeOK /\ (~wild => Owned /\ Copied)

\* Nothing was read, written, sent or received of the data of e.
LEMMA ChainKept ==
    ASSUME TypeOK, NEW e \in Ends, Chain(e),
           got'[Opp(e)] = got[Opp(e)], outq'[Opp(e)] = outq[Opp(e)],
           inq'[e] = inq[e], sent'[e] = sent[e],
           \/ pc'[e[1]] \notin Alive
           \/ /\ pc[e[1]] \in Alive
              /\ \/ Left(e) = 0 /\ Left(e)' = 0
                 \/ from'[e[1]] = from[e[1]] /\ buffer'[e[1]] = buffer[e[1]]
    PROVE  Chain(e)'
  <1> DEFINE o == Opp(e)
             g == Len(got[o])
             q == Len(outq[o])
  <1>1. /\ g + q <= sent[e]
        /\ \A k \in 1 .. g : got[o][k] = <<e, k>>
        /\ \A k \in 1 .. q : outq[o][k] = <<e, g + k>>
    BY DEF Chain
  <1>2. Len(got'[o]) = g /\ Len(outq'[o]) = q
    OBVIOUS
  <1>3. /\ g + q <= sent'[e]
        /\ \A k \in 1 .. g : got'[o][k] = <<e, k>>
        /\ \A k \in 1 .. q : outq'[o][k] = <<e, g + k>>
    BY <1>1
  <1>4. CASE pc'[e[1]] \notin Alive
    <2> HIDE DEF g, q
    <2> QED
      BY <1>2, <1>3, <1>4 DEF Chain
  <1>5. CASE pc[e[1]] \in Alive /\ Left(e) = 0 /\ Left(e)' = 0
    <2>1. g + q + 0 + Len(inq[e]) = sent[e]
          /\ \A k \in 1 .. Len(inq[e]) : inq[e][k] = <<e, g + q + 0 + k>>
      BY <1>5 DEF Chain
    <2>2. g + q + 0 + Len(inq'[e]) = sent'[e]
          /\ \A k \in 1 .. Len(inq'[e]) : inq'[e][k] = <<e, g + q + 0 + k>>
      BY <2>1
    <2>3. \A k \in 1 .. 0 : buffer'[e[1]][k] = <<e, g + q + k>>
      OBVIOUS
    <2> HIDE DEF g, q
    <2> QED
      BY <1>2, <1>3, <1>5, <2>2, <2>3 DEF Chain
  <1>6. CASE /\ pc[e[1]] \in Alive
             /\ from'[e[1]] = from[e[1]] /\ buffer'[e[1]] = buffer[e[1]]
    <2>1. Left(e)' = Left(e)
      BY <1>6 DEF Left
    <2> DEFINE b == Left(e)
    <2>2. /\ g + q + b + Len(inq[e]) = sent[e]
          /\ \A k \in 1 .. b : buffer[e[1]][k] = <<e, g + q + k>>
          /\ \A k \in 1 .. Len(inq[e]) : inq[e][k] = <<e, g + q + b + k>>
      BY <1>6 DEF Chain
    <2> HIDE DEF b
    <2>3. /\ g + q + b + Len(inq'[e]) = sent'[e]
          /\ \A k \in 1 .. b : buffer'[e[1]][k] = <<e, g + q + k>>
          /\ \A k \in 1 .. Len(inq'[e]) : inq'[e][k] = <<e, g + q + b + k>>
      BY <2>2, <1>6
    <2>4. Left(e)' = b
      BY <2>1 DEF b
    <2> HIDE DEF g, q
    <2> QED
      BY <1>2, <1>3, <2>3, <2>4 DEF Chain
  <1> QED
    BY <1>4, <1>5, <1>6

\* Only the place of c and its buffer change.
LEMMA CopiedKept ==
    ASSUME TypeOK, Copied, NEW c \in Conns, UNCHANGED <<sent, inq, outq, got>>,
           \A d \in Conns : d # c => /\ pc'[d] = pc[d] /\ from'[d] = from[d]
                                     /\ buffer'[d] = buffer[d],
           \/ pc'[c] \notin Alive
           \/ /\ pc[c] \in Alive /\ buffer'[c] = buffer[c]
              /\ \/ buffer[c] = <<>>
                 \/ from'[c] = from[c] /\ pc'[c] \in {"write", "send"}
    PROVE  Copied'
  <1>1. \A d \in Conns : Written(d)'
    BY DEF Copied, Written
  <1>2. ASSUME NEW e \in Ends PROVE Chain(e)'
    <2>1. Chain(e) /\ Opp(e) \in Ends /\ e[1] \in Conns
      BY OppFacts DEF Copied
    <2>2. CASE e[1] # c
      <3>1. /\ pc'[e[1]] = pc[e[1]] /\ from'[e[1]] = from[e[1]]
            /\ buffer'[e[1]] = buffer[e[1]]
        BY <2>1, <2>2
      <3> QED
        BY <2>1, <3>1, ChainKept
    <2>3. CASE e[1] = c /\ pc'[c] \notin Alive
      BY <2>1, <2>3, ChainKept
    <2>4. CASE e[1] = c /\ pc'[c] \in Alive
      <3>1. \/ Left(e) = 0 /\ Left(e)' = 0
            \/ from'[c] = from[c] /\ buffer'[c] = buffer[c]
        BY <2>4 DEF Left
      <3> QED
        BY <2>1, <2>4, <3>1, ChainKept
    <2> QED
      BY <2>2, <2>3, <2>4
  <1> QED
    BY <1>1, <1>2 DEF Copied

LEMMA SocketsCopied ==
    ASSUME TypeOK, Copied, NEW c \in Conns,
           \/ AcceptConn(c) \/ CreateThread(c) \/ OpenSite(c)
           \/ CloseClient(c) \/ CloseSite(c) \/ DeleteSite(c)
    PROVE  Copied'
  <1>1. UNCHANGED <<from, sent, inq, outq, got>>
        /\ \A d \in Conns : d # c => buffer'[d] = buffer[d]
    BY DEF AcceptConn, CreateThread, OpenSite, CloseClient, CloseSite, DeleteSite, streams, TypeOK
  <1>2. PICK to : pc' = [pc EXCEPT ![c] = to]
        /\ \/ to \notin Alive
           \/ buffer' = buffer /\ pc[c] \in Alive \ {"write", "send"}
    BY DEF AcceptConn, CreateThread, OpenSite, CloseClient, CloseSite, DeleteSite, At, Goto,
           Alive, InLoop
  <1>3. pc'[c] = to /\ \A d \in Conns : d # c => pc'[d] = pc[d]
    BY <1>2 DEF TypeOK
  <1>4. pc[c] \in Alive \ {"write", "send"} => buffer[c] = <<>>
    BY DEF Copied, Written
  <1> QED
    BY <1>1, <1>2, <1>3, <1>4, CopiedKept

LEMMA LoopCopied ==
    ASSUME TypeOK, Copied, NEW c \in Conns,
           \/ ConnectSite(c) \/ Select(c) \/ PickSide(c) \/ AwaitWritable(c)
    PROVE  Copied'
  <1>1. UNCHANGED <<buffer, sent, inq, outq, got>>
    BY DEF ConnectSite, Select, PickSide, AwaitWritable, streams
  <1>2. PICK to : pc' = [pc EXCEPT ![c] = to]
        /\ \/ to = "close"
           \/ pc[c] \in Alive \ {"write", "send"}
           \/ pc[c] = "write" /\ to = "send" /\ from' = from
    BY DEF ConnectSite, Select, PickSide, AwaitWritable, Goto, Alive, InLoop
  <1>3. pc'[c] = to /\ \A d \in Conns : d # c => pc'[d] = pc[d]
    BY <1>2 DEF TypeOK
  <1>4. pc[c] \in Alive \ {"write", "send"} => buffer[c] = <<>>
    BY DEF Copied, Written
  <1>5. \A d \in Conns : d # c => from'[d] = from[d]
    BY DEF ConnectSite, Select, PickSide, AwaitWritable, TypeOK
  <1>6. "close" \notin Alive /\ "write" \in Alive
    BY DEF Alive, InLoop
  <1> QED
    BY <1>1, <1>2, <1>3, <1>4, <1>5, <1>6, CopiedKept
\* What SubSeq takes from the front of a sequence and what it leaves.
LEMMA SplitFacts ==
    ASSUME NEW S, NEW q \in Seq(S), NEW n \in Nat, n <= Len(q)
    PROVE  /\ SubSeq(q, 1, n) \in Seq(S) /\ Len(SubSeq(q, 1, n)) = n
           /\ \A k \in 1 .. n : SubSeq(q, 1, n)[k] = q[k]
           /\ SubSeq(q, n + 1, Len(q)) \in Seq(S)
           /\ Len(SubSeq(q, n + 1, Len(q))) = Len(q) - n
           /\ \A k \in 1 .. (Len(q) - n) : SubSeq(q, n + 1, Len(q))[k] = q[n + k]
  OBVIOUS

\* A sequence behind another, and one unit.
LEMMA AddFacts ==
    ASSUME NEW S, NEW q \in Seq(S), NEW b \in Seq(S)
    PROVE  /\ q \o b \in Seq(S) /\ Len(q \o b) = Len(q) + Len(b)
           /\ \A i \in 1 .. Len(q) : (q \o b)[i] = q[i]
           /\ \A i \in 1 .. Len(b) : (q \o b)[Len(q) + i] = b[i]
  OBVIOUS

LEMMA UnitFacts ==
    ASSUME NEW S, NEW q \in Seq(S), NEW x \in S
    PROVE  /\ Append(q, x) \in Seq(S) /\ Len(Append(q, x)) = Len(q) + 1
           /\ \A k \in 1 .. Len(q) : Append(q, x)[k] = q[k]
           /\ Append(q, x)[Len(q) + 1] = x
           /\ q # <<>> => /\ Head(q) = q[1] /\ Head(q) \in S /\ Tail(q) \in Seq(S)
                          /\ Len(Tail(q)) = Len(q) - 1 /\ Len(q) > 0
                          /\ \A k \in 1 .. (Len(q) - 1) : Tail(q)[k] = q[k + 1]
  OBVIOUS

LEMMA Lengths ==
    ASSUME TypeOK, NEW e \in Ends
    PROVE  /\ got[e] \in Seq(Unit) /\ outq[e] \in Seq(Unit) /\ inq[e] \in Seq(Unit)
           /\ Len(got[e]) \in Nat /\ Len(outq[e]) \in Nat /\ Len(inq[e]) \in Nat
           /\ sent[e] \in Nat /\ buffer[e[1]] \in Seq(Unit) /\ Len(buffer[e[1]]) \in Nat
           /\ Left(e) \in Nat
  <1>1. buffer[e[1]] \in Seq(Unit)
    BY OppFacts DEF TypeOK
  <1>2. got[e] \in Seq(Unit) /\ outq[e] \in Seq(Unit) /\ inq[e] \in Seq(Unit) /\ sent[e] \in Nat
    BY DEF TypeOK
  <1> QED
    BY <1>1, <1>2 DEF Left

LEMMA ReadCopied ==
    ASSUME TypeOK, Owned, Copied, NEW c \in Conns, Read(c)
    PROVE  TypeOK' /\ Copied'
  <1>0. PICK s \in Sides : s = from[c]
    BY DEF TypeOK
  <1> DEFINE e == <<c, s>>
  <1>1. /\ pc[c] = "read" /\ s \in Sides /\ e \in Ends /\ e # Nothing /\ e[1] = c /\ e[2] = s
        /\ UNCHANGED <<file, sock, ready, from, sent, closed, outq, got, wild>>
    BY Pairs DEF Read
  <1>2. File(c, s) = e /\ buffer[c] = <<>> /\ pc[c] \in Alive
    BY <1>1, OwnFiles DEF InLoop, Copied, Written, Alive
  <1>3. CASE /\ pc' = [pc EXCEPT ![c] = "close"] /\ UNCHANGED <<buffer, inq>>
    <2>1. TypeOK'
      <3>1. /\ file' \in [Fds -> Ends \cup {Nothing}] /\ sock' \in [Ends -> Fds \cup {-1}]
            /\ wild' \in BOOLEAN
        BY <1>1 DEF TypeOK
      <3> QED
        BY <1>1, <1>3, <3>1, LoopSame, PlaceType DEF streams
    <2>2. pc'[c] = "close" /\ \A d \in Conns : d # c => pc'[d] = pc[d]
      BY <1>3 DEF TypeOK
    <2>3. Copied'
      BY <1>1, <1>3, <2>2, CopiedKept DEF Alive, InLoop
    <2> QED
      BY <2>1, <2>3
  <1>4. ASSUME NEW n \in 1 .. BufferSize, n <= Len(inq[e]),
               pc' = [pc EXCEPT ![c] = "write"],
               buffer' = [buffer EXCEPT ![c] = SubSeq(inq[e], 1, n)],
               inq' = [inq EXCEPT ![e] = SubSeq(inq[e], n + 1, Len(inq[e]))]
        PROVE  TypeOK' /\ Copied'
    <2> DEFINE head == SubSeq(inq[e], 1, n)
               rest == SubSeq(inq[e], n + 1, Len(inq[e]))
               o == Opp(e)
    <2>1. n \in Nat /\ n > 0
      BY <1>4, ConstFacts
    <2>9. inq[e] \in Seq(Unit) /\ Len(inq[e]) \in Nat
      BY <1>1, Lengths
    <2>2. /\ head \in Seq(Unit) /\ Len(head) = n /\ \A k \in 1 .. n : head[k] = inq[e][k]
          /\ rest \in Seq(Unit) /\ Len(rest) = Len(inq[e]) - n
          /\ \A k \in 1 .. (Len(inq[e]) - n) : rest[k] = inq[e][n + k]
      <3> DEFINE in == inq[e]
      <3>1. in \in Seq(Unit) /\ n \in Nat /\ n <= Len(in)
        BY <1>4, <2>1, <2>9
      <3> HIDE DEF in
      <3>2. /\ SubSeq(in, 1, n) \in Seq(Unit) /\ Len(SubSeq(in, 1, n)) = n
            /\ \A k \in 1 .. n : SubSeq(in, 1, n)[k] = in[k]
            /\ SubSeq(in, n + 1, Len(in)) \in Seq(Unit)
            /\ Len(SubSeq(in, n + 1, Len(in))) = Len(in) - n
            /\ \A k \in 1 .. (Len(in) - n) : SubSeq(in, n + 1, Len(in))[k] = in[n + k]
        BY <3>1, SplitFacts, Zenon
      <3> QED
        BY <3>2 DEF in
    <2> HIDE DEF head, rest
    <2>3. buffer' = [buffer EXCEPT ![c] = head] /\ inq' = [inq EXCEPT ![e] = rest]
      BY <1>4 DEF head, rest
    <2>4. /\ buffer'[c] = head /\ \A d \in Conns : d # c => buffer'[d] = buffer[d]
          /\ inq'[e] = rest /\ \A x \in Ends : x # e => inq'[x] = inq[x]
          /\ pc'[c] = "write" /\ \A d \in Conns : d # c => pc'[d] = pc[d]
      BY <1>1, <1>4, <2>3 DEF TypeOK
    <2>5. TypeOK'
      <3>1. inq' \in [Ends -> Seq(Unit)] /\ buffer' \in [Conns -> Seq(Unit)]
        BY <2>2, <2>3 DEF TypeOK
      <3>2. pc' \in [Conns -> {"none", "new", "socket", "connect", "select", "pick", "read",
                               "write", "send", "close", "close site",
                               "delete", "delete site", "gone"}]
        BY <1>4 DEF TypeOK
      <3> QED
        BY <1>1, <3>1, <3>2 DEF TypeOK
    <2>6. \A d \in Conns : Written(d)'
      BY <2>4 DEF Copied, Written
    <2>7. Chain(e)'
      <3> DEFINE g == Len(got[o])
                 q == Len(outq[o])
                 l == Len(inq[e])
      <3>1. g \in Nat /\ q \in Nat /\ l \in Nat /\ o \in Ends /\ sent[e] \in Nat
        BY <1>1, OppFacts, Lengths
      <3>2. Left(e) = 0
        BY <1>0, <1>1, <1>2 DEF Left
      <3>3. /\ g + q <= sent[e] /\ g + q + 0 + l = sent[e]
            /\ \A k \in 1 .. g : got[o][k] = <<e, k>>
            /\ \A k \in 1 .. q : outq[o][k] = <<e, g + k>>
            /\ \A k \in 1 .. l : inq[e][k] = <<e, g + q + 0 + k>>
        BY <1>1, <1>2, <3>2 DEF Copied, Chain
      <3>4. Len(got'[o]) = g /\ Len(outq'[o]) = q /\ Len(inq'[e]) = l - n /\ l - n \in Nat
        <4>1. l - n \in Nat
          BY <1>4, <2>1, <3>1
        <4>2. Len(inq'[e]) = l - n
          BY <2>2, <2>4
        <4> QED
          BY <1>1, <4>1, <4>2
      <3>5. Left(e)' = n
        <4>1. from'[e[1]] = e[2] /\ buffer'[e[1]] = head
          BY <1>0, <1>1, <2>4
        <4> QED
          BY <4>1, <2>2 DEF Left
      <3>6. UNCHANGED <<got, outq, sent>>
        BY <1>1
      <3> HIDE DEF g, q, l
      <3>7. g + q + n + (l - n) = sent[e]
        BY <3>1, <3>3, <2>1
      <3>8. \A k \in 1 .. n : buffer'[e[1]][k] = <<e, g + q + k>>
        <4> TAKE k \in 1 .. n
        <4>1. k \in 1 .. l /\ g + q + 0 + k = g + q + k
          BY <3>1, <3>4, <2>1
        <4> QED
          BY <1>1, <2>2, <2>4, <3>3, <4>1
      <3>9. \A k \in 1 .. (l - n) : inq'[e][k] = <<e, g + q + n + k>>
        <4> TAKE k \in 1 .. (l - n)
        <4>1. n + k \in 1 .. l /\ g + q + 0 + (n + k) = g + q + n + k
          BY <3>1, <3>4, <2>1
        <4>2. inq'[e][k] = inq[e][n + k]
          BY <2>2, <2>4 DEF l
        <4> QED
          BY <3>3, <4>1, <4>2
      <3>10. /\ g + q <= sent'[e]
             /\ \A k \in 1 .. g : got'[o][k] = <<e, k>>
             /\ \A k \in 1 .. q : outq'[o][k] = <<e, g + k>>
             /\ g + q + n + (l - n) = sent'[e]
        BY <3>3, <3>6, <3>7
      <3> HIDE DEF e
      <3> QED
        BY <1>1, <3>4, <3>5, <3>8, <3>9, <3>10 DEF Chain
    <2>8. ASSUME NEW x \in Ends, x # e PROVE Chain(x)'
      <3>1. Chain(x) /\ x[1] \in Conns /\ x = <<x[1], x[2]>> /\ UNCHANGED <<got, outq, sent>>
        BY <1>1, OppFacts DEF Copied
      <3>2. inq'[x] = inq[x]
        BY <2>4, <2>8
      <3>3. CASE x[1] # c
        BY <1>1, <2>4, <3>1, <3>2, <3>3, ChainKept
      <3>4. CASE x[1] = c
        <4>1. x[2] # s
          BY <2>8, <3>1, <3>4
        <4>2. Left(x) = 0 /\ Left(x)' = 0
          BY <1>0, <1>1, <3>4, <4>1 DEF Left
        <4> QED
          BY <1>2, <3>1, <3>2, <3>4, <4>2, ChainKept
      <3> QED
        BY <3>3, <3>4
    <2> QED
      BY <2>5, <2>6, <2>7, <2>8 DEF Copied
  <1> QED
    BY <1>0, <1>2, <1>1, <1>3, <1>4 DEF Read, Goto

LEMMA WriteCopied ==
    ASSUME TypeOK, Owned, Copied, NEW c \in Conns, Write(c)
    PROVE  TypeOK' /\ Copied'
  <1>0. /\ \E u \in Sides : u = from[c]
        /\ \E v \in Seq(Unit) : v = buffer[c]
    BY DEF TypeOK
  <1>9. PICK s \in Sides, t \in Seq(Unit) : s = from[c] /\ t = buffer[c]
    BY <1>0
  <1> DEFINE e == <<c, s>>
             o == Opp(e)
  <1>1. /\ pc[c] = "send" /\ s \in Sides /\ e \in Ends /\ e[1] = c /\ e[2] = s
        /\ o \in Ends /\ o = <<c, Other(s)>> /\ Other(s) \in Sides /\ o # Nothing
        /\ UNCHANGED <<file, sock, ready, from, sent, inq, closed, got, wild>>
    BY Pairs, SidesFacts DEF Write, Opp
  <1>2. File(c, Other(s)) = o /\ pc[c] \in Alive
    BY <1>1, OwnFiles DEF InLoop, Alive
  <1>3. CASE /\ pc' = [pc EXCEPT ![c] = "close"] /\ UNCHANGED <<buffer, outq>>
    <2>1. TypeOK'
      <3>1. /\ file' \in [Fds -> Ends \cup {Nothing}] /\ sock' \in [Ends -> Fds \cup {-1}]
            /\ wild' \in BOOLEAN
        BY <1>1 DEF TypeOK
      <3> QED
        BY <1>1, <1>3, <3>1, LoopSame, PlaceType DEF streams
    <2>2. pc'[c] = "close" /\ \A d \in Conns : d # c => pc'[d] = pc[d]
      BY <1>3 DEF TypeOK
    <2>3. Copied'
      BY <1>1, <1>3, <2>2, CopiedKept DEF Alive, InLoop
    <2> QED
      BY <2>1, <2>3
  <1>4. ASSUME NEW n \in 1 .. Len(t), Fits(o, n),
               outq' = [outq EXCEPT ![o] = outq[o] \o SubSeq(t, 1, n)],
               buffer' = [buffer EXCEPT ![c] = SubSeq(t, n + 1, Len(t))],
               pc' = [pc EXCEPT ![c] = IF SubSeq(t, n + 1, Len(t)) = <<>>
                                       THEN "pick" ELSE "send"]
        PROVE  TypeOK' /\ Copied'
    <2> DEFINE head == SubSeq(t, 1, n)
               rest == SubSeq(t, n + 1, Len(t))
               long == outq[o] \o head
    <2>1. n \in Nat /\ n > 0 /\ n <= Len(t) /\ Len(t) \in Nat
      OBVIOUS
    <2>2. /\ head \in Seq(Unit) /\ Len(head) = n /\ \A k \in 1 .. n : head[k] = t[k]
          /\ rest \in Seq(Unit) /\ Len(rest) = Len(t) - n
          /\ \A k \in 1 .. (Len(t) - n) : rest[k] = t[n + k]
      BY <2>1, SplitFacts
    <2> HIDE DEF head, rest
    <2>3. /\ long \in Seq(Unit) /\ Len(long) = Len(outq[o]) + n
          /\ \A i \in 1 .. Len(outq[o]) : long[i] = outq[o][i]
          /\ \A i \in 1 .. n : long[Len(outq[o]) + i] = head[i]
      <3>1. outq[o] \in Seq(Unit)
        BY <1>1, Lengths
      <3>2. /\ long \in Seq(Unit) /\ Len(long) = Len(outq[o]) + Len(head)
            /\ \A i \in 1 .. Len(outq[o]) : long[i] = outq[o][i]
            /\ \A i \in 1 .. Len(head) : long[Len(outq[o]) + i] = head[i]
        <4>1. head \in Seq(Unit)
          BY <2>2
        <4> HIDE DEF o
        <4> QED
          BY <3>1, <4>1, AddFacts
      <3> QED
        BY <3>2, <2>2
    <2>4. /\ buffer' = [buffer EXCEPT ![c] = rest]
          /\ outq' = [outq EXCEPT ![o] = long]
          /\ pc' = [pc EXCEPT ![c] = IF rest = <<>> THEN "pick" ELSE "send"]
      BY <1>4 DEF head, rest
    <2> HIDE DEF long
    <2>5. /\ buffer'[c] = rest /\ \A d \in Conns : d # c => buffer'[d] = buffer[d]
          /\ outq'[o] = long /\ \A x \in Ends : x # o => outq'[x] = outq[x]
          /\ pc'[c] = (IF rest = <<>> THEN "pick" ELSE "send")
          /\ \A d \in Conns : d # c => pc'[d] = pc[d]
      BY <1>1, <2>4 DEF TypeOK
    <2>6. TypeOK'
      <3>1. outq' \in [Ends -> Seq(Unit)] /\ buffer' \in [Conns -> Seq(Unit)]
        BY <2>2, <2>3, <2>4 DEF TypeOK
      <3>2. pc' \in [Conns -> {"none", "new", "socket", "connect", "select", "pick", "read",
                               "write", "send", "close", "close site",
                               "delete", "delete site", "gone"}]
        BY <2>4 DEF TypeOK
      <3>3. \A x \in Ends : Len(outq'[x]) <= Window
        <4> TAKE x \in Ends
        <4>1. CASE x = o
          BY <1>4, <2>3, <2>5, <4>1 DEF Fits
        <4>2. CASE x # o
          BY <2>5, <4>2 DEF TypeOK
        <4> QED
          BY <4>1, <4>2
      <3> QED
        BY <1>1, <3>1, <3>2, <3>3 DEF TypeOK
    <2>7. \A d \in Conns : Written(d)'
      BY <2>5 DEF Copied, Written
    <2>8. Chain(e)'
      <3> DEFINE g == Len(got[o])
                 q == Len(outq[o])
                 b == Len(t)
                 l == Len(inq[e])
      <3>1. g \in Nat /\ q \in Nat /\ l \in Nat /\ sent[e] \in Nat
        BY <1>1, Lengths
      <3>2. Left(e) = b
        BY <1>1, <1>9 DEF Left
      <3>3. /\ g + q <= sent[e] /\ g + q + b + l = sent[e]
            /\ \A k \in 1 .. g : got[o][k] = <<e, k>>
            /\ \A k \in 1 .. q : outq[o][k] = <<e, g + k>>
            /\ \A k \in 1 .. b : t[k] = <<e, g + q + k>>
            /\ \A k \in 1 .. l : inq[e][k] = <<e, g + q + b + k>>
        <4>1. Chain(e) /\ pc[e[1]] \in Alive /\ buffer[e[1]] = t
          BY <1>1, <1>2, <1>9 DEF Copied
        <4> HIDE DEF e
        <4> QED
          BY <3>2, <4>1 DEF Chain
      <3>4. Len(got'[o]) = g /\ Len(outq'[o]) = q + n /\ Len(inq'[e]) = l
        BY <1>1, <2>3, <2>5
      <3>5. Left(e)' = b - n
        <4>1. from'[e[1]] = e[2] /\ buffer'[e[1]] = rest
          BY <1>1, <1>9, <2>5
        <4> QED
          BY <4>1, <2>2 DEF Left
      <3>6. UNCHANGED <<got, inq, sent>> /\ b \in Nat /\ n <= b
        BY <1>1, <2>1
      <3>10. \A k \in 1 .. q : long[k] = outq[o][k]
        BY <2>3
      <3>11. \A k \in 1 .. n : long[q + k] = t[k]
        BY <2>2, <2>3
      <3>12. \A k \in 1 .. (b - n) : rest[k] = t[n + k]
        BY <2>2
      <3> HIDE DEF g, q, l, b
      <3>7. /\ g + (q + n) + (b - n) + l = sent[e] /\ g + (q + n) <= sent[e]
            /\ q + n \in Nat /\ b - n \in Nat
        <4>1. \A x, y, z, w, v \in Nat :
                 n <= z /\ x + y + z + w = v
                 => /\ x + (y + n) + (z - n) + w = v /\ x + (y + n) <= v
                    /\ y + n \in Nat /\ z - n \in Nat
          BY <2>1
        <4> QED
          <5>1. g + q + b + l = sent[e]
            BY <3>3
          <5> QED
            BY <3>1, <3>6, <4>1, <5>1
      <3>8. \A k \in 1 .. (q + n) : outq'[o][k] = <<e, g + k>>
        <4> TAKE k \in 1 .. (q + n)
        <4>1. CASE k \in 1 .. q
          BY <2>5, <3>3, <3>10, <4>1
        <4>2. CASE k \notin 1 .. q
          <5>1. /\ k - q \in 1 .. n /\ k - q \in 1 .. b /\ q + (k - q) = k
                /\ g + q + (k - q) = g + k
            BY <2>1, <3>1, <3>6, <4>2
          <5> QED
            BY <2>5, <3>3, <3>11, <5>1
        <4> QED
          BY <4>1, <4>2
      <3>9. \A k \in 1 .. (b - n) : buffer'[e[1]][k] = <<e, g + (q + n) + k>>
        <4> TAKE k \in 1 .. (b - n)
        <4>1. n + k \in 1 .. b /\ g + q + (n + k) = g + (q + n) + k
          BY <3>1, <3>6, <2>1
        <4> QED
          BY <1>1, <2>5, <3>3, <3>12, <4>1
      <3>13. \A k \in 1 .. l : inq'[e][k] = <<e, g + (q + n) + (b - n) + k>>
        <4> TAKE k \in 1 .. l
        <4>1. g + q + b + k = g + (q + n) + (b - n) + k
          BY <3>1, <3>6, <2>1
        <4> QED
          BY <3>3, <3>6, <4>1
      <3>14. /\ g + (q + n) <= sent'[e]
             /\ \A k \in 1 .. g : got'[o][k] = <<e, k>>
             /\ g + (q + n) + (b - n) + l = sent'[e]
        BY <3>3, <3>6, <3>7
      <3> HIDE DEF e
      <3> QED
        BY <1>1, <3>4, <3>5, <3>8, <3>9, <3>13, <3>14 DEF Chain
    <2>9. ASSUME NEW x \in Ends, x # e PROVE Chain(x)'
      <3>1. /\ Chain(x) /\ x[1] \in Conns /\ x = <<x[1], x[2]>>
            /\ Opp(x) \in Ends /\ Opp(x) # o /\ UNCHANGED <<got, inq, sent, from>>
        BY <1>1, <2>9, OppFacts DEF Copied
      <3>2. outq'[Opp(x)] = outq[Opp(x)]
        BY <2>5, <3>1
      <3>3. CASE x[1] # c
        BY <2>5, <3>1, <3>2, <3>3, ChainKept
      <3>4. CASE x[1] = c
        <4>1. x[2] # s
          BY <2>9, <3>1, <3>4
        <4>2. Left(x) = 0 /\ Left(x)' = 0
          BY <1>9, <3>1, <3>4, <4>1 DEF Left
        <4> QED
          BY <1>2, <3>1, <3>2, <3>4, <4>2, ChainKept
      <3> QED
        BY <3>3, <3>4
    <2> QED
      BY <2>6, <2>7, <2>8, <2>9 DEF Copied
  <1> QED
    BY <1>9, <1>2, <1>1, <1>3, <1>4 DEF Write, Goto, Rest
-----------------------------------------------------------------------------
(* The peers *)

LEMMA SendsCopied ==
    ASSUME TypeOK, Owned, Copied, NEW e \in Ends, PeerSends(e)
    PROVE  TypeOK' /\ Owned' /\ Copied'
  <1> DEFINE o == Opp(e)
             x == <<e, sent[e] + 1>>
             l == Len(inq[e])
  <1>1. /\ UNCHANGED <<file, sock, pc, ready, from, buffer, closed, outq, got, wild>>
        /\ sent' = [sent EXCEPT ![e] = sent[e] + 1] /\ inq' = [inq EXCEPT ![e] = Append(inq[e], x)]
    BY DEF PeerSends, loop
  <1>2. /\ sent[e] \in Nat /\ inq[e] \in Seq(Unit) /\ l \in Nat /\ x \in Unit /\ o \in Ends
        /\ Len(got[o]) \in Nat /\ Len(outq[o]) \in Nat /\ Left(e) \in Nat
    BY Lengths, OppFacts DEF Unit
  <1>3. /\ sent'[e] = sent[e] + 1 /\ inq'[e] = Append(inq[e], x)
        /\ \A d \in Ends : d # e => sent'[d] = sent[d] /\ inq'[d] = inq[d]
    BY <1>1 DEF TypeOK
  <1>4. /\ inq'[e] \in Seq(Unit) /\ Len(inq'[e]) = l + 1
        /\ \A k \in 1 .. l : inq'[e][k] = inq[e][k]
        /\ inq'[e][l + 1] = x
    BY <1>2, <1>3, UnitFacts
  <1>5. TypeOK'
    <2>1. sent' \in [Ends -> Nat] /\ inq' \in [Ends -> Seq(Unit)]
      <3>1. sent[e] + 1 \in Nat
        BY <1>2
      <3>2. sent \in [Ends -> Nat] /\ inq \in [Ends -> Seq(Unit)]
        BY DEF TypeOK
      <3> QED
        BY <1>1, <1>3, <1>4, <3>1, <3>2
    <2> QED
      BY <1>1, <2>1 DEF TypeOK
  <1>6. Owned'
    BY <1>1, OwnedSame
  <1>7. \A c \in Conns : Written(c)'
    BY <1>1 DEF Copied, Written
  <1>8. Chain(e)'
    <2> DEFINE g == Len(got[o])
               q == Len(outq[o])
               b == Left(e)
    <2>1. /\ g + q <= sent[e]
          /\ \A k \in 1 .. g : got[o][k] = <<e, k>>
          /\ \A k \in 1 .. q : outq[o][k] = <<e, g + k>>
          /\ pc[e[1]] \in Alive =>
               /\ g + q + b + l = sent[e]
               /\ \A k \in 1 .. b : buffer[e[1]][k] = <<e, g + q + k>>
               /\ \A k \in 1 .. l : inq[e][k] = <<e, g + q + b + k>>
      BY DEF Copied, Chain
    <2>2. Left(e)' = b /\ Len(got'[o]) = g /\ Len(outq'[o]) = q
      BY <1>1 DEF Left
    <2>3. g \in Nat /\ q \in Nat /\ b \in Nat
      BY <1>2
    <2>4. UNCHANGED <<pc, buffer, got, outq>>
      BY <1>1
    <2> HIDE DEF g, q, b, l
    <2>5. g + q <= sent'[e]
      BY <1>2, <1>3, <2>1, <2>3
    <2>6. ASSUME pc[e[1]] \in Alive
          PROVE  /\ g + q + b + (l + 1) = sent'[e]
                 /\ \A k \in 1 .. (l + 1) : inq'[e][k] = <<e, g + q + b + k>>
      <3>1. g + q + b + l = sent[e]
        BY <2>1, <2>6
      <3>2. g + q + b + (l + 1) = sent[e] + 1
        BY <3>1, <1>2, <2>3
      <3>3. ASSUME NEW k \in 1 .. (l + 1) PROVE inq'[e][k] = <<e, g + q + b + k>>
        <4>1. CASE k = l + 1
          BY <1>4, <3>2, <4>1
        <4>2. CASE k # l + 1
          <5>1. k \in 1 .. l
            BY <1>2, <4>2
          <5> QED
            BY <5>1, <1>4, <2>1, <2>6
        <4> QED
          BY <4>1, <4>2
      <3> QED
        BY <3>2, <3>3, <1>3
    <2> QED
      BY <1>4, <2>1, <2>2, <2>4, <2>5, <2>6 DEF Chain
  <1>9. ASSUME NEW d \in Ends, d # e PROVE Chain(d)'
    <2>1. Chain(d) /\ d[1] \in Conns /\ UNCHANGED <<got, outq, pc, from, buffer>>
      BY <1>1, OppFacts DEF Copied
    <2>2. inq'[d] = inq[d] /\ sent'[d] = sent[d]
      BY <1>3, <1>9
    <2> QED
      BY <2>1, <2>2, ChainKept
  <1> QED
    BY <1>5, <1>6, <1>7, <1>8, <1>9 DEF Copied

\* The peer at o reads: what it gets is the next unit of the data of Opp(o).
LEMMA ReadsCopied ==
    ASSUME TypeOK, Owned, Copied, NEW o \in Ends, PeerReads(o)
    PROVE  /\ TypeOK' /\ Owned' /\ Copied'
           /\ Len(got[o]) < sent[Opp(o)]
           /\ got'[o] = Append(got[o], <<Opp(o), Len(got[o]) + 1>>)
           /\ \A d \in Ends : d # o => got'[d] = got[d]
           /\ sent' = sent
  <1> DEFINE e == Opp(o)
             u == Head(outq[o])
             g == Len(got[o])
             q == Len(outq[o])
  <1>1. /\ UNCHANGED <<file, sock, pc, ready, from, buffer, sent, inq, closed, wild>>
        /\ outq[o] # <<>>
        /\ got' = [got EXCEPT ![o] = Append(got[o], u)]
        /\ outq' = [outq EXCEPT ![o] = Tail(outq[o])]
    BY DEF PeerReads, loop
  <1>2. /\ e \in Ends /\ Opp(e) = o /\ e[1] = o[1] /\ e # o
    BY OppFacts
  <1>3. /\ got[o] \in Seq(Unit) /\ outq[o] \in Seq(Unit) /\ g \in Nat /\ q \in Nat
        /\ sent[e] \in Nat /\ Len(inq[e]) \in Nat /\ Left(e) \in Nat
    BY <1>2, Lengths
  <1>4. /\ u = outq[o][1] /\ u \in Unit /\ q > 0
        /\ Tail(outq[o]) \in Seq(Unit) /\ Len(Tail(outq[o])) = q - 1
        /\ \A k \in 1 .. (q - 1) : Tail(outq[o])[k] = outq[o][k + 1]
    <2> HIDE DEF e
    <2> QED
      BY <1>1, <1>3, UnitFacts
  <1>5. /\ Append(got[o], u) \in Seq(Unit) /\ Len(Append(got[o], u)) = g + 1
        /\ \A k \in 1 .. g : Append(got[o], u)[k] = got[o][k]
        /\ Append(got[o], u)[g + 1] = u
    <2> HIDE DEF e, u
    <2> QED
      BY <1>3, <1>4, UnitFacts
  <1> HIDE DEF u
  <1>6. /\ got'[o] = Append(got[o], u) /\ outq'[o] = Tail(outq[o])
        /\ \A d \in Ends : d # o => got'[d] = got[d] /\ outq'[d] = outq[d]
    BY <1>1 DEF TypeOK, u
  <1>7. TypeOK'
    <2>1. got' \in [Ends -> Seq(Unit)] /\ outq' \in [Ends -> Seq(Unit)]
      BY <1>1, <1>4, <1>5 DEF TypeOK, u
    <2>2. \A d \in Ends : Len(outq'[d]) <= Window
      <3> TAKE d \in Ends
      <3>1. CASE d = o
        <4>1. q <= Window
          BY DEF TypeOK
        <4> QED
          <5>1. q - 1 <= Window
            BY <1>3, <4>1, ConstFacts
          <5> QED
            BY <1>4, <1>6, <3>1, <5>1
      <3>2. CASE d # o
        BY <1>6, <3>2 DEF TypeOK
      <3> QED
        BY <3>1, <3>2
    <2> QED
      BY <1>1, <2>1, <2>2 DEF TypeOK
  <1>8. Owned' /\ \A c \in Conns : Written(c)'
    BY <1>1, OwnedSame DEF Copied, Written
  <1>9. /\ g + q <= sent[e]
        /\ \A k \in 1 .. g : got[o][k] = <<e, k>>
        /\ \A k \in 1 .. q : outq[o][k] = <<e, g + k>>
        /\ pc[e[1]] \in Alive =>
             /\ g + q + Left(e) + Len(inq[e]) = sent[e]
             /\ \A k \in 1 .. Left(e) : buffer[e[1]][k] = <<e, g + q + k>>
             /\ \A k \in 1 .. Len(inq[e]) : inq[e][k] = <<e, g + q + Left(e) + k>>
    <2>1. Chain(e)
      BY <1>2 DEF Copied
    <2> HIDE DEF e
    <2> QED
      BY <1>2, <2>1 DEF Chain
  <1>10. u = <<e, g + 1>> /\ g < sent[e]
    <2>1. 1 \in 1 .. q
      BY <1>3, <1>4
    <2>2. outq[o][1] = <<e, g + 1>>
      BY <1>9, <2>1
    <2>3. u = <<e, g + 1>>
      BY <1>4, <2>2
    <2>4. g < sent[e]
      <3>1. g + q <= sent[e]
        BY <1>9
      <3>2. q > 0
        BY <1>4
      <3> HIDE DEF g, q, e
      <3> QED
        BY <3>1, <3>2, <1>3
    <2> QED
      BY <2>3, <2>4
  <1>11. Chain(e)'
    <2> DEFINE b == Left(e)
               l == Len(inq[e])
    <2>1. Left(e)' = b /\ Len(inq'[e]) = l
      BY <1>1 DEF Left
    <2>2. Len(got'[o]) = g + 1 /\ Len(outq'[o]) = q - 1
      BY <1>4, <1>5, <1>6
    <2>3. UNCHANGED <<pc, buffer, inq, sent>>
      BY <1>1
    <2>4. b \in Nat /\ l \in Nat
      BY <1>3
    <2>5. /\ pc[e[1]] \in Alive =>
             /\ g + q + b + l = sent[e]
             /\ \A k \in 1 .. b : buffer[e[1]][k] = <<e, g + q + k>>
             /\ \A k \in 1 .. l : inq[e][k] = <<e, g + q + b + k>>
      BY <1>9
    <2>6. \A k \in 1 .. g : got'[o][k] = <<e, k>>
      BY <1>5, <1>6, <1>9
    <2>7. got'[o][g + 1] = <<e, g + 1>>
      BY <1>5, <1>6, <1>10
    <2>8. \A k \in 1 .. (q - 1) : outq'[o][k] = outq[o][k + 1]
      BY <1>4, <1>6
    <2>9. \A k \in 1 .. q : outq[o][k] = <<e, g + k>>
      BY <1>9
    <2>10. g + q <= sent[e] /\ g \in Nat /\ q \in Nat /\ q > 0
      BY <1>3, <1>4, <1>9
    <2> HIDE DEF g, q, b, l
    <2>11. /\ (g + 1) + (q - 1) = g + q
           /\ \A k \in Int : (g + 1) + (q - 1) + k = g + q + k
           /\ \A k \in Int : (g + 1) + (q - 1) + b + k = g + q + b + k
           /\ (g + 1) + (q - 1) + b + l = g + q + b + l
      BY <2>4, <2>10
    <2>12. \A k \in 1 .. (g + 1) : got'[o][k] = <<e, k>>
      <3> TAKE k \in 1 .. (g + 1)
      <3>1. k \in 1 .. g \/ k = g + 1
        BY <2>10
      <3> QED
        BY <3>1, <2>6, <2>7
    <2>13. \A k \in 1 .. (q - 1) : outq'[o][k] = <<e, (g + 1) + k>>
      <3> TAKE k \in 1 .. (q - 1)
      <3>1. k + 1 \in 1 .. q /\ g + (k + 1) = (g + 1) + k
        BY <2>10
      <3> QED
        BY <3>1, <2>8, <2>9
    <2>14. pc'[e[1]] \in Alive =>
             /\ (g + 1) + (q - 1) + b + l = sent'[e]
             /\ \A k \in 1 .. b : buffer'[e[1]][k] = <<e, (g + 1) + (q - 1) + k>>
             /\ \A k \in 1 .. l : inq'[e][k] = <<e, (g + 1) + (q - 1) + b + k>>
      <3> SUFFICES ASSUME pc[e[1]] \in Alive
                   PROVE  /\ (g + 1) + (q - 1) + b + l = sent[e]
                          /\ \A k \in 1 .. b :
                                buffer[e[1]][k] = <<e, (g + 1) + (q - 1) + k>>
                          /\ \A k \in 1 .. l :
                                inq[e][k] = <<e, (g + 1) + (q - 1) + b + k>>
        BY <2>3
      <3>1. (g + 1) + (q - 1) + b + l = sent[e]
        BY <2>5, <2>11
      <3>2. ASSUME NEW k \in 1 .. b
            PROVE  buffer[e[1]][k] = <<e, (g + 1) + (q - 1) + k>>
        BY <2>5, <2>11
      <3>3. ASSUME NEW k \in 1 .. l
            PROVE  inq[e][k] = <<e, (g + 1) + (q - 1) + b + k>>
        BY <2>5, <2>11
      <3> QED
        BY <3>1, <3>2, <3>3
    <2>15. (g + 1) + (q - 1) <= sent'[e]
      BY <2>3, <2>10, <2>11
    <2> HIDE DEF e
    <2> QED
      BY <1>2, <2>1, <2>2, <2>12, <2>13, <2>14, <2>15 DEF Chain
  <1>12. ASSUME NEW d \in Ends, d # e PROVE Chain(d)'
    <2>1. /\ Chain(d) /\ d[1] \in Conns /\ UNCHANGED <<sent, inq, pc, from, buffer>>
          /\ Opp(d) \in Ends /\ Opp(d) # o
      BY <1>1, <1>2, <1>12, OppFacts DEF Copied
    <2>2. got'[Opp(d)] = got[Opp(d)] /\ outq'[Opp(d)] = outq[Opp(d)]
      BY <1>6, <2>1
    <2> QED
      BY <2>1, <2>2, ChainKept
  <1>13. Copied'
    BY <1>8, <1>11, <1>12 DEF Copied
  <1> QED
    BY <1>1, <1>6, <1>7, <1>8, <1>10, <1>13

-----------------------------------------------------------------------------
(* Theorems *)

LEMMA InitInv == Init => IInv
  <1> SUFFICES ASSUME Init PROVE IInv
    OBVIOUS
  <1>1. TypeOK
    <2>1. closed \in [Ends -> BOOLEAN] /\ wild \in BOOLEAN
      BY Zenon DEF Init
    <2>2. /\ file \in [Fds -> Ends \cup {Nothing}] /\ sock \in [Ends -> Fds \cup {-1}]
          /\ sent \in [Ends -> Nat]
      BY DEF Init
    <2>3. /\ inq \in [Ends -> Seq(Unit)] /\ outq \in [Ends -> Seq(Unit)]
          /\ got \in [Ends -> Seq(Unit)] /\ buffer \in [Conns -> Seq(Unit)]
      BY NoUnits DEF Init
    <2>4. \A e \in Ends : Len(outq[e]) <= Window
      BY ConstFacts DEF Init
    <2>5. /\ pc \in [Conns -> {"none", "new", "socket", "connect", "select", "pick", "read",
                               "write", "send", "close", "close site",
                               "delete", "delete site", "gone"}]
          /\ ready \in [Conns -> SUBSET Sides] /\ from \in [Conns -> Sides]
      BY SidesFacts DEF Init
    <2> QED
      BY <2>1, <2>2, <2>3, <2>4, <2>5 DEF TypeOK
  <1>2. Owned
    BY Pairs, SidesFacts DEF Init, Owned, Named, Held, WithClient, WithSite, Closing, InLoop
  <1>3. Copied
    <2>1. \A c \in Conns : Written(c)
      BY DEF Init, Written
    <2>2. ASSUME NEW e \in Ends PROVE Chain(e)
      <3>1. Opp(e) \in Ends /\ e[1] \in Conns
        BY OppFacts
      <3>2. Len(got[Opp(e)]) = 0 /\ Len(outq[Opp(e)]) = 0 /\ Len(inq[e]) = 0 /\ Left(e) = 0
            /\ sent[e] = 0
        BY <3>1 DEF Init, Left
      <3> QED
        BY <3>2 DEF Chain
    <2> QED
      BY <2>1, <2>2 DEF Copied
  <1> QED
    BY <1>1, <1>2, <1>3 DEF IInv

LEMMA ThreadInv ==
    ASSUME TypeOK, Owned, Copied, NEW c \in Conns, AcceptConn(c) \/ Thread(c)
    PROVE  IInv'
  <1>1. CASE Read(c)
    BY <1>1, ReadCopied, ThreadOwned DEF IInv
  <1>2. CASE Write(c)
    BY <1>2, WriteCopied, ThreadOwned DEF IInv
  <1>3. CASE ConnectSite(c) \/ Select(c) \/ PickSide(c) \/ AwaitWritable(c)
    BY <1>3, LoopType, LoopCopied, ThreadOwned DEF IInv
  <1>4. CASE \/ AcceptConn(c) \/ CreateThread(c) \/ OpenSite(c)
             \/ CloseClient(c) \/ CloseSite(c) \/ DeleteSite(c)
    BY <1>4, SocketsType, SocketsCopied, ThreadOwned DEF IInv
  <1> QED
    BY <1>1, <1>2, <1>3, <1>4 DEF Thread

LEMMA ClosesInv ==
    ASSUME TypeOK, Owned, Copied, NEW e \in Ends, PeerCloses(e)
    PROVE  IInv'
  <1>1. UNCHANGED <<file, sock, pc, ready, from, buffer, sent, inq, outq, got, wild>>
    BY DEF PeerCloses, loop
  <1>2. closed' \in [Ends -> BOOLEAN]
    BY DEF PeerCloses, TypeOK
  <1>3. TypeOK'
    BY <1>1, <1>2 DEF TypeOK
  <1>4. Owned'
    BY <1>1, OwnedSame
  <1>5. \A c \in Conns : Written(c)'
    BY <1>1 DEF Copied, Written
  <1>6. ASSUME NEW d \in Ends PROVE Chain(d)'
    BY <1>1, ChainKept DEF Copied
  <1> QED
    BY <1>3, <1>4, <1>5, <1>6 DEF IInv, Copied

LEMMA NextInv == IInv /\ [Next]_vars => IInv'
  <1> SUFFICES ASSUME IInv, [Next]_vars PROVE IInv'
    OBVIOUS
  <1>1. CASE UNCHANGED vars
    <2>1. TypeOK'
      BY <1>1 DEF IInv, TypeOK, vars, loop, streams
    <2>2. UNCHANGED <<file, sock, pc, from, buffer, sent, inq, outq, got, wild>>
      BY <1>1 DEF vars, loop, streams
    <2>3. ASSUME ~wild PROVE Owned' /\ Copied'
      <3>1. Owned' /\ \A c \in Conns : Written(c)'
        BY <2>2, <2>3, OwnedSame DEF IInv, Copied, Written
      <3>2. ASSUME NEW d \in Ends PROVE Chain(d)'
        BY <2>2, <2>3, ChainKept DEF IInv, Copied
      <3> QED
        BY <3>1, <3>2 DEF Copied
    <2> QED
      BY <2>1, <2>2, <2>3 DEF IInv
  <1>2. CASE Next
    <2>1. TypeOK /\ Owned /\ Copied
      BY <1>2 DEF IInv, Next
    <2>2. ASSUME NEW c \in Conns, AcceptConn(c) \/ Thread(c) PROVE IInv'
      BY <2>1, <2>2, ThreadInv
    <2>3. ASSUME NEW e \in Ends, PeerSends(e) \/ PeerCloses(e) \/ PeerReads(e) PROVE IInv'
      BY <2>1, <2>3, SendsCopied, ClosesInv, ReadsCopied DEF IInv
    <2> QED
      BY <1>2, <2>2, <2>3 DEF Next
  <1> QED
    BY <1>1, <1>2

LEMMA Inductive == Spec => []IInv
  BY InitInv, NextInv, PTL DEF Spec

\* For any number of connections and descriptors, whatever thread opens and
\* closes descriptors when: until the listener deletes an object whose
\* server_sock was never set, what a thread calls its sockets are its own, and
\* a thread that has ended has left none open.
THEOREM SocketsApart == Spec => []SocketsOwned
  <1>1. IInv => SocketsOwned
    <2> SUFFICES ASSUME IInv PROVE SocketsOwned
      OBVIOUS
    <2>1. ASSUME ~wild, NEW c \in Conns, pc[c] \in InLoop
          PROVE  \A s \in Sides : File(c, s) = <<c, s>>
      BY <2>1, OwnFiles DEF IInv
    <2>2. ASSUME ~wild, NEW c \in Conns, pc[c] = "gone", NEW fd \in Fds
          PROVE  file[fd][1] # c
      <3>1. file[fd] # <<c, "client">> /\ file[fd] # <<c, "site">>
        BY <2>2 DEF IInv, Owned, Held, WithClient, WithSite, Closing, InLoop
      <3>2. CASE file[fd] = Nothing
        BY <3>2, ForwardAssumption DEF Nothing
      <3>3. CASE file[fd] # Nothing
        <4>1. file[fd] \in Ends
          BY <3>3 DEF IInv, TypeOK
        <4>2. file[fd] = <<file[fd][1], file[fd][2]>> /\ file[fd][2] \in {"site", "client"}
          BY <4>1, OppFacts, SidesFacts
        <4> QED
          BY <3>1, <4>2
      <3> QED
        BY <3>2, <3>3
    <2> QED
      BY <2>1, <2>2 DEF SocketsOwned, IInv, InLoop
  <1> QED
    BY <1>1, Inductive, PTL

\* A step of Forward is, for each direction of each connection, a step of its
\* Pipe or none.
LEMMA StepIsPipe ==
    ASSUME IInv, [Next]_vars, NEW e \in Ends
    PROVE  \/ wild
           \/ Copy(e)!Next
           \/ UNCHANGED <<sent[e], got[<<e[1], Other(e[2])>>]>>
  <1> DEFINE o == <<e[1], Other(e[2])>>
  <1>1. o = Opp(e) /\ Opp(e) \in Ends
    BY OppFacts DEF Opp
  <1>2. CASE UNCHANGED <<sent, got>>
    BY <1>2
  <1>3. ASSUME NEW d \in Ends, PeerSends(d), ~wild
        PROVE  Copy(e)!Next \/ UNCHANGED <<sent[e], got[o]>>
    <2>1. got' = got /\ sent' = [sent EXCEPT ![d] = sent[d] + 1] /\ sent[d] < MaxUnits[d]
      BY <1>3 DEF PeerSends
    <2>2. CASE d = e
      <3>1. sent'[e] = sent[e] + 1
        BY <2>1, <2>2 DEF IInv, TypeOK
      <3> QED
        BY <2>1, <2>2, <3>1 DEF Copy!Next, Copy!Send
    <2>3. CASE d # e
      <3>1. sent'[e] = sent[e]
        BY <2>1, <2>3 DEF IInv, TypeOK
      <3> QED
        BY <2>1, <3>1
    <2> QED
      BY <2>2, <2>3
  <1>4. ASSUME NEW d \in Ends, PeerReads(d), ~wild
        PROVE  Copy(e)!Next \/ UNCHANGED <<sent[e], got[o]>>
    <2>1. /\ Len(got[d]) < sent[Opp(d)]
          /\ got'[d] = Append(got[d], <<Opp(d), Len(got[d]) + 1>>)
          /\ \A x \in Ends : x # d => got'[x] = got[x]
          /\ sent' = sent
      BY <1>4, ReadsCopied DEF IInv
    <2>2. CASE d = Opp(e)
      <3>1. Opp(d) = e
        BY <2>2, OppFacts
      <3> QED
        BY <1>1, <2>1, <2>2, <3>1 DEF Copy!Next, Copy!Deliver
    <2>3. CASE d # Opp(e)
      BY <1>1, <2>1, <2>3
    <2> QED
      BY <2>2, <2>3
  <1>5. CASE ~wild /\ Next
    <2>1. ASSUME NEW c \in Conns, AcceptConn(c) \/ Thread(c) PROVE UNCHANGED <<sent, got>>
      BY <2>1 DEF AcceptConn, Thread, CreateThread, OpenSite, ConnectSite, Select, PickSide,
                  Read, AwaitWritable, Write, CloseClient, CloseSite, DeleteSite, streams
    <2>2. ASSUME NEW d \in Ends, PeerCloses(d) PROVE UNCHANGED <<sent, got>>
      BY <2>2 DEF PeerCloses
    <2> QED
      BY <1>2, <1>3, <1>4, <1>5, <2>1, <2>2 DEF Next
  <1>6. CASE UNCHANGED vars
    BY <1>2, <1>6 DEF vars, streams
  <1> QED
    BY <1>5, <1>6

\* For any sizes of the buffer and the sockets and any number of connections,
\* each direction of each connection is a pipe, as long as the sockets are the
\* threads' own.
THEOREM ConnsArePipes == Spec => EachIsPipe
  <1>1. IInv /\ [Next]_vars =>
          [\A e \in Ends : \/ wild
                           \/ Copy(e)!Next
                           \/ UNCHANGED <<sent[e], got[<<e[1], Other(e[2])>>]>>]_vars
    BY StepIsPipe
  <1> QED
    BY <1>1, Inductive, PTL DEF Spec, EachIsPipe
=============================================================================
