-------------------------- MODULE Whitelists_proofs --------------------------
(* What the whitelists guarantee, for any sites, threads, works and          *)
(* restarts.                                                                 *)
EXTENDS Whitelists, TLAPS, WellFoundedInduction

Changing == {"insert", "note", "save", "truncate", "write"}
Saving   == {"save", "truncate", "write"}
Busy(s, w) == work[s].list = w /\ work[s].at \in Changing
Serial(w)  == "overlap" \notin trouble[w]
Unique(l)  == \A i, j \in DOMAIN l : l[i].key = l[j].key => i = j

\* What a thread is doing fits where it is.
Fits(s) ==
    /\ phase # "up" => work[s].at = "idle"
    /\ work[s].at = "insert" => work[s].of = "add"
    /\ work[s].at \in {"note", "lookfp", "lookip", "allowed"} => work[s].of = "check"
    /\ work[s].at # "idle" => work[s].of # "none"
    /\ work[s].of = "add" => Stored(work[s].list, work[s].key) \in ever[work[s].list]
    /\ work[s].of = "check" => /\ work[s].list = "fp"
                               /\ work[s].key \in Fps \X {"upper"}
                               /\ work[s].ip \in Ips
    /\ work[s].of \in {"add", "del"} => work[s].key \in Typed(work[s].list)
    /\ work[s].at = "allowed" => \/ work[s].key \in ever["fp"]
                                 \/ <<work[s].ip, "upper">> \in ever["ip"]

\* A key in a list, in a file or about to be written was added once.
EverInv ==
    /\ \A s \in Threads : Fits(s)
    /\ \A w \in Lists : Keys(list[w]) \cup Keys(file[w]) \subseteq ever[w] \cup {Cut}
    /\ \A s \in Threads : Keys(work[s].data) \subseteq ever[work[s].list] \cup {Cut}

\* The list and its file fit what a thread is doing to them.
Ordered(s, w) ==
    Busy(s, w) =>
        /\ work[s].at \in {"truncate", "write"} => work[s].data = list[w]
        /\ work[s].at = "write" => file[w] = <<>>
        /\ work[s].of = "add" => (work[s].at # "insert" <=> Has(w, work[s].key))
        /\ work[s].of = "del" => ~Has(w, work[s].key)

\* As long as one thread at a time changes a list, it has no key twice and what
\* is saved is the list.
SerialOn(w) ==
    Serial(w) =>
        /\ Unique(list[w]) /\ Unique(file[w])
        /\ \A s, t \in Threads : Busy(s, w) /\ Busy(t, w) => s = t
        /\ \A s \in Threads : Ordered(s, w)

\* What was deleted is in neither the list nor its file.
RevokedOut(w) ==
    trouble[w] \subseteq {"torn"} => revoked[w] \cap (Keys(list[w]) \cup Keys(file[w])) = {}

\* What was added is in the list, and in its file unless it is being written.
GrantedIn(w) ==
    trouble[w] = {} =>
        /\ phase = "up" => granted[w] \subseteq Keys(list[w])
        /\ \/ granted[w] \subseteq Keys(file[w])
           \/ \E s \in Threads : work[s].at = "write" /\ work[s].list = w

Kept(w) == SerialOn(w) /\ RevokedOut(w) /\ GrantedIn(w)

\* What has been read of the files is in the lists.
ReadInv ==
    /\ phase = "down" => \A w \in Lists : list[w] = <<>>
    /\ phase = "reading" => \A w \in Lists :
          /\ nread[w] \in 0 .. Len(file[w])
          /\ Keys(list[w]) = {file[w][i].key : i \in 1 .. nread[w]}

KeptInv == ReadInv /\ \A w \in Lists : Kept(w)

\* An entry of k in l has ip.
SeenIn(l, k, ip) ==
    \E i \in DOMAIN l : l[i].key = k /\ \E j \in DOMAIN l[i].ips : l[i].ips[j] = ip

\* A thread that calls an ip new is the first in this run to do so.
NewIp(s) ==
    Busy(s, "fp") /\ work[s].of = "check" =>
        /\ [fp |-> work[s].key[1], ip |-> work[s].ip, life |-> life] \notin noted
        /\ work[s].at \in Saving => SeenIn(list["fp"], work[s].key, work[s].ip)
        /\ work[s].at = "note" => /\ work[s].pos \in DOMAIN list["fp"]
                                  /\ list["fp"][work[s].pos].key = work[s].key

\* The ips that this run of the program has called new are in their entries.
NotedInv ==
    /\ \A n \in noted : n.life <= life /\ (phase = "reading" => n.life < life)
    /\ Serial("fp") =>
         /\ phase = "up" => \A n \in noted : n.life = life =>
                                SeenIn(list["fp"], <<n.fp, "upper">>, n.ip)
         /\ \A s \in Threads : NewIp(s)
         /\ \A r \in renoted : r.first # r.again

USE WhitelistsAssumption DEF WhitelistsAssumption

-----------------------------------------------------------------------------
(* Sequences of entries *)

LEMMA Smallest ==
    ASSUME NEW T, T \subseteq Nat, T # {}
    PROVE  \E x \in T : \A y \in T : x <= y
  <1>1. PICK x \in T : \A y \in T : <<y, x>> \notin OpToRel(<, Nat)
    BY NatLessThanWellFounded, WFMin
  <1>2. \A y \in T : x <= y
    <2> TAKE y \in T
    <2>1. x \in Nat /\ y \in Nat
      OBVIOUS
    <2>2. ~ (y < x)
      BY <1>1, <2>1, Zenon DEF OpToRel
    <2> QED
      BY <2>1, <2>2
  <1> QED
    BY <1>2

LEMMA FirstFacts ==
    ASSUME NEW l \in Seq(Entries), NEW k \in Keys(l)
    PROVE  First(l, k) \in 1 .. Len(l) /\ l[First(l, k)].key = k
  <1> DEFINE T == {i \in DOMAIN l : l[i].key = k}
  <1>1. T \subseteq Nat /\ T # {}
    BY DEF Keys
  <1>2. PICK i \in T : \A j \in T : i <= j
    BY <1>1, Smallest
  <1>3. \A j \in 1 .. i - 1 : l[j].key # k
    BY <1>2
  <1>4. l[i].key = k /\ i \in DOMAIN l
    BY <1>2
  <1> HIDE DEF T
  <1>5. First(l, k) \in DOMAIN l /\ l[First(l, k)].key = k
    BY <1>3, <1>4 DEF First
  <1> QED
    BY <1>5

LEMMA AppendFacts ==
    ASSUME NEW l \in Seq(Entries), NEW e \in Entries
    PROVE  /\ Append(l, e) \in Seq(Entries)
           /\ Keys(Append(l, e)) = Keys(l) \cup {e.key}
           /\ Unique(l) /\ e.key \notin Keys(l) => Unique(Append(l, e))
  <1> DEFINE m == Append(l, e)
  <1>1. /\ m \in Seq(Entries) /\ Len(l) \in Nat /\ DOMAIN l = 1 .. Len(l)
        /\ DOMAIN m = 1 .. Len(l) + 1
        /\ \A i \in 1 .. Len(l) : m[i] = l[i]
        /\ m[Len(l) + 1] = e
    OBVIOUS
  <1> HIDE DEF m
  <1>2. Keys(m) = Keys(l) \cup {e.key}
    BY <1>1 DEF Keys
  <1>3. Unique(l) /\ e.key \notin Keys(l) => Unique(m)
    BY <1>1 DEF Keys, Unique
  <1> QED
    BY <1>1, <1>2, <1>3 DEF m

LEMMA RemoveFacts ==
    ASSUME NEW l \in Seq(Entries), NEW i \in 1 .. Len(l)
    PROVE  /\ RemoveAt(l, i) \in Seq(Entries)
           /\ Keys(RemoveAt(l, i)) \subseteq Keys(l)
           /\ \A n \in DOMAIN l : n # i => \E m \in DOMAIN RemoveAt(l, i) :
                                              RemoveAt(l, i)[m] = l[n]
           /\ Unique(l) => Unique(RemoveAt(l, i)) /\ l[i].key \notin Keys(RemoveAt(l, i))
  <1> DEFINE a == SubSeq(l, 1, i - 1)
             b == SubSeq(l, i + 1, Len(l))
             r == RemoveAt(l, i)
  <1>1. /\ a \in Seq(Entries) /\ Len(a) = i - 1
        /\ \A n \in 1 .. i - 1 : a[n] = l[n]
    OBVIOUS
  <1>2. /\ b \in Seq(Entries) /\ Len(b) = Len(l) - i
        /\ \A n \in 1 .. Len(l) - i : b[n] = l[i + n]
    OBVIOUS
  <1>3. r = a \o b
    BY DEF RemoveAt
  <1> HIDE DEF a, b, r
  <1>4. /\ r \in Seq(Entries) /\ Len(r) = Len(l) - 1 /\ Len(l) \in Nat
        /\ DOMAIN r = 1 .. Len(l) - 1 /\ DOMAIN l = 1 .. Len(l)
    BY <1>1, <1>2, <1>3
  <1>5. \A n \in 1 .. Len(l) - 1 : r[n] = IF n < i THEN l[n] ELSE l[n + 1]
    <2> TAKE n \in 1 .. Len(l) - 1
    <2>1. CASE n < i
      BY <1>1, <1>2, <1>3, <2>1
    <2>2. CASE n >= i
      <3>1. r[n] = b[n - (i - 1)]
        BY <1>1, <1>2, <1>3, <2>2
      <3>2. n - (i - 1) \in 1 .. Len(l) - i /\ i + (n - (i - 1)) = n + 1
        BY <2>2
      <3> QED
        BY <1>2, <2>2, <3>1, <3>2
    <2> QED
      BY <2>1, <2>2
  <1> DEFINE q(n) == IF n < i THEN n ELSE n + 1
  <1>q. \A n \in DOMAIN r : q(n) \in DOMAIN l /\ q(n) # i /\ r[n] = l[q(n)]
    BY <1>4, <1>5
  <1>i. \A n, m \in DOMAIN r : q(n) = q(m) => n = m
    BY <1>4
  <1> HIDE DEF q
  <1>6. Keys(r) \subseteq Keys(l)
    BY <1>q, Zenon DEF Keys
  <1>7. \A n \in DOMAIN l : n # i => \E m \in DOMAIN r : r[m] = l[n]
    <2> TAKE n \in DOMAIN l
    <2> HAVE n # i
    <2>1. CASE n < i
      BY <1>4, <1>5, <2>1
    <2>2. CASE n > i
      <3>1. n - 1 \in DOMAIN r /\ r[n - 1] = l[n]
        BY <1>4, <1>5, <2>2
      <3> QED
        BY <3>1
    <2> QED
      BY <2>1, <2>2, <1>4
  <1>8. Unique(l) => Unique(r) /\ l[i].key \notin Keys(r)
    <2> SUFFICES ASSUME Unique(l)
                 PROVE  Unique(r) /\ l[i].key \notin Keys(r)
      OBVIOUS
    <2>1. \A n, m \in DOMAIN r : r[n].key = r[m].key => n = m
      BY <1>q, <1>i DEF Unique
    <2>2. \A n \in DOMAIN r : r[n].key # l[i].key
      BY <1>q, <1>4 DEF Unique
    <2> QED
      BY <2>1, <2>2, Zenon DEF Unique, Keys
  <1> QED
    BY <1>4, <1>6, <1>7, <1>8 DEF r

LEMMA ConcatFacts ==
    ASSUME NEW l \in Seq(Entries), NEW m \in Seq(Entries)
    PROVE  l \o m \in Seq(Entries) /\ Keys(l \o m) = Keys(l) \cup Keys(m)
  <1> DEFINE c == l \o m
  <1>1. /\ c \in Seq(Entries) /\ Len(l) \in Nat /\ Len(m) \in Nat
        /\ DOMAIN l = 1 .. Len(l) /\ DOMAIN m = 1 .. Len(m)
        /\ DOMAIN c = 1 .. Len(l) + Len(m)
        /\ \A i \in 1 .. Len(l) : c[i] = l[i]
        /\ \A i \in 1 .. Len(m) : c[Len(l) + i] = m[i]
    OBVIOUS
  <1> HIDE DEF c
  <1>2. \A i \in DOMAIN c : \/ \E j \in DOMAIN l : c[i] = l[j]
                            \/ \E j \in DOMAIN m : c[i] = m[j]
    <2> TAKE i \in DOMAIN c
    <2>1. CASE i <= Len(l)
      BY <1>1, <2>1
    <2>2. CASE i > Len(l)
      <3>1. i - Len(l) \in DOMAIN m /\ Len(l) + (i - Len(l)) = i
        BY <1>1, <2>2
      <3> QED
        BY <1>1, <3>1
    <2> QED
      BY <1>1, <2>1, <2>2
  <1>3. /\ \A j \in DOMAIN l : \E i \in DOMAIN c : c[i] = l[j]
        /\ \A j \in DOMAIN m : \E i \in DOMAIN c : c[i] = m[j]
    <2>1. \A j \in DOMAIN l : j \in DOMAIN c /\ c[j] = l[j]
      BY <1>1
    <2>2. \A j \in DOMAIN m : Len(l) + j \in DOMAIN c /\ c[Len(l) + j] = m[j]
      BY <1>1
    <2> QED
      BY <2>1, <2>2, Zenon
  <1>4. \A k : k \in Keys(c) <=> k \in Keys(l) \cup Keys(m)
    BY <1>2, <1>3 DEF Keys
  <1>5. Keys(c) = Keys(l) \cup Keys(m)
    BY <1>4
  <1> QED
    BY <1>1, <1>5 DEF c

LEMMA SubSeqFacts ==
    ASSUME NEW l \in Seq(Entries), NEW i \in 1 .. Len(l) + 1, NEW j \in 0 .. Len(l)
    PROVE  SubSeq(l, i, j) \in Seq(Entries) /\ Keys(SubSeq(l, i, j)) \subseteq Keys(l)
  <1> DEFINE r == SubSeq(l, i, j)
  <1>1. /\ r \in Seq(Entries) /\ DOMAIN l = 1 .. Len(l) /\ Len(l) \in Nat
        /\ DOMAIN r = 1 .. Len(r) /\ Len(r) \in Nat
        /\ Len(r) = IF i <= j THEN j - i + 1 ELSE 0
        /\ \A n \in 1 .. Len(r) : r[n] = l[i + n - 1]
    OBVIOUS
  <1> HIDE DEF r
  <1>2. \A n \in DOMAIN r : \E m \in DOMAIN l : r[n] = l[m]
    <2> TAKE n \in DOMAIN r
    <2>1. i + n - 1 \in DOMAIN l
      BY <1>1
    <2> QED
      BY <1>1, <2>1
  <1> QED
    BY <1>1, <1>2 DEF Keys, r

LEMMA CutFacts ==
    /\ Entry(Cut, <<>>) \in Entries
    /\ <<Entry(Cut, <<>>)>> \in Seq(Entries)
    /\ Keys(<<Entry(Cut, <<>>)>>) = {Cut}
  <1>1. Cut \in AnyKey
    BY DEF Cut, AnyKey, Names, Spellings
  <1>2. Entry(Cut, <<>>) \in Entries /\ Entry(Cut, <<>>).key = Cut
    BY <1>1 DEF Entry, Entries
  <1> HIDE DEF Cut
  <1>3. \A e \in Entries : <<e>> \in Seq(Entries) /\ DOMAIN <<e>> = {1} /\ <<e>>[1] = e
    OBVIOUS
  <1> QED
    BY <1>2, <1>3 DEF Keys

LEMMA RestFacts ==
    ASSUME NEW l \in Seq(Entries), NEW n \in Nat, NEW r \in Rest(l, n)
    PROVE  /\ r \in Seq(Entries)
           /\ Keys(r) \subseteq Keys(l) \cup {Cut}
           /\ l = <<>> => r = <<>>
  <1>1. CASE Len(l) <= n
    <2>1. r = <<>> /\ r \in Seq(Entries) /\ Keys(r) = {}
      BY <1>1 DEF Rest, Keys
    <2> QED
      BY <2>1
  <1>2. CASE Len(l) > n
    <2>1. Len(l) \in Nat /\ l # <<>>
      BY <1>2
    <2>2. /\ n + 1 \in 1 .. Len(l) + 1 /\ n + 2 \in 1 .. Len(l) + 1
          /\ Len(l) \in 0 .. Len(l)
      BY <1>2, <2>1
    <2>3. CASE r = SubSeq(l, n + 1, Len(l))
      BY <2>1, <2>2, <2>3, SubSeqFacts
    <2>4. CASE r = <<Entry(Cut, <<>>)>> \o SubSeq(l, n + 2, Len(l))
      <3>1. /\ SubSeq(l, n + 2, Len(l)) \in Seq(Entries)
            /\ Keys(SubSeq(l, n + 2, Len(l))) \subseteq Keys(l)
        BY <2>2, SubSeqFacts
      <3>2. /\ r \in Seq(Entries)
            /\ Keys(r) = Keys(<<Entry(Cut, <<>>)>>) \cup Keys(SubSeq(l, n + 2, Len(l)))
        BY <2>4, <3>1, CutFacts, ConcatFacts
      <3> QED
        BY <2>1, <3>1, <3>2, CutFacts
    <2>5. ~ (Len(l) <= n)
      BY <1>2, <2>1
    <2> QED
      BY <2>3, <2>4, <2>5 DEF Rest
  <1>3. Len(l) \in Nat
    OBVIOUS
  <1> QED
    BY <1>1, <1>2, <1>3

\* m is l with new put behind the ips of entry i.
Grown(l, m, i, new) ==
    /\ DOMAIN m = DOMAIN l /\ i \in DOMAIN l /\ l[i].ips \in Seq(AnyIp)
    /\ \A j \in DOMAIN l : m[j].key = l[j].key
    /\ m[i].ips = Append(l[i].ips, new)
    /\ \A j \in DOMAIN l : j # i => m[j] = l[j]

\* CheckIp changes the ips of one entry.
LEMMA IpsFacts ==
    ASSUME NEW l \in Seq(Entries), NEW i \in DOMAIN l, NEW ip \in AnyIp,
           NEW m, m = [l EXCEPT ![i].ips = Append(@, ip)]
    PROVE  m \in Seq(Entries) /\ Grown(l, m, i, ip)
  <1>1. /\ Len(l) \in Nat /\ DOMAIN l = 1 .. Len(l) /\ l \in [1 .. Len(l) -> Entries]
        /\ l[i] \in Entries
    OBVIOUS
  <1> DEFINE e == [l[i] EXCEPT !.ips = Append(@, ip)]
  <1>2. l[i].key \in AnyKey /\ l[i].ips \in Seq(AnyIp)
    BY <1>1 DEF Entries
  <1>3. e \in Entries /\ e.key = l[i].key /\ e.ips = Append(l[i].ips, ip)
    <2>1. Append(l[i].ips, ip) \in Seq(AnyIp)
      BY <1>2
    <2> QED
      BY <1>1, <1>2, <2>1 DEF Entries
  <1>4. m = [l EXCEPT ![i] = e]
    OBVIOUS
  <1> HIDE DEF e
  <1>5. /\ m \in [1 .. Len(l) -> Entries] /\ m[i] = e
        /\ \A j \in DOMAIN l : j # i => m[j] = l[j]
    BY <1>1, <1>3, <1>4
  <1>6. m \in Seq(Entries) /\ DOMAIN m = DOMAIN l
    BY <1>1, <1>5
  <1>7. \A j \in DOMAIN l : m[j].key = l[j].key
    BY <1>3, <1>5
  <1> QED
    BY <1>2, <1>3, <1>5, <1>6, <1>7 DEF Grown

LEMMA GrownKeys ==
    ASSUME NEW l, NEW m, NEW i, NEW ip, Grown(l, m, i, ip)
    PROVE  Keys(m) = Keys(l) /\ (Unique(l) => Unique(m))
  <1>1. DOMAIN m = DOMAIN l /\ \A j \in DOMAIN l : m[j].key = l[j].key
    BY DEF Grown
  <1>2. Keys(m) = Keys(l)
    BY <1>1 DEF Keys
  <1>3. Unique(l) => Unique(m)
    BY <1>1 DEF Unique
  <1> QED
    BY <1>2, <1>3

\* What CheckIp does to the list.
LEMMA CheckIpFacts ==
    ASSUME list \in [Lists -> Seq(Entries)], NEW s, work[s].ip \in AnyIp, CheckIp(s)
    PROVE  /\ list' \in [Lists -> Seq(Entries)]
           /\ \A v \in Lists \ {"fp"} : list'[v] = list[v]
           /\ \/ list'["fp"] = list["fp"] /\ work[s].pos \notin DOMAIN list["fp"]
              \/ Grown(list["fp"], list'["fp"], work[s].pos, work[s].ip)
  <1>1. "fp" \in Lists
    BY DEF Lists
  <1>2. PICK l \in Seq(Entries) : l = list["fp"]
    BY <1>1
  <1>3. PICK ip \in AnyIp : ip = work[s].ip
    OBVIOUS
  <1>4. PICK i, m : i = work[s].pos /\ m = [l EXCEPT ![i].ips = Append(@, ip)]
    OBVIOUS
  <1>5. list' = IF i \in DOMAIN l THEN [list EXCEPT !["fp"] = m] ELSE list
    BY <1>2, <1>3, <1>4 DEF CheckIp
  <1>6. CASE i \in DOMAIN l
    <2>1. m \in Seq(Entries) /\ Grown(l, m, i, ip)
      BY <1>4, <1>6, IpsFacts
    <2>2. /\ list' \in [Lists -> Seq(Entries)] /\ list'["fp"] = m
          /\ \A v \in Lists \ {"fp"} : list'[v] = list[v]
      BY <1>1, <1>5, <1>6, <2>1
    <2> QED
      BY <1>2, <1>3, <1>4, <2>1, <2>2
  <1>7. CASE i \notin DOMAIN l
    BY <1>1, <1>2, <1>4, <1>5, <1>7
  <1> QED
    BY <1>6, <1>7

LEMMA RereadFacts ==
    ASSUME NEW e \in Entries
    PROVE  Reread(e) \in Entries /\ Reread(e).key = e.key
  <1>1. e.key \in AnyKey /\ e.ips \in Seq(AnyIp)
    BY DEF Entries
  <1>2. e.ips # <<>> => Front(e.ips) \in Seq(AnyIp)
    BY <1>1 DEF Front
  <1>3. <<>> \in Seq(AnyIp)
    OBVIOUS
  <1> DEFINE ips == IF e.ips = <<>> THEN <<>> ELSE Front(e.ips)
  <1>4. ips \in Seq(AnyIp)
    BY <1>2, <1>3
  <1> HIDE DEF ips
  <1>5. Reread(e) = [key |-> e.key, ips |-> ips]
    BY DEF Reread, Entry, ips
  <1> QED
    BY <1>1, <1>4, <1>5 DEF Entries

-----------------------------------------------------------------------------
(* Types *)

Work == [at : Places, list : Lists, key : AnyKey, ip : AnyIp, pos : Nat,
         data : Seq(Entries), of : {"none", "add", "del", "check"}]

LEMMA KeyTypes ==
    /\ \A w \in Lists : Typed(w) \subseteq AnyKey
    /\ Cut \in AnyKey /\ Idle \in Work
    /\ \A k \in AnyKey : k[1] \in Names /\ Upper(k) \in AnyKey
    /\ \A w \in Lists, k \in AnyKey : Stored(w, k) \in AnyKey
    /\ \A f \in Fps : <<f, "upper">> \in AnyKey
    /\ \A k \in AnyKey : Entry(k, <<>>) \in Entries
  <1>1. \A w \in Lists : Typed(w) \subseteq AnyKey
    BY DEF Typed, AnyKey, Names, Spellings
  <1>2. Cut \in AnyKey
    BY DEF Cut, AnyKey, Names, Spellings
  <1>3. \A k \in AnyKey : k[1] \in Names /\ Upper(k) \in AnyKey
    BY DEF AnyKey, Upper, Spellings
  <1>4. Idle \in Work
    BY <1>2 DEF Idle, Work, Places, Lists, AnyIp
  <1>5. \A w \in Lists, k \in AnyKey : Stored(w, k) \in AnyKey
    BY <1>3 DEF Stored
  <1>6. \A f \in Fps : <<f, "upper">> \in AnyKey
    BY DEF AnyKey, Names, Spellings
  <1>7. \A k \in AnyKey : Entry(k, <<>>) \in Entries
    BY DEF Entry, Entries
  <1> QED
    BY <1>1, <1>2, <1>3, <1>4, <1>5, <1>6, <1>7

LEMMA OverlapType ==
    ASSUME TypeOK, NEW s \in Threads, NEW w \in Lists, Overlap(s, w)
    PROVE  trouble' \in [Lists -> SUBSET Trouble]
  BY DEF TypeOK, Overlap, Trouble

LEMMA GotoType ==
    ASSUME TypeOK, NEW s \in Threads, NEW where \in Places, Goto(s, where)
    PROVE  work' \in [Threads -> Work]
  BY DEF TypeOK, Goto, Work

LEMMA DoneType ==
    ASSUME TypeOK, NEW s \in Threads, Done(s)
    PROVE  work' \in [Threads -> Work]
  BY KeyTypes DEF TypeOK, Done, Work

LEMMA AfterWriteType ==
    ASSUME TypeOK, NEW s \in Threads, AfterWrite(s)
    PROVE  /\ work' \in [Threads -> Work]
           /\ granted' \in [Lists -> SUBSET AnyKey] /\ revoked' \in [Lists -> SUBSET AnyKey]
           /\ noted' \subseteq [fp : Names, ip : AnyIp, life : Nat]
           /\ renoted' \subseteq [first : Nat, again : Nat]
  <1> DEFINE w == work[s].list
             k == Stored(w, work[s].key)
             n == [fp |-> k[1], ip |-> work[s].ip, life |-> life]
  <1>1. work[s] \in Work /\ life \in Nat
    BY DEF TypeOK, Work
  <1>2. w \in Lists /\ k \in AnyKey /\ k[1] \in Names
    BY <1>1, KeyTypes DEF Work
  <1>3. n \in [fp : Names, ip : AnyIp, life : Nat]
    BY <1>1, <1>2 DEF Work
  <1>4. CASE /\ granted' = [granted EXCEPT ![w] = @ \cup {k}]
             /\ Done(s) /\ UNCHANGED <<revoked, noted, renoted>>
    BY <1>2, <1>4, DoneType DEF TypeOK
  <1>5. CASE /\ revoked' = [revoked EXCEPT ![w] = @ \cup {k}]
             /\ Done(s) /\ UNCHANGED <<granted, noted, renoted>>
    BY <1>2, <1>5, DoneType DEF TypeOK
  <1>6. CASE /\ noted' = noted \cup {n}
             /\ renoted' = renoted \cup {[first |-> m.life, again |-> life] :
                                            m \in {m \in noted : m.fp = n.fp /\ m.ip = n.ip}}
             /\ Goto(s, "lookfp") /\ UNCHANGED <<granted, revoked>>
    <2>1. \A m \in noted : m.life \in Nat
      BY DEF TypeOK
    <2>2. work' \in [Threads -> Work]
      BY <1>6, GotoType DEF Places
    <2>3. noted' \subseteq [fp : Names, ip : AnyIp, life : Nat]
      BY <1>3, <1>6 DEF TypeOK
    <2>4. renoted' \subseteq [first : Nat, again : Nat]
      BY <1>1, <1>6, <2>1 DEF TypeOK
    <2> QED
      BY <1>6, <2>2, <2>3, <2>4 DEF TypeOK
  <1> QED
    BY <1>4, <1>5, <1>6 DEF AfterWrite

LEMMA InitType == Init => TypeOK
  <1> SUFFICES ASSUME Init PROVE TypeOK
    OBVIOUS
  <1>1. work \in [Threads -> Work]
    BY KeyTypes DEF Init
  <1>2. /\ list \in [Lists -> Seq(Entries)] /\ file \in [Lists -> Seq(Entries)]
        /\ nread \in [Lists -> Nat]
    BY DEF Init
  <1> QED
    BY <1>1, <1>2 DEF Init, TypeOK, Work

LEMMA StepType ==
    ASSUME TypeOK, [Next]_vars
    PROVE  TypeOK'
  <1>t. /\ list \in [Lists -> Seq(Entries)] /\ file \in [Lists -> Seq(Entries)]
        /\ work \in [Threads -> Work] /\ nread \in [Lists -> Nat]
        /\ works \in 0 .. MaxWorks /\ life \in 0 .. MaxRestarts
        /\ Lists = {"fp", "ip"}
    BY DEF TypeOK, Work, Lists
  <1>1. ASSUME NEW s \in Threads, BeginAdd(s)
        PROVE  TypeOK'
    <2>1. works' \in 0 .. MaxWorks
      BY <1>t, <1>1 DEF BeginAdd, Begins
    <2>2. PICK w \in Lists : \E k \in Typed(w) :
             IF Has(w, k)
             THEN UNCHANGED <<work, ever, trouble>>
             ELSE /\ work' = [work EXCEPT ![s] = [Idle EXCEPT !.at = "insert", !.list = w,
                                                              !.key = k, !.of = "add"]]
                  /\ ever' = [ever EXCEPT ![w] = @ \cup {Stored(w, k)}]
                  /\ Overlap(s, w)
      BY <1>1 DEF BeginAdd
    <2>k. PICK k \in Typed(w) :
             IF Has(w, k)
             THEN UNCHANGED <<work, ever, trouble>>
             ELSE /\ work' = [work EXCEPT ![s] = [Idle EXCEPT !.at = "insert", !.list = w,
                                                              !.key = k, !.of = "add"]]
                  /\ ever' = [ever EXCEPT ![w] = @ \cup {Stored(w, k)}]
                  /\ Overlap(s, w)
      BY <2>2
    <2>3. k \in AnyKey /\ Stored(w, k) \in AnyKey
      BY KeyTypes
    <2>4. [Idle EXCEPT !.at = "insert", !.list = w, !.key = k, !.of = "add"] \in Work
      BY <2>3, KeyTypes DEF Work, Places
    <2>5. CASE ~ Has(w, k)
      <3>1. trouble' \in [Lists -> SUBSET Trouble]
        BY <2>k, <2>5, OverlapType
      <3>2. work' \in [Threads -> Work]
        BY <1>t, <2>k, <2>4, <2>5
      <3>3. ever' \in [Lists -> SUBSET AnyKey]
        <4>1. ever' = [ever EXCEPT ![w] = @ \cup {Stored(w, k)}]
          BY <2>k, <2>5
        <4>2. ever[w] \cup {Stored(w, k)} \in SUBSET AnyKey
          BY <2>3 DEF TypeOK
        <4> QED
          BY <4>1, <4>2 DEF TypeOK
      <3> QED
        BY <1>1, <2>1, <3>1, <3>2, <3>3 DEF TypeOK, Work, BeginAdd, process
    <2>6. CASE Has(w, k)
      BY <1>1, <2>1, <2>k, <2>6 DEF TypeOK, BeginAdd, process
    <2> QED
      BY <2>5, <2>6
  <1>2. ASSUME NEW s \in Threads, Insert(s)
        PROVE  TypeOK'
    <2> DEFINE w == work[s].list
               k == Stored(w, work[s].key)
    <2>1. w \in Lists /\ k \in AnyKey /\ Entry(k, <<>>) \in Entries
      BY <1>t, KeyTypes DEF Work
    <2>2. Append(list[w], Entry(k, <<>>)) \in Seq(Entries)
      BY <1>t, <2>1, AppendFacts
    <2> HIDE DEF k
    <2>3. list' \in [Lists -> Seq(Entries)]
      BY <1>t, <1>2, <2>1, <2>2 DEF Insert, k
    <2>4. work' \in [Threads -> Work]
      BY <1>2, GotoType DEF Insert, Places
    <2>5. revoked' \in [Lists -> SUBSET AnyKey]
      BY <1>2, <2>1 DEF Insert, TypeOK
    <2> QED
      BY <1>2, <2>3, <2>4, <2>5 DEF TypeOK, Work, Insert, process
  <1>3. ASSUME NEW s \in Threads, BeginDel(s)
        PROVE  TypeOK'
    <2>1. works' \in 0 .. MaxWorks
      BY <1>t, <1>3 DEF BeginDel, Begins
    <2>2. PICK w \in Lists : \E k \in Typed(w) :
          /\ list' = [list EXCEPT ![w] = IF Has(w, k) THEN RemoveAt(@, First(@, k)) ELSE @]
          /\ work' = [work EXCEPT ![s] = [Idle EXCEPT !.at = "save", !.list = w,
                                                      !.key = k, !.of = "del"]]
          /\ granted' = [granted EXCEPT ![w] = @ \ {Stored(w, k)}]
          /\ noted' = {n \in noted : w = "ip" \/ n.fp # k[1]}
          /\ Overlap(s, w)
      BY <1>3 DEF BeginDel
    <2>k. PICK k \in Typed(w) :
          /\ list' = [list EXCEPT ![w] = IF Has(w, k) THEN RemoveAt(@, First(@, k)) ELSE @]
          /\ work' = [work EXCEPT ![s] = [Idle EXCEPT !.at = "save", !.list = w,
                                                      !.key = k, !.of = "del"]]
          /\ granted' = [granted EXCEPT ![w] = @ \ {Stored(w, k)}]
          /\ noted' = {n \in noted : w = "ip" \/ n.fp # k[1]}
          /\ Overlap(s, w)
      BY <2>2
    <2>3. k \in AnyKey /\ Stored(w, k) \in AnyKey
      BY KeyTypes
    <2>4. [Idle EXCEPT !.at = "save", !.list = w, !.key = k, !.of = "del"] \in Work
      BY <2>3, KeyTypes DEF Work, Places
    <2>5. Has(w, k) => RemoveAt(list[w], First(list[w], k)) \in Seq(Entries)
      BY <1>t, <2>3, FirstFacts, RemoveFacts DEF Has
    <2>6. list' \in [Lists -> Seq(Entries)]
      BY <1>t, <2>k, <2>5
    <2>7. work' \in [Threads -> Work]
      BY <1>t, <2>k, <2>4
    <2>8. granted' \in [Lists -> SUBSET AnyKey] /\ trouble' \in [Lists -> SUBSET Trouble]
      BY <2>k, OverlapType DEF TypeOK
    <2>9. noted' \subseteq [fp : Names, ip : AnyIp, life : Nat]
      BY <2>k DEF TypeOK
    <2> QED
      BY <1>3, <2>1, <2>6, <2>7, <2>8, <2>9 DEF TypeOK, Work, BeginDel, process
  <1>4. ASSUME NEW s \in Threads, Save(s)
        PROVE  TypeOK'
    <2>1. work[s] \in Work /\ list[work[s].list] \in Seq(Entries)
      BY <1>t DEF Work
    <2>2. work' \in [Threads -> Work]
      BY <1>t, <1>4, <2>1 DEF Save, Work, Places
    <2> QED
      BY <1>4, <2>2 DEF TypeOK, Work, Save, process, history
  <1>5. ASSUME NEW s \in Threads, Truncate(s)
        PROVE  TypeOK'
    <2> DEFINE w == work[s].list
    <2>1. w \in Lists
      BY <1>t DEF Work
    <2>2. CASE /\ file' = [file EXCEPT ![w] = <<>>]
               /\ Goto(s, "write")
               /\ UNCHANGED <<granted, revoked, noted, renoted, trouble>>
      <3>1. work' \in [Threads -> Work]
        BY <2>2, GotoType DEF Places
      <3>2. file' \in [Lists -> Seq(Entries)]
        <4>1. <<>> \in Seq(Entries)
          OBVIOUS
        <4> QED
          BY <1>t, <2>1, <2>2, <4>1
      <3> QED
        BY <1>5, <2>2, <3>1, <3>2 DEF TypeOK, Work, Truncate, process
    <2>3. CASE /\ trouble' = [trouble EXCEPT ![w] = @ \cup {"failed"}]
               /\ AfterWrite(s)
               /\ UNCHANGED file
      <3>1. trouble' \in [Lists -> SUBSET Trouble]
        BY <2>3 DEF TypeOK, Trouble
      <3> QED
        BY <1>5, <2>3, <3>1, AfterWriteType DEF TypeOK, Work, Truncate, process
    <2> QED
      BY <1>5, <2>2, <2>3 DEF Truncate
  <1>6. ASSUME NEW s \in Threads, WriteFile(s)
        PROVE  TypeOK'
    <2> DEFINE w == work[s].list
               data == work[s].data
    <2>1. w \in Lists /\ data \in Seq(Entries) /\ Len(data) \in Nat /\ file[w] \in Seq(Entries)
      BY <1>t DEF Work
    <2>2. PICK rest \in Rest(file[w], Len(data)) : file' = [file EXCEPT ![w] = data \o rest]
      BY <1>6 DEF WriteFile
    <2>3. data \o rest \in Seq(Entries)
      BY <2>1, RestFacts, ConcatFacts
    <2>4. file' \in [Lists -> Seq(Entries)]
      BY <1>t, <2>1, <2>2, <2>3
    <2>5. AfterWrite(s) /\ UNCHANGED <<list, works, process, ever, trouble>>
      BY <1>6 DEF WriteFile
    <2> QED
      BY <2>4, <2>5, AfterWriteType DEF TypeOK, Work, process
  <1>7. ASSUME NEW s \in Threads, BeginCheck(s)
        PROVE  TypeOK'
    <2>1. works' \in 0 .. MaxWorks
      BY <1>t, <1>7 DEF BeginCheck, Begins
    <2>2. PICK f \in Fps, ip \in Ips :
          LET k == <<f, "upper">>
              check == [Idle EXCEPT !.key = k, !.ip = ip, !.of = "check"]
              i == First(list["fp"], k)
          IN  IF Has("fp", k) /\ ~Contains(list["fp"][i].ips, ip)
              THEN /\ work' = [work EXCEPT ![s] = [check EXCEPT !.at = "note", !.pos = i]]
                   /\ Overlap(s, "fp")
              ELSE /\ work' = [work EXCEPT ![s] = [check EXCEPT !.at = "lookfp"]]
                   /\ UNCHANGED trouble
      BY <1>7 DEF BeginCheck
    <2> DEFINE k == <<f, "upper">>
               check == [Idle EXCEPT !.key = k, !.ip = ip, !.of = "check"]
               i == First(list["fp"], k)
    <2>3. check \in Work /\ check.list = "fp"
      BY KeyTypes DEF Work, Idle, AnyIp
    <2>4. Has("fp", k) => i \in Nat
      BY <1>t, FirstFacts DEF Has
    <2>5. [check EXCEPT !.at = "lookfp"] \in Work
      BY <2>3 DEF Work, Places
    <2>6. Has("fp", k) => [check EXCEPT !.at = "note", !.pos = i] \in Work
      BY <2>3, <2>4 DEF Work, Places
    <2> HIDE DEF check, i
    <2>7. work' \in [Threads -> Work]
      BY <1>t, <2>2, <2>5, <2>6 DEF check, i
    <2>8. trouble' \in [Lists -> SUBSET Trouble]
      BY <1>t, <2>2, OverlapType DEF TypeOK
    <2> QED
      BY <1>7, <2>1, <2>7, <2>8 DEF TypeOK, Work, BeginCheck, process
  <1>8. ASSUME NEW s \in Threads, CheckIp(s)
        PROVE  TypeOK'
    <2>1. work[s].ip \in AnyIp
      BY <1>t DEF Work
    <2>2. list' \in [Lists -> Seq(Entries)]
      BY <1>t, <1>8, <2>1, CheckIpFacts
    <2>3. work' \in [Threads -> Work]
      BY <1>8, GotoType DEF CheckIp, Places
    <2> QED
      BY <1>8, <2>2, <2>3 DEF TypeOK, Work, CheckIp, process, history
  <1>9. ASSUME NEW s \in Threads, LookFp(s)
        PROVE  TypeOK'
    <2>1. work' \in [Threads -> Work]
      BY <1>9, GotoType DEF LookFp, Places
    <2> QED
      BY <1>9, <2>1 DEF TypeOK, Work, LookFp, process, history
  <1>10. ASSUME NEW s \in Threads, LookIp(s)
         PROVE  TypeOK'
    <2>1. work' \in [Threads -> Work]
      BY <1>10, GotoType, DoneType DEF LookIp, Places
    <2> QED
      BY <1>10, <2>1 DEF TypeOK, Work, LookIp, process, history
  <1>11. ASSUME NEW s \in Threads, EndCheck(s)
         PROVE  TypeOK'
    <2>1. work' \in [Threads -> Work]
      BY <1>11, DoneType DEF EndCheck
    <2> QED
      BY <1>11, <2>1 DEF TypeOK, Work, EndCheck, process, history
  <1>12. ASSUME NEW w \in Lists, ReadLine(w)
         PROVE  TypeOK'
    <2> DEFINE line == file[w][nread[w] + 1]
    <2>1. nread[w] \in Nat /\ file[w] \in Seq(Entries) /\ Len(file[w]) \in Nat
      BY <1>t
    <2>2. nread[w] + 1 \in 1 .. Len(file[w])
      BY <1>12, <2>1 DEF ReadLine
    <2>3. line \in Entries
      BY <2>1, <2>2
    <2>4. Append(list[w], Reread(line)) \in Seq(Entries)
      BY <1>t, <2>3, RereadFacts, AppendFacts
    <2> HIDE DEF line
    <2>5. list' \in [Lists -> Seq(Entries)]
      BY <1>t, <1>12, <2>4 DEF ReadLine, line
    <2>6. nread' \in [Lists -> Nat]
      BY <1>t, <1>12 DEF ReadLine
    <2> QED
      BY <1>12, <2>5, <2>6 DEF TypeOK, Work, ReadLine, history
  <1>13. CASE Crash
    <2>1. work' \in [Threads -> Work]
      BY <1>13, KeyTypes DEF Crash
    <2>2. list' \in [Lists -> Seq(Entries)]
      BY <1>13 DEF Crash
    <2>3. trouble' \in [Lists -> SUBSET Trouble]
      BY <1>13 DEF Crash, TypeOK, Trouble
    <2> QED
      BY <1>13, <2>1, <2>2, <2>3 DEF TypeOK, Work, Crash
  <1>14. CASE Start
    BY <1>14 DEF TypeOK, Start, history
  <1>15. CASE Serve
    BY <1>15 DEF TypeOK, Serve, history
  <1>16. CASE UNCHANGED vars
    BY <1>16 DEF TypeOK, vars, process, history
  <1> QED
    BY <1>1, <1>2, <1>3, <1>4, <1>5, <1>6, <1>7, <1>8, <1>9, <1>10, <1>11, <1>12, <1>13,
       <1>14, <1>15, <1>16 DEF Next, Step

\* Every variable keeps its type, whatever the threads do to the lists and
\* wherever the program dies and starts again.
THEOREM TypeCorrect == Spec => []TypeOK
  <1>1. TypeOK /\ [Next]_vars => TypeOK'
    BY StepType
  <1> QED
    BY <1>1, InitType, PTL DEF Spec

-----------------------------------------------------------------------------
(* Only what was added *)

LEMMA GotoFacts ==
    ASSUME TypeOK, NEW s \in Threads, NEW where, Goto(s, where)
    PROVE  /\ work'[s].at = where /\ work'[s].list = work[s].list
           /\ work'[s].key = work[s].key /\ work'[s].ip = work[s].ip
           /\ work'[s].pos = work[s].pos
           /\ work'[s].data = work[s].data /\ work'[s].of = work[s].of
           /\ \A t \in Threads \ {s} : work'[t] = work[t]
  BY DEF TypeOK, Goto

LEMMA DoneFacts ==
    ASSUME TypeOK, NEW s \in Threads, Done(s)
    PROVE  work'[s] = Idle /\ \A t \in Threads \ {s} : work'[t] = work[t]
  BY DEF TypeOK, Done

LEMMA AfterWriteFacts ==
    ASSUME TypeOK, NEW s \in Threads, AfterWrite(s)
    PROVE  /\ \A t \in Threads \ {s} : work'[t] = work[t]
           /\ \/ work[s].of \in {"add", "del"} /\ work'[s] = Idle
              \/ /\ work[s].of = "check" /\ work'[s].of = "check"
                 /\ work'[s].at = "lookfp" /\ work'[s].list = work[s].list
                 /\ work'[s].key = work[s].key /\ work'[s].ip = work[s].ip
                 /\ work'[s].data = work[s].data
  <1>1. CASE work[s].of \in {"add", "del"} /\ Done(s)
    BY <1>1, DoneFacts
  <1>2. CASE work[s].of = "check" /\ Goto(s, "lookfp")
    BY <1>2, GotoFacts
  <1> QED
    BY <1>1, <1>2 DEF AfterWrite

LEMMA EmptyKeys == Keys(<<>>) = {}
  BY DEF Keys

LEMMA IdleFits ==
    ASSUME NEW s, work'[s] = Idle
    PROVE  Fits(s)' /\ Keys(work'[s].data) = {}
  BY EmptyKeys DEF Fits, Idle

\* A step of one thread leaves what the others do as it is.
LEMMA OthersFit ==
    ASSUME EverInv, NEW s \in Threads,
           \A t \in Threads \ {s} : work'[t] = work[t],
           phase' = phase,
           \A w \in Lists : ever[w] \subseteq ever'[w],
           \A t \in Threads : work[t].list \in Lists,
           Fits(s)',
           Keys(work'[s].data) \subseteq ever'[work'[s].list] \cup {Cut},
           \A w \in Lists : Keys(list'[w]) \cup Keys(file'[w]) \subseteq ever'[w] \cup {Cut}
    PROVE  EverInv'
  <1>1. \A t \in Threads \ {s} : Fits(t)'
    <2> TAKE t \in Threads \ {s}
    <2>1. Fits(t) /\ work'[t] = work[t] /\ work[t].list \in Lists
      BY DEF EverInv
    <2>2. "fp" \in Lists /\ "ip" \in Lists
      BY DEF Lists
    <2> QED
      BY <2>1, <2>2 DEF Fits
  <1>2. \A t \in Threads \ {s} : Keys(work'[t].data) \subseteq ever'[work'[t].list] \cup {Cut}
    BY DEF EverInv
  <1> QED
    BY <1>1, <1>2 DEF EverInv

LEMMA BeginCheckFacts ==
    ASSUME TypeOK, NEW s \in Threads, BeginCheck(s)
    PROVE  \E f \in Fps, ip \in Ips :
              /\ work'[s].list = "fp" /\ work'[s].key = <<f, "upper">> /\ work'[s].ip = ip
              /\ work'[s].of = "check" /\ work'[s].data = <<>>
              /\ \/ work'[s].at = "note" /\ Overlap(s, "fp")
                 \/ work'[s].at = "lookfp" /\ UNCHANGED trouble
              /\ \A t \in Threads \ {s} : work'[t] = work[t]
  <1>1. PICK f \in Fps, ip \in Ips :
        LET k == <<f, "upper">>
            check == [Idle EXCEPT !.key = k, !.ip = ip, !.of = "check"]
            i == First(list["fp"], k)
        IN  \/ /\ work' = [work EXCEPT ![s] = [check EXCEPT !.at = "note", !.pos = i]]
               /\ Overlap(s, "fp")
            \/ /\ work' = [work EXCEPT ![s] = [check EXCEPT !.at = "lookfp"]]
               /\ UNCHANGED trouble
    BY Zenon DEF BeginCheck
  <1>2. PICK check : check = [Idle EXCEPT !.key = <<f, "upper">>, !.ip = ip, !.of = "check"]
    OBVIOUS
  <1>3. \E i : \/ /\ work' = [work EXCEPT ![s] = [check EXCEPT !.at = "note", !.pos = i]]
                 /\ Overlap(s, "fp")
              \/ /\ work' = [work EXCEPT ![s] = [check EXCEPT !.at = "lookfp"]]
                 /\ UNCHANGED trouble
    BY <1>1, <1>2
  <1>4. PICK i : \/ /\ work' = [work EXCEPT ![s] = [check EXCEPT !.at = "note", !.pos = i]]
                   /\ Overlap(s, "fp")
                \/ /\ work' = [work EXCEPT ![s] = [check EXCEPT !.at = "lookfp"]]
                   /\ UNCHANGED trouble
    BY <1>3
  <1>5. /\ check.list = "fp" /\ check.key = <<f, "upper">> /\ check.ip = ip
        /\ check.of = "check" /\ check.data = <<>>
        /\ DOMAIN check = {"at", "list", "key", "ip", "pos", "data", "of"}
    BY <1>2 DEF Idle
  <1>6. DOMAIN work = Threads
    BY DEF TypeOK
  <1>7. CASE /\ work' = [work EXCEPT ![s] = [check EXCEPT !.at = "note", !.pos = i]]
             /\ Overlap(s, "fp")
    BY <1>5, <1>6, <1>7
  <1>8. CASE /\ work' = [work EXCEPT ![s] = [check EXCEPT !.at = "lookfp"]]
             /\ UNCHANGED trouble
    BY <1>5, <1>6, <1>8
  <1> QED
    BY <1>4, <1>7, <1>8

LEMMA InitEver == Init => EverInv
  <1> SUFFICES ASSUME Init PROVE EverInv
    OBVIOUS
  <1>1. \A s \in Threads : work[s] = Idle
    BY DEF Init
  <1>2. \A w \in Lists : list[w] = <<>> /\ file[w] = <<>>
    BY DEF Init
  <1> QED
    BY <1>1, <1>2, EmptyKeys DEF EverInv, Fits, Idle

LEMMA StepEver ==
    ASSUME TypeOK, EverInv, [Next]_vars
    PROVE  EverInv'
  <1>t. /\ list \in [Lists -> Seq(Entries)] /\ file \in [Lists -> Seq(Entries)]
        /\ work \in [Threads -> Work] /\ ever \in [Lists -> SUBSET AnyKey]
        /\ nread \in [Lists -> Nat]
        /\ \A s \in Threads : work[s].list \in Lists /\ work[s].data \in Seq(Entries)
    BY DEF TypeOK, Work
  <1>e. /\ \A s \in Threads : Fits(s)
        /\ \A w \in Lists : Keys(list[w]) \subseteq ever[w] \cup {Cut}
        /\ \A w \in Lists : Keys(file[w]) \subseteq ever[w] \cup {Cut}
        /\ \A s \in Threads : Keys(work[s].data) \subseteq ever[work[s].list] \cup {Cut}
    BY DEF EverInv
  <1>l. "fp" \in Lists /\ "ip" \in Lists
    BY DEF Lists
  <1>1. ASSUME NEW s \in Threads, BeginAdd(s)
        PROVE  EverInv'
    <2>1. phase = "up" /\ UNCHANGED <<list, file, phase>>
      BY <1>1 DEF BeginAdd, Begins, At, process
    <2>2. PICK w \in Lists : \E k \in Typed(w) :
             IF Has(w, k)
             THEN UNCHANGED <<work, ever, trouble>>
             ELSE /\ work' = [work EXCEPT ![s] = [Idle EXCEPT !.at = "insert", !.list = w,
                                                              !.key = k, !.of = "add"]]
                  /\ ever' = [ever EXCEPT ![w] = @ \cup {Stored(w, k)}]
                  /\ Overlap(s, w)
      BY <1>1 DEF BeginAdd
    <2>3. PICK k \in Typed(w) :
             IF Has(w, k)
             THEN UNCHANGED <<work, ever, trouble>>
             ELSE /\ work' = [work EXCEPT ![s] = [Idle EXCEPT !.at = "insert", !.list = w,
                                                              !.key = k, !.of = "add"]]
                  /\ ever' = [ever EXCEPT ![w] = @ \cup {Stored(w, k)}]
                  /\ Overlap(s, w)
      BY <2>2
    <2>4. CASE UNCHANGED <<work, ever>>
      BY <2>1, <2>4 DEF EverInv, Fits
    <2>5. CASE /\ work' = [work EXCEPT ![s] = [Idle EXCEPT !.at = "insert", !.list = w,
                                                          !.key = k, !.of = "add"]]
               /\ ever' = [ever EXCEPT ![w] = @ \cup {Stored(w, k)}]
      <3>1. /\ work'[s].at = "insert" /\ work'[s].list = w /\ work'[s].key = k
            /\ work'[s].of = "add" /\ work'[s].data = <<>>
            /\ \A t \in Threads \ {s} : work'[t] = work[t]
        BY <1>t, <2>5 DEF Idle
      <3>2. /\ Stored(w, k) \in ever'[w]
            /\ \A v \in Lists : ever[v] \subseteq ever'[v]
        BY <1>t, <2>5
      <3>3. Fits(s)'
        BY <2>1, <3>1, <3>2 DEF Fits
      <3>4. Keys(work'[s].data) = {}
        BY <3>1, EmptyKeys
      <3>5. \A v \in Lists : Keys(list'[v]) \cup Keys(file'[v]) \subseteq ever'[v] \cup {Cut}
        BY <1>e, <2>1, <3>2
      <3> QED
        BY <1>t, <2>1, <3>1, <3>2, <3>3, <3>4, <3>5, OthersFit
    <2> QED
      BY <2>3, <2>4, <2>5
  <1>2. ASSUME NEW s \in Threads, Insert(s)
        PROVE  EverInv'
    <2> DEFINE w == work[s].list
               k == Stored(w, work[s].key)
    <2>1. /\ phase = "up" /\ work[s].at = "insert" /\ Goto(s, "save")
          /\ UNCHANGED <<file, phase, ever>>
      BY <1>2 DEF Insert, At, process
    <2>2. k \in ever[w] /\ w \in Lists
      BY <1>t, <1>e, <2>1 DEF Fits
    <2>3. k \in AnyKey /\ Entry(k, <<>>) \in Entries /\ Entry(k, <<>>).key = k
      BY <1>t, <2>2, KeyTypes DEF Entry
    <2>4. Keys(Append(list[w], Entry(k, <<>>))) = Keys(list[w]) \cup {k}
      BY <1>t, <2>2, <2>3, AppendFacts
    <2> HIDE DEF k
    <2>5. \A v \in Lists : Keys(list'[v]) \subseteq Keys(list[v]) \cup ever[v]
      BY <1>2, <1>t, <2>2, <2>4 DEF Insert, k
    <2>6. \A v \in Lists : Keys(list'[v]) \cup Keys(file'[v]) \subseteq ever'[v] \cup {Cut}
      BY <1>e, <2>1, <2>5
    <2>7. Fits(s)'
      BY <1>e, <2>1, GotoFacts DEF Fits
    <2> QED
      BY <1>t, <1>e, <2>1, <2>6, <2>7, GotoFacts, OthersFit
  <1>3. ASSUME NEW s \in Threads, BeginDel(s)
        PROVE  EverInv'
    <2>1. phase = "up" /\ UNCHANGED <<file, phase, ever>>
      BY <1>3 DEF BeginDel, Begins, At, process
    <2>2. PICK w \in Lists : \E k \in Typed(w) :
          /\ list' = [list EXCEPT ![w] = IF Has(w, k) THEN RemoveAt(@, First(@, k)) ELSE @]
          /\ work' = [work EXCEPT ![s] = [Idle EXCEPT !.at = "save", !.list = w,
                                                      !.key = k, !.of = "del"]]
      BY <1>3 DEF BeginDel
    <2>3. PICK k \in Typed(w) :
          /\ list' = [list EXCEPT ![w] = IF Has(w, k) THEN RemoveAt(@, First(@, k)) ELSE @]
          /\ work' = [work EXCEPT ![s] = [Idle EXCEPT !.at = "save", !.list = w,
                                                      !.key = k, !.of = "del"]]
      BY <2>2
    <2>4. Has(w, k) => Keys(RemoveAt(list[w], First(list[w], k))) \subseteq Keys(list[w])
      BY <1>t, FirstFacts, RemoveFacts DEF Has
    <2>5. \A v \in Lists : Keys(list'[v]) \subseteq Keys(list[v])
      BY <1>t, <2>3, <2>4
    <2>6. /\ work'[s].at = "save" /\ work'[s].list = w /\ work'[s].key = k
          /\ work'[s].of = "del" /\ work'[s].data = <<>>
          /\ \A t \in Threads \ {s} : work'[t] = work[t]
      BY <1>t, <2>3 DEF Idle
    <2>7. Fits(s)'
      BY <2>1, <2>6 DEF Fits
    <2>8. Keys(work'[s].data) = {}
      BY <2>6, EmptyKeys
    <2> QED
      BY <1>t, <1>e, <2>1, <2>5, <2>6, <2>7, <2>8, OthersFit
  <1>4. ASSUME NEW s \in Threads, Save(s)
        PROVE  EverInv'
    <2>1. /\ phase = "up" /\ work[s].at = "save" /\ UNCHANGED <<list, file, phase, ever>>
          /\ work' = [work EXCEPT ![s].at = "truncate", ![s].data = list[work[s].list]]
      BY <1>4 DEF Save, At, process, history
    <2>2. /\ work'[s].at = "truncate" /\ work'[s].list = work[s].list
          /\ work'[s].key = work[s].key /\ work'[s].ip = work[s].ip
          /\ work'[s].of = work[s].of /\ work'[s].data = list[work[s].list]
          /\ \A t \in Threads \ {s} : work'[t] = work[t]
      BY <1>t, <2>1 DEF Work
    <2>3. Fits(s)'
      <3>1. Fits(s)
        BY <1>e
      <3> QED
        BY <2>1, <2>2, <3>1 DEF Fits
    <2> QED
      BY <1>t, <1>e, <2>1, <2>2, <2>3, OthersFit
  <1>5. ASSUME NEW s \in Threads, Truncate(s) \/ WriteFile(s)
        PROVE  EverInv'
    <2> DEFINE w == work[s].list
    <2>1. phase = "up" /\ UNCHANGED <<list, phase, ever>> /\ w \in Lists
      BY <1>5, <1>t DEF Truncate, WriteFile, At, process
    <2>2. \A t \in Threads \ {s} : work'[t] = work[t]
      BY <1>5, GotoFacts, AfterWriteFacts DEF Truncate, WriteFile
    <2>3. \A v \in Lists : Keys(file'[v]) \subseteq ever[v] \cup {Cut}
      <3>1. CASE Truncate(s)
        <4>1. file' = file \/ file' = [file EXCEPT ![w] = <<>>]
          BY <3>1 DEF Truncate
        <4> QED
          BY <1>t, <1>e, <4>1, EmptyKeys
      <3>2. CASE WriteFile(s)
        <4>1. PICK rest \in Rest(file[w], Len(work[s].data)) :
                  file' = [file EXCEPT ![w] = work[s].data \o rest]
          BY <3>2 DEF WriteFile
        <4>2. /\ file[w] \in Seq(Entries) /\ work[s].data \in Seq(Entries)
              /\ Len(work[s].data) \in Nat
          BY <1>t
        <4>3. rest \in Seq(Entries) /\ Keys(rest) \subseteq Keys(file[w]) \cup {Cut}
          BY <4>2, RestFacts
        <4>4. Keys(work[s].data \o rest) = Keys(work[s].data) \cup Keys(rest)
          BY <4>2, <4>3, ConcatFacts
        <4>5. \A v \in Lists : \/ file'[v] = file[v]
                               \/ v = w /\ file'[v] = work[s].data \o rest
          BY <1>t, <4>1
        <4> QED
          BY <1>e, <2>1, <4>3, <4>4, <4>5
      <3> QED
        BY <1>5, <3>1, <3>2
    <2>4. Fits(s)' /\ Keys(work'[s].data) \subseteq ever'[work'[s].list] \cup {Cut}
      <3>1. CASE work'[s] = Idle
        BY <3>1, IdleFits
      <3>2. CASE Goto(s, "write") /\ work[s].at = "truncate"
        <4>1. Fits(s)'
          BY <1>e, <2>1, <3>2, GotoFacts DEF Fits
        <4> QED
          BY <1>e, <2>1, <3>2, <4>1, GotoFacts
      <3>3. CASE AfterWrite(s) /\ work'[s] # Idle
        <4>1. Fits(s)'
          BY <1>e, <2>1, <3>3, AfterWriteFacts DEF Fits
        <4> QED
          BY <1>e, <2>1, <3>3, <4>1, AfterWriteFacts
      <3> QED
        BY <1>5, <3>1, <3>2, <3>3 DEF Truncate, WriteFile, At
    <2> QED
      BY <1>t, <1>e, <2>1, <2>2, <2>3, <2>4, OthersFit
  <1>6. ASSUME NEW s \in Threads, BeginCheck(s)
        PROVE  EverInv'
    <2>1. phase = "up" /\ UNCHANGED <<list, file, phase, ever>>
      BY <1>6 DEF BeginCheck, Begins, At, process
    <2>2. PICK f \in Fps, ip \in Ips :
              /\ work'[s].list = "fp" /\ work'[s].key = <<f, "upper">> /\ work'[s].ip = ip
              /\ work'[s].of = "check" /\ work'[s].data = <<>>
              /\ \/ work'[s].at = "note" /\ Overlap(s, "fp")
                 \/ work'[s].at = "lookfp" /\ UNCHANGED trouble
              /\ \A t \in Threads \ {s} : work'[t] = work[t]
      BY <1>6, BeginCheckFacts
    <2>3. /\ work'[s].at \in {"note", "lookfp"} /\ work'[s].list = "fp"
          /\ work'[s].key = <<f, "upper">> /\ work'[s].ip = ip
          /\ work'[s].of = "check" /\ work'[s].data = <<>>
          /\ \A t \in Threads \ {s} : work'[t] = work[t]
      BY <2>2
    <2>4. Fits(s)'
      BY <2>1, <2>3 DEF Fits
    <2>5. Keys(work'[s].data) = {}
      BY <2>3, EmptyKeys
    <2> QED
      BY <1>t, <1>e, <2>1, <2>3, <2>4, <2>5, OthersFit
  <1>7. ASSUME NEW s \in Threads, CheckIp(s)
        PROVE  EverInv'
    <2>1. /\ phase = "up" /\ work[s].at = "note" /\ Goto(s, "save")
          /\ UNCHANGED <<file, phase, ever>>
      BY <1>7 DEF CheckIp, At, process, history
    <2>2. work[s].ip \in AnyIp
      BY <1>t DEF Work
    <2>3. \A v \in Lists : Keys(list'[v]) = Keys(list[v])
      BY <1>t, <1>7, <2>2, CheckIpFacts, GrownKeys
    <2>4. Fits(s)
      BY <1>e
    <2>5. Fits(s)'
      BY <2>1, <2>4, GotoFacts DEF Fits
    <2> QED
      BY <1>t, <1>e, <2>1, <2>3, <2>5, GotoFacts, OthersFit
  <1>8. ASSUME NEW s \in Threads, LookFp(s)
        PROVE  EverInv'
    <2>1. /\ phase = "up" /\ work[s].at = "lookfp" /\ UNCHANGED <<list, file, phase, ever>>
          /\ Goto(s, IF Has("fp", work[s].key) THEN "allowed" ELSE "lookip")
      BY <1>8 DEF LookFp, At, process, history
    <2>2. work[s].of = "check" /\ work[s].key \in Fps \X {"upper"}
      BY <1>e, <2>1 DEF Fits
    <2>3. work[s].key # Cut
      BY <2>2 DEF Cut
    <2>4. Has("fp", work[s].key) => work[s].key \in ever["fp"]
      BY <1>e, <1>l, <2>3 DEF Has
    <2>5. Fits(s)'
      BY <1>e, <2>1, <2>2, <2>4, GotoFacts DEF Fits
    <2> QED
      BY <1>t, <1>e, <2>1, <2>5, GotoFacts, OthersFit
  <1>9. ASSUME NEW s \in Threads, LookIp(s)
        PROVE  EverInv'
    <2> DEFINE k == <<work[s].ip, "upper">>
    <2>1. /\ phase = "up" /\ work[s].at = "lookip" /\ UNCHANGED <<list, file, phase, ever>>
          /\ IF Has("ip", k) THEN Goto(s, "allowed") ELSE Done(s)
      BY <1>9 DEF LookIp, At, process, history
    <2>2. work[s].of = "check" /\ work[s].ip \in Ips
      BY <1>e, <2>1 DEF Fits
    <2>3. k # Cut
      BY <2>2 DEF Cut
    <2>4. Has("ip", k) => k \in ever["ip"]
      BY <1>e, <1>l, <2>3 DEF Has
    <2>5. CASE Goto(s, "allowed") /\ Has("ip", k)
      <3>1. Fits(s)'
        BY <1>e, <2>1, <2>2, <2>4, <2>5, GotoFacts DEF Fits
      <3> QED
        BY <1>t, <1>e, <2>1, <2>5, <3>1, GotoFacts, OthersFit
    <2>6. CASE Done(s)
      BY <1>t, <1>e, <2>1, <2>6, DoneFacts, IdleFits, OthersFit
    <2> QED
      BY <2>1, <2>5, <2>6
  <1>10. ASSUME NEW s \in Threads, EndCheck(s)
         PROVE  EverInv'
    <2>1. phase = "up" /\ UNCHANGED <<list, file, phase, ever>> /\ Done(s)
      BY <1>10 DEF EndCheck, At, process, history
    <2> QED
      BY <1>t, <1>e, <2>1, DoneFacts, IdleFits, OthersFit
  <1>11. ASSUME NEW w \in Lists, ReadLine(w)
         PROVE  EverInv'
    <2> DEFINE line == file[w][nread[w] + 1]
    <2>1. UNCHANGED <<file, work, phase, ever>>
      BY <1>11 DEF ReadLine, history
    <2>2. nread[w] + 1 \in DOMAIN file[w]
      BY <1>11, <1>t DEF ReadLine
    <2>3. line \in Entries /\ line.key \in Keys(file[w])
      BY <1>t, <2>2 DEF Keys
    <2>4. Keys(Append(list[w], Reread(line))) = Keys(list[w]) \cup {line.key}
      BY <1>t, <2>3, RereadFacts, AppendFacts
    <2> HIDE DEF line
    <2>5. \A v \in Lists : Keys(list'[v]) \subseteq Keys(list[v]) \cup Keys(file[v])
      BY <1>11, <1>t, <2>3, <2>4 DEF ReadLine, line
    <2> QED
      BY <1>e, <2>1, <2>5 DEF EverInv, Fits
  <1>12. CASE Crash
    <2>1. \A s \in Threads : work'[s] = Idle
      BY <1>12 DEF Crash
    <2>2. UNCHANGED <<file, ever>> /\ \A w \in Lists : list'[w] = <<>>
      BY <1>12 DEF Crash
    <2> QED
      BY <1>e, <2>1, <2>2, IdleFits, EmptyKeys DEF EverInv
  <1>13. CASE Start
    <2>1. UNCHANGED <<list, file, work, ever>> /\ phase = "down"
      BY <1>13 DEF Start, history
    <2> QED
      BY <1>e, <2>1 DEF EverInv, Fits
  <1>14. CASE Serve
    <2>1. UNCHANGED <<list, file, work, ever>> /\ phase = "reading"
      BY <1>14 DEF Serve, history
    <2> QED
      BY <1>e, <2>1 DEF EverInv, Fits
  <1>15. CASE UNCHANGED vars
    BY <1>15 DEF EverInv, Fits, Has, vars, process, history
  <1> QED
    BY <1>1, <1>2, <1>3, <1>4, <1>5, <1>6, <1>7, <1>8, <1>9, <1>10, <1>11, <1>12, <1>13,
       <1>14, <1>15 DEF Next, Step

\* Whatever happened to the files, an FXP transfer is allowed only to a site
\* whose fingerprint or ip some admin added once.
THEOREM OnlyAdded == Spec => []OnlyAddedSites
  <1>1. TypeOK /\ EverInv /\ [Next]_vars => EverInv'
    BY StepEver
  <1>2. EverInv => OnlyAddedSites
    <2> SUFFICES ASSUME EverInv, NEW s \in Threads, work[s].at = "allowed"
                 PROVE  work[s].key \in ever["fp"] \/ <<work[s].ip, "upper">> \in ever["ip"]
      BY DEF OnlyAddedSites
    <2> QED
      BY DEF EverInv, Fits
  <1> QED
    BY <1>1, <1>2, InitEver, TypeCorrect, PTL DEF Spec

-----------------------------------------------------------------------------
(* What stays out and what stays in, when admins type capitals *)

LEMMA TypedStored ==
    ASSUME Cases \subseteq {"upper"}, NEW w \in Lists, NEW k \in Typed(w)
    PROVE  Stored(w, k) = k
  <1>1. CASE w = "fp"
    <2>1. k \in Fps \X {"upper"}
      BY <1>1 DEF Typed
    <2> QED
      BY <1>1, <2>1 DEF Stored, Upper
  <1>2. CASE w # "fp"
    BY <1>2 DEF Stored
  <1> QED
    BY <1>1, <1>2

\* A step that does not concern a list.
LEMMA FrameKept ==
    ASSUME NEW w \in Lists, Kept(w),
           list'[w] = list[w], file'[w] = file[w],
           granted'[w] = granted[w], revoked'[w] = revoked[w],
           trouble[w] \subseteq trouble'[w],
           phase' = "up" => phase = "up",
           \A t \in Threads : (Busy(t, w) <=> Busy(t, w)') /\ (Busy(t, w) => work'[t] = work[t])
    PROVE  Kept(w)'
  <1>1. SerialOn(w)'
    <2> SUFFICES ASSUME Serial(w)'
                 PROVE  /\ Unique(list[w]) /\ Unique(file[w])
                        /\ \A s, t \in Threads : Busy(s, w)' /\ Busy(t, w)' => s = t
                        /\ \A s \in Threads : Ordered(s, w)'
      BY DEF SerialOn
    <2>1. SerialOn(w) /\ Serial(w)
      BY DEF Kept, Serial
    <2>2. \A s \in Threads : Ordered(s, w)'
      <3> SUFFICES ASSUME NEW s \in Threads, Busy(s, w)'
                   PROVE  Ordered(s, w)'
        BY DEF Ordered
      <3>1. Ordered(s, w) /\ Busy(s, w) /\ work'[s] = work[s]
        BY <2>1 DEF SerialOn
      <3> QED
        BY <3>1 DEF Ordered, Has
    <2> QED
      BY <2>1, <2>2 DEF SerialOn
  <1>2. RevokedOut(w)'
    BY DEF Kept, RevokedOut
  <1>3. GrantedIn(w)'
    <2>1. \A t \in Threads : work[t].at = "write" /\ work[t].list = w
                            => work'[t].at = "write" /\ work'[t].list = w
      BY DEF Busy, Changing
    <2> QED
      BY <2>1 DEF Kept, GrantedIn
  <1> QED
    BY <1>1, <1>2, <1>3 DEF Kept

\* A step of a thread on another list, or not on a list at all.
LEMMA FrameOfThread ==
    ASSUME NEW w \in Lists, Kept(w), NEW s \in Threads,
           list'[w] = list[w], file'[w] = file[w],
           granted'[w] = granted[w], revoked'[w] = revoked[w],
           trouble[w] \subseteq trouble'[w],
           phase' = "up" => phase = "up",
           \A t \in Threads \ {s} : work'[t] = work[t],
           ~Busy(s, w), ~Busy(s, w)'
    PROVE  Kept(w)'
  <1>1. \A t \in Threads : (Busy(t, w) <=> Busy(t, w)') /\ (Busy(t, w) => work'[t] = work[t])
    BY DEF Busy
  <1> QED
    BY <1>1, FrameKept

\* After a step of a thread that has a list for itself.
LEMMA AloneKept ==
    ASSUME NEW w \in Lists, NEW s \in Threads,
           Serial(w)' => /\ \A t \in Threads \ {s} : ~Busy(t, w)'
                         /\ Unique(list'[w]) /\ Unique(file'[w])
                         /\ Ordered(s, w)',
           RevokedOut(w)', GrantedIn(w)'
    PROVE  Kept(w)'
  <1>1. \A t \in Threads : ~Busy(t, w)' => Ordered(t, w)'
    BY DEF Ordered
  <1> QED
    BY <1>1 DEF Kept, SerialOn

LEMMA Alone ==
    ASSUME NEW w \in Lists, NEW s \in Threads, SerialOn(w), Serial(w)', trouble[w] \subseteq trouble'[w],
           Busy(s, w), \A t \in Threads \ {s} : work'[t] = work[t]
    PROVE  /\ Serial(w) /\ Unique(list[w]) /\ Unique(file[w]) /\ Ordered(s, w)
           /\ \A t \in Threads \ {s} : ~Busy(t, w) /\ ~Busy(t, w)'
  <1>1. Serial(w)
    BY DEF Serial
  <1>2. \A t \in Threads \ {s} : ~Busy(t, w)
    BY <1>1 DEF SerialOn
  <1> QED
    BY <1>1, <1>2 DEF SerialOn, Busy

\* A thread that begins to change a list has it for itself, or the list is in
\* trouble.
LEMMA BeginsAlone ==
    ASSUME TypeOK, NEW w \in Lists, NEW s \in Threads, SerialOn(w), Overlap(s, w), Serial(w)',
           \A t \in Threads \ {s} : work'[t] = work[t]
    PROVE  /\ Serial(w) /\ Unique(list[w]) /\ Unique(file[w])
           /\ \A t \in Threads \ {s} : ~Busy(t, w) /\ ~Busy(t, w)'
  <1>1. trouble'[w] = trouble[w] \cup IF Others(s, w) # {} THEN {"overlap"} ELSE {}
    BY DEF Overlap, TypeOK
  <1>2. Serial(w) /\ Others(s, w) = {}
    BY <1>1 DEF Serial
  <1>3. \A t \in Threads \ {s} : ~Busy(t, w)
    BY <1>2 DEF Others, Busy, Changing
  <1> QED
    BY <1>2, <1>3 DEF SerialOn, Busy

LEMMA InitKept == Init => KeptInv
  <1> SUFFICES ASSUME Init PROVE KeptInv
    OBVIOUS
  <1>1. /\ phase = "up"
        /\ \A w \in Lists : /\ list[w] = <<>> /\ file[w] = <<>>
                            /\ granted[w] = {} /\ revoked[w] = {} /\ trouble[w] = {}
    BY DEF Init
  <1>2. \A s \in Threads, w \in Lists : ~Busy(s, w)
    BY DEF Init, Idle, Busy, Changing
  <1> QED
    BY <1>1, <1>2, EmptyKeys
       DEF KeptInv, ReadInv, Kept, SerialOn, Ordered, Unique, RevokedOut, GrantedIn

LEMMA BeginAddKept ==
    ASSUME Cases \subseteq {"upper"}, TypeOK, EverInv, KeptInv, NEW s \in Threads, BeginAdd(s)
    PROVE  \A v \in Lists : Kept(v)'
  <1>t. work \in [Threads -> Work] /\ \A v \in Lists : Kept(v)
    BY DEF TypeOK, Work, KeptInv
  <1>1. /\ phase = "up" /\ work[s].at = "idle"
        /\ UNCHANGED <<list, file, phase, granted, revoked>>
    BY DEF BeginAdd, Begins, At, process
  <1>2. PICK w \in Lists : \E k \in Typed(w) :
           IF Has(w, k)
           THEN UNCHANGED <<work, ever, trouble>>
           ELSE /\ work' = [work EXCEPT ![s] = [Idle EXCEPT !.at = "insert", !.list = w,
                                                            !.key = k, !.of = "add"]]
                /\ ever' = [ever EXCEPT ![w] = @ \cup {Stored(w, k)}]
                /\ Overlap(s, w)
    BY DEF BeginAdd
  <1>3. PICK k \in Typed(w) :
           IF Has(w, k)
           THEN UNCHANGED <<work, ever, trouble>>
           ELSE /\ work' = [work EXCEPT ![s] = [Idle EXCEPT !.at = "insert", !.list = w,
                                                            !.key = k, !.of = "add"]]
                /\ ever' = [ever EXCEPT ![w] = @ \cup {Stored(w, k)}]
                /\ Overlap(s, w)
    BY <1>2
  <1>4. \A v \in Lists : ~Busy(s, v)
    BY <1>1 DEF Busy, Changing
  <1>5. CASE Has(w, k)
    <2>1. UNCHANGED <<work, trouble>>
      BY <1>3, <1>5
    <2>2. \A v \in Lists : ~Busy(s, v)'
      BY <1>4, <2>1 DEF Busy
    <2> QED
      BY <1>t, <1>1, <1>4, <2>1, <2>2, FrameOfThread
  <1>6. CASE ~Has(w, k)
    <2>1. /\ work'[s].at = "insert" /\ work'[s].list = w /\ work'[s].key = k
          /\ work'[s].of = "add"
          /\ \A t \in Threads \ {s} : work'[t] = work[t]
      <3> DEFINE work1 == [Idle EXCEPT !.at = "insert", !.list = w, !.key = k, !.of = "add"]
      <3>1. /\ work1.at = "insert" /\ work1.list = w /\ work1.key = k /\ work1.of = "add"
        BY DEF Idle
      <3> HIDE DEF work1
      <3>2. work' = [work EXCEPT ![s] = work1]
        BY <1>3, <1>6 DEF work1
      <3> QED
        BY <1>t, <3>1, <3>2
    <2>2. Overlap(s, w)
      BY <1>3, <1>6
    <2>3. \A v \in Lists : trouble[v] \subseteq trouble'[v]
      BY <2>2 DEF Overlap, TypeOK
    <2>4. \A v \in Lists \ {w} : Kept(v)'
      <3> TAKE v \in Lists \ {w}
      <3>1. ~Busy(s, v)'
        BY <2>1 DEF Busy
      <3> QED
        BY <1>t, <1>1, <1>4, <2>1, <2>3, <3>1, FrameOfThread
    <2>5. Kept(w)'
      <3>1. Ordered(s, w)'
        BY <1>1, <1>6, <2>1 DEF Ordered, Has
      <3>2. RevokedOut(w)'
        BY <1>t, <1>1, <2>3 DEF Kept, RevokedOut
      <3>3. GrantedIn(w)'
        <4>1. \A t \in Threads : work[t].at = "write" /\ work[t].list = w
                                => work'[t].at = "write" /\ work'[t].list = w
          BY <1>1, <2>1
        <4> QED
          BY <1>t, <1>1, <2>3, <4>1 DEF Kept, GrantedIn
      <3>4. SerialOn(w)
        BY <1>t DEF Kept
      <3>5. Serial(w)' => /\ \A t \in Threads \ {s} : ~Busy(t, w)'
                          /\ Unique(list[w]) /\ Unique(file[w])
        BY <2>1, <2>2, <3>4, BeginsAlone
      <3> QED
        BY <1>1, <3>1, <3>2, <3>3, <3>5, AloneKept
    <2> QED
      BY <2>4, <2>5
  <1> QED
    BY <1>5, <1>6

LEMMA InsertKept ==
    ASSUME Cases \subseteq {"upper"}, TypeOK, EverInv, KeptInv, NEW s \in Threads, Insert(s)
    PROVE  \A v \in Lists : Kept(v)'
  <1>w. PICK w \in Lists : w = work[s].list
    BY DEF TypeOK
  <1> DEFINE k == Stored(w, work[s].key)
             e == Entry(k, <<>>)
  <1>t. /\ work \in [Threads -> Work] /\ list \in [Lists -> Seq(Entries)]
        /\ revoked \in [Lists -> SUBSET AnyKey]
        /\ \A v \in Lists : Kept(v)
    BY DEF TypeOK, Work, KeptInv
  <1>1. /\ phase = "up" /\ work[s].at = "insert" /\ Goto(s, "save")
        /\ UNCHANGED <<file, phase, trouble, granted>>
        /\ revoked' = [revoked EXCEPT ![w] = @ \ {k}]
    BY <1>w DEF Insert, At, process
  <1>2. /\ work'[s].at = "save" /\ work'[s].list = w /\ work'[s].key = work[s].key
        /\ work'[s].of = work[s].of
        /\ \A t \in Threads \ {s} : work'[t] = work[t]
    BY <1>1, <1>w, GotoFacts
  <1>3. work[s].of = "add" /\ work[s].key \in Typed(w)
    BY <1>1, <1>w DEF EverInv, Fits
  <1>4. k = work[s].key /\ k \in AnyKey /\ e \in Entries /\ e.key = k
    BY <1>t, <1>3, TypedStored, KeyTypes DEF Entry
  <1>5. /\ Keys(Append(list[w], e)) = Keys(list[w]) \cup {k}
        /\ Unique(list[w]) /\ k \notin Keys(list[w]) => Unique(Append(list[w], e))
    BY <1>t, <1>4, AppendFacts
  <1>6. \/ list' = [list EXCEPT ![w] = Append(@, e)]
        \/ /\ \E t \in Others(s, w) : work[t].at = "insert"
           /\ UNCHANGED list
    BY <1>w DEF Insert
  <1> HIDE DEF e, k
  <1>7. list'[w] \in {Append(list[w], e), list[w]}
    BY <1>t, <1>6
  <1>b. Busy(s, w)
    BY <1>1, <1>w DEF Busy, Changing
  <1>8. Serial(w)' => /\ Ordered(s, w) /\ Unique(list[w]) /\ Unique(file[w])
                      /\ \A t \in Threads \ {s} : ~Busy(t, w) /\ ~Busy(t, w)'
    <2>1. SerialOn(w)
      BY <1>t DEF Kept
    <2> QED
      BY <1>t, <1>1, <1>2, <1>b, <2>1, Alone
  <1>9. \A v \in Lists \ {w} : Kept(v)'
    <2> TAKE v \in Lists \ {w}
    <2>1. ~Busy(s, v) /\ ~Busy(s, v)'
      BY <1>2, <1>w DEF Busy
    <2>2. list'[v] = list[v] /\ revoked'[v] = revoked[v]
      BY <1>t, <1>1, <1>6
    <2> QED
      BY <1>t, <1>1, <1>2, <2>1, <2>2, FrameOfThread
  <1>10. Kept(w)'
    <2>1. Serial(w)' => list'[w] = Append(list[w], e) /\ k \notin Keys(list[w])
      <3> SUFFICES ASSUME Serial(w)' PROVE list'[w] = Append(list[w], e) /\ k \notin Keys(list[w])
        OBVIOUS
      <3>1. Others(s, w) = {}
        BY <1>8 DEF Others, Busy, Changing
      <3>2. list'[w] = Append(list[w], e)
        BY <1>t, <1>6, <3>1
      <3>3. ~Has(w, work[s].key)
        BY <1>1, <1>3, <1>8, <1>b DEF Ordered
      <3> QED
        BY <1>4, <3>2, <3>3 DEF Has
    <2>2. Serial(w)' => Unique(list'[w]) /\ Ordered(s, w)'
      BY <1>2, <1>3, <1>4, <1>5, <1>8, <2>1 DEF Ordered, Has
    <2>3. RevokedOut(w)'
      <3>1. revoked'[w] = revoked[w] \ {k} /\ Keys(list'[w]) \subseteq Keys(list[w]) \cup {k}
        BY <1>t, <1>1, <1>5, <1>7
      <3> QED
        BY <1>t, <1>1, <3>1 DEF Kept, RevokedOut
    <2>4. GrantedIn(w)'
      <3>1. Keys(list[w]) \subseteq Keys(list'[w])
        BY <1>5, <1>7
      <3>2. \A t \in Threads : work[t].at = "write" /\ work[t].list = w
                              => work'[t].at = "write" /\ work'[t].list = w
        BY <1>1, <1>2
      <3> QED
        BY <1>t, <1>1, <3>1, <3>2 DEF Kept, GrantedIn
    <2> QED
      BY <1>t, <1>1, <1>8, <2>2, <2>3, <2>4, AloneKept
  <1> QED
    BY <1>9, <1>10

LEMMA BeginDelKept ==
    ASSUME Cases \subseteq {"upper"}, TypeOK, EverInv, KeptInv, NEW s \in Threads, BeginDel(s)
    PROVE  \A v \in Lists : Kept(v)'
  <1>t. /\ work \in [Threads -> Work] /\ list \in [Lists -> Seq(Entries)]
        /\ granted \in [Lists -> SUBSET AnyKey] /\ \A v \in Lists : Kept(v)
    BY DEF TypeOK, Work, KeptInv
  <1>1. /\ phase = "up" /\ work[s].at = "idle" /\ UNCHANGED <<file, phase, revoked>>
    BY DEF BeginDel, Begins, At, process
  <1>2. PICK w \in Lists : \E k \in Typed(w) :
        /\ list' = [list EXCEPT ![w] = IF Has(w, k) THEN RemoveAt(@, First(@, k)) ELSE @]
        /\ work' = [work EXCEPT ![s] = [Idle EXCEPT !.at = "save", !.list = w,
                                                    !.key = k, !.of = "del"]]
        /\ granted' = [granted EXCEPT ![w] = @ \ {Stored(w, k)}]
        /\ Overlap(s, w)
    BY DEF BeginDel
  <1>3. PICK k \in Typed(w) :
        /\ list' = [list EXCEPT ![w] = IF Has(w, k) THEN RemoveAt(@, First(@, k)) ELSE @]
        /\ work' = [work EXCEPT ![s] = [Idle EXCEPT !.at = "save", !.list = w,
                                                    !.key = k, !.of = "del"]]
        /\ granted' = [granted EXCEPT ![w] = @ \ {Stored(w, k)}]
        /\ Overlap(s, w)
    BY <1>2
  <1>4. \A v \in Lists : ~Busy(s, v)
    BY <1>1 DEF Busy, Changing
  <1>5. /\ work'[s].at = "save" /\ work'[s].list = w /\ work'[s].key = k
        /\ work'[s].of = "del"
        /\ \A t \in Threads \ {s} : work'[t] = work[t]
    BY <1>t, <1>3 DEF Idle
  <1>6. \A v \in Lists : trouble[v] \subseteq trouble'[v]
    BY <1>3 DEF Overlap, TypeOK
  <1>7. Stored(w, k) = k
    BY TypedStored
  <1>8. \A v \in Lists \ {w} : Kept(v)'
    <2> TAKE v \in Lists \ {w}
    <2>1. ~Busy(s, v)'
      BY <1>5 DEF Busy
    <2>2. list'[v] = list[v] /\ granted'[v] = granted[v]
      BY <1>t, <1>3
    <2> QED
      BY <1>t, <1>1, <1>4, <1>5, <1>6, <2>1, <2>2, FrameOfThread
  <1>9. Kept(w)'
    <2> DEFINE l == list[w]
               m == list'[w]
    <2>1. /\ Keys(m) \subseteq Keys(l) /\ Keys(l) \ {k} \subseteq Keys(m)
          /\ Unique(l) => Unique(m) /\ k \notin Keys(m)
      <3>1. CASE Has(w, k)
        <4>1. m = RemoveAt(l, First(l, k))
          BY <1>t, <1>3, <3>1
        <4>2. l \in Seq(Entries) /\ First(l, k) \in 1 .. Len(l) /\ l[First(l, k)].key = k
          BY <1>t, <3>1, FirstFacts DEF Has
        <4> HIDE DEF l, m
        <4>3. /\ Keys(m) \subseteq Keys(l)
              /\ \A n \in DOMAIN l : n # First(l, k) => \E j \in DOMAIN m : m[j] = l[n]
              /\ Unique(l) => Unique(m) /\ k \notin Keys(m)
          BY <4>1, <4>2, RemoveFacts
        <4>4. Keys(l) \ {k} \subseteq Keys(m)
          BY <4>2, <4>3 DEF Keys
        <4> QED
          BY <4>3, <4>4
      <3>2. CASE ~Has(w, k)
        BY <1>t, <1>3, <3>2 DEF Has
      <3> QED
        BY <3>1, <3>2
    <2>2. SerialOn(w)
      BY <1>t DEF Kept
    <2>3. Serial(w)' => /\ \A t \in Threads \ {s} : ~Busy(t, w)'
                        /\ Unique(l) /\ Unique(file[w])
      BY <1>3, <1>5, <2>2, BeginsAlone
    <2>4. Serial(w)' => Ordered(s, w)'
      BY <1>5, <2>1, <2>3 DEF Ordered, Has
    <2>5. RevokedOut(w)'
      BY <1>t, <1>1, <1>6, <2>1 DEF Kept, RevokedOut
    <2>6. GrantedIn(w)'
      <3>1. granted'[w] = granted[w] \ {k}
        BY <1>t, <1>3, <1>7
      <3>2. \A t \in Threads : work[t].at = "write" /\ work[t].list = w
                              => work'[t].at = "write" /\ work'[t].list = w
        BY <1>1, <1>5
      <3> QED
        BY <1>t, <1>1, <1>6, <2>1, <3>1, <3>2 DEF Kept, GrantedIn
    <2> QED
      BY <1>1, <2>1, <2>3, <2>4, <2>5, <2>6, AloneKept
  <1> QED
    BY <1>8, <1>9

LEMMA SaveKept ==
    ASSUME TypeOK, EverInv, KeptInv, NEW s \in Threads, Save(s)
    PROVE  \A v \in Lists : Kept(v)'
  <1>w. PICK w \in Lists : w = work[s].list
    BY DEF TypeOK
  <1>t. work \in [Threads -> Work] /\ \A v \in Lists : Kept(v)
    BY DEF TypeOK, Work, KeptInv
  <1>1. /\ phase = "up" /\ work[s].at = "save"
        /\ UNCHANGED <<list, file, phase, trouble, granted, revoked>>
        /\ work' = [work EXCEPT ![s].at = "truncate", ![s].data = list[w]]
    BY <1>w DEF Save, At, process, history
  <1>2. /\ work'[s].at = "truncate" /\ work'[s].list = w /\ work'[s].key = work[s].key
        /\ work'[s].of = work[s].of /\ work'[s].data = list[w]
        /\ \A t \in Threads \ {s} : work'[t] = work[t]
    BY <1>t, <1>1, <1>w DEF Work
  <1>b. Busy(s, w)
    BY <1>1, <1>w DEF Busy, Changing
  <1>3. Serial(w)' => /\ Ordered(s, w) /\ Unique(list[w]) /\ Unique(file[w])
                      /\ \A t \in Threads \ {s} : ~Busy(t, w)'
    <2>1. SerialOn(w)
      BY <1>t DEF Kept
    <2> QED
      BY <1>1, <1>2, <1>b, <2>1, Alone
  <1>4. \A v \in Lists \ {w} : Kept(v)'
    <2> TAKE v \in Lists \ {w}
    <2>1. ~Busy(s, v) /\ ~Busy(s, v)'
      BY <1>2, <1>w DEF Busy
    <2> QED
      BY <1>t, <1>1, <1>2, <2>1, FrameOfThread
  <1>5. Kept(w)'
    <2>1. Serial(w)' => Ordered(s, w)'
      BY <1>1, <1>2, <1>3, <1>b DEF Ordered, Has
    <2>2. RevokedOut(w)'
      BY <1>t, <1>1 DEF Kept, RevokedOut
    <2>3. GrantedIn(w)'
      <3>1. \A t \in Threads : work[t].at = "write" /\ work[t].list = w
                              => work'[t].at = "write" /\ work'[t].list = w
        BY <1>1, <1>2
      <3> QED
        BY <1>t, <1>1, <3>1 DEF Kept, GrantedIn
    <2> QED
      BY <1>1, <1>3, <2>1, <2>2, <2>3, AloneKept
  <1> QED
    BY <1>4, <1>5

\* What the answer of a command records, or the return of CheckIp.
LEMMA AnswerFacts ==
    ASSUME Cases \subseteq {"upper"}, TypeOK, EverInv, NEW s \in Threads,
           work[s].at \in Changing, AfterWrite(s)
    PROVE  LET w == work[s].list  k == work[s].key
           IN  /\ w \in Lists
               /\ \A v \in Lists \ {w} : granted'[v] = granted[v] /\ revoked'[v] = revoked[v]
               /\ granted'[w] = IF work[s].of = "add" THEN granted[w] \cup {k} ELSE granted[w]
               /\ revoked'[w] = IF work[s].of = "del" THEN revoked[w] \cup {k} ELSE revoked[w]
               /\ \A v \in Lists : ~Busy(s, v)'
  <1>w. PICK w \in Lists : w = work[s].list
    BY DEF TypeOK
  <1>t. /\ granted \in [Lists -> SUBSET AnyKey] /\ revoked \in [Lists -> SUBSET AnyKey]
    BY DEF TypeOK
  <1>1. \A v \in Lists : ~Busy(s, v)'
    BY AfterWriteFacts DEF Busy, Changing, Idle
  <1>2. work[s].of \in {"add", "del"} => Stored(w, work[s].key) = work[s].key
    BY <1>w, TypedStored DEF EverInv, Fits
  <1>3. CASE /\ work[s].of = "add"
             /\ granted' = [granted EXCEPT ![w] = @ \cup {Stored(w, work[s].key)}]
             /\ UNCHANGED revoked
    BY <1>w, <1>t, <1>1, <1>2, <1>3
  <1>4. CASE /\ work[s].of = "del"
             /\ revoked' = [revoked EXCEPT ![w] = @ \cup {Stored(w, work[s].key)}]
             /\ UNCHANGED granted
    BY <1>w, <1>t, <1>1, <1>2, <1>4
  <1>5. CASE work[s].of = "check" /\ UNCHANGED <<granted, revoked>>
    BY <1>w, <1>1, <1>5
  <1> QED
    BY <1>w, <1>3, <1>4, <1>5 DEF AfterWrite

LEMMA TruncateKept ==
    ASSUME Cases \subseteq {"upper"}, TypeOK, EverInv, KeptInv, NEW s \in Threads, Truncate(s)
    PROVE  \A v \in Lists : Kept(v)'
  <1>w. PICK w \in Lists : w = work[s].list
    BY DEF TypeOK
  <1>t. /\ work \in [Threads -> Work] /\ file \in [Lists -> Seq(Entries)]
        /\ trouble \in [Lists -> SUBSET Trouble] /\ \A v \in Lists : Kept(v)
    BY DEF TypeOK, Work, KeptInv
  <1>1. phase = "up" /\ work[s].at = "truncate" /\ UNCHANGED <<list, phase>>
    BY DEF Truncate, At, process
  <1>b. Busy(s, w)
    BY <1>1, <1>w DEF Busy, Changing
  <1>s. SerialOn(w)
    BY <1>t DEF Kept
  <1>2. CASE /\ file' = [file EXCEPT ![w] = <<>>]
             /\ Goto(s, "write")
             /\ UNCHANGED <<granted, revoked, trouble>>
    <2>1. /\ work'[s].at = "write" /\ work'[s].list = w /\ work'[s].key = work[s].key
          /\ work'[s].of = work[s].of /\ work'[s].data = work[s].data
          /\ \A t \in Threads \ {s} : work'[t] = work[t]
      BY <1>2, <1>w, GotoFacts
    <2>2. Serial(w)' => /\ Ordered(s, w) /\ Unique(list[w])
                        /\ \A t \in Threads \ {s} : ~Busy(t, w)'
      BY <1>2, <1>b, <1>s, <2>1, Alone
    <2>3. file'[w] = <<>> /\ \A v \in Lists \ {w} : file'[v] = file[v]
      BY <1>t, <1>2
    <2>4. \A v \in Lists \ {w} : Kept(v)'
      <3> TAKE v \in Lists \ {w}
      <3>1. ~Busy(s, v) /\ ~Busy(s, v)'
        BY <1>w, <2>1 DEF Busy
      <3> QED
        BY <1>t, <1>1, <1>2, <2>1, <2>3, <3>1, FrameOfThread
    <2>5. Kept(w)'
      <3>1. Serial(w)' => Ordered(s, w)' /\ Unique(file'[w])
        BY <1>1, <1>b, <2>1, <2>2, <2>3 DEF Ordered, Has, Unique
      <3>2. RevokedOut(w)'
        BY <1>t, <1>1, <1>2, <2>3, EmptyKeys DEF Kept, RevokedOut
      <3>3. GrantedIn(w)'
        BY <1>t, <1>1, <1>2, <2>1 DEF Kept, GrantedIn
      <3> QED
        BY <1>1, <2>2, <3>1, <3>2, <3>3, AloneKept
    <2> QED
      BY <2>4, <2>5
  <1>3. CASE /\ trouble' = [trouble EXCEPT ![w] = @ \cup {"failed"}]
             /\ AfterWrite(s)
             /\ UNCHANGED file
    <2>1. \A t \in Threads \ {s} : work'[t] = work[t]
      BY <1>3, AfterWriteFacts
    <2>2. /\ \A v \in Lists \ {w} : granted'[v] = granted[v] /\ revoked'[v] = revoked[v]
          /\ \A v \in Lists : ~Busy(s, v)'
      BY <1>1, <1>3, <1>w, AnswerFacts DEF Changing
    <2>3. "failed" \in trouble'[w] /\ \A v \in Lists : trouble[v] \subseteq trouble'[v]
      BY <1>t, <1>3
    <2>4. \A v \in Lists \ {w} : Kept(v)'
      <3> TAKE v \in Lists \ {w}
      <3>1. ~Busy(s, v)
        BY <1>w DEF Busy
      <3> QED
        BY <1>t, <1>1, <1>3, <2>1, <2>2, <2>3, <3>1, FrameOfThread
    <2>5. Kept(w)'
      <3>1. Serial(w)' => /\ Unique(list[w]) /\ Unique(file[w])
                          /\ \A t \in Threads \ {s} : ~Busy(t, w)'
        BY <1>b, <1>s, <2>1, <2>3, Alone
      <3>2. Ordered(s, w)'
        BY <2>2 DEF Ordered
      <3>3. RevokedOut(w)' /\ GrantedIn(w)'
        BY <2>3 DEF RevokedOut, GrantedIn
      <3> QED
        BY <1>1, <1>3, <3>1, <3>2, <3>3, AloneKept
    <2> QED
      BY <2>4, <2>5
  <1> QED
    BY <1>2, <1>3, <1>w DEF Truncate

LEMMA WriteFileKept ==
    ASSUME Cases \subseteq {"upper"}, TypeOK, EverInv, KeptInv, NEW s \in Threads, WriteFile(s)
    PROVE  \A v \in Lists : Kept(v)'
  <1>w. PICK w \in Lists : w = work[s].list
    BY DEF TypeOK
  <1>t. /\ work \in [Threads -> Work] /\ file \in [Lists -> Seq(Entries)]
        /\ list \in [Lists -> Seq(Entries)] /\ work[s].data \in Seq(Entries)
        /\ \A v \in Lists : Kept(v)
    BY DEF TypeOK, Work, KeptInv
  <1>1. /\ phase = "up" /\ work[s].at = "write" /\ AfterWrite(s)
        /\ UNCHANGED <<list, phase, trouble>>
    BY DEF WriteFile, At, process
  <1>2. PICK rest \in Rest(file[w], Len(work[s].data)) :
           file' = [file EXCEPT ![w] = work[s].data \o rest]
    BY <1>w DEF WriteFile
  <1>b. Busy(s, w)
    BY <1>1, <1>w DEF Busy, Changing
  <1>s. SerialOn(w)
    BY <1>t DEF Kept
  <1>3. \A t \in Threads \ {s} : work'[t] = work[t]
    BY <1>1, AfterWriteFacts
  <1>4. /\ \A v \in Lists \ {w} : granted'[v] = granted[v] /\ revoked'[v] = revoked[v]
        /\ granted'[w] = IF work[s].of = "add" THEN granted[w] \cup {work[s].key} ELSE granted[w]
        /\ revoked'[w] = IF work[s].of = "del" THEN revoked[w] \cup {work[s].key} ELSE revoked[w]
        /\ \A v \in Lists : ~Busy(s, v)'
    BY <1>1, <1>w, AnswerFacts DEF Changing
  <1>5. Serial(w)' => /\ Ordered(s, w) /\ Unique(list[w])
                      /\ \A t \in Threads \ {s} : ~Busy(t, w)'
    BY <1>1, <1>b, <1>s, <1>3, Alone
  <1>6. Serial(w)' => file'[w] = list[w]
    <2> SUFFICES ASSUME Serial(w)' PROVE file'[w] = list[w]
      OBVIOUS
    <2>1. work[s].data = list[w] /\ file[w] = <<>>
      BY <1>1, <1>5, <1>b DEF Ordered
    <2>2. rest = <<>>
      <3>1. file[w] \in Seq(Entries) /\ Len(work[s].data) \in Nat
        BY <1>t
      <3> QED
        BY <2>1, <3>1, RestFacts
    <2>3. list[w] \in Seq(Entries)
      BY <1>t
    <2> QED
      BY <1>t, <1>2, <2>1, <2>2, <2>3
  <1>7. \A v \in Lists \ {w} : Kept(v)'
    <2> TAKE v \in Lists \ {w}
    <2>1. ~Busy(s, v) /\ file'[v] = file[v]
      BY <1>t, <1>w, <1>2 DEF Busy
    <2> QED
      BY <1>t, <1>1, <1>3, <1>4, <2>1, FrameOfThread
  <1>8. Kept(w)'
    <2>1. Ordered(s, w)'
      BY <1>4 DEF Ordered
    <2>2. RevokedOut(w)'
      <3> SUFFICES ASSUME trouble[w] \subseteq {"torn"}
                   PROVE  revoked'[w] \cap (Keys(list[w]) \cup Keys(file'[w])) = {}
        BY <1>1 DEF RevokedOut
      <3>1. Serial(w)'
        BY <1>1 DEF Serial
      <3>2. work[s].of = "del" => work[s].key \notin Keys(list[w])
        BY <1>5, <1>b, <3>1 DEF Ordered, Has
      <3> QED
        <4>1. revoked[w] \cap Keys(list[w]) = {}
          BY <1>t DEF Kept, RevokedOut
        <4>2. revoked'[w] \cap Keys(list[w]) = {}
          BY <1>4, <3>2, <4>1
        <4> QED
          BY <1>6, <3>1, <4>2
    <2>3. GrantedIn(w)'
      <3> SUFFICES ASSUME trouble[w] = {}
                   PROVE  granted'[w] \subseteq Keys(list[w]) /\ granted'[w] \subseteq Keys(file'[w])
        BY <1>1 DEF GrantedIn
      <3>1. Serial(w)'
        BY <1>1 DEF Serial
      <3>2. work[s].of = "add" => work[s].key \in Keys(list[w])
        BY <1>1, <1>5, <1>b, <3>1 DEF Ordered, Has
      <3>3. granted[w] \subseteq Keys(list[w])
        BY <1>t, <1>1 DEF Kept, GrantedIn
      <3>4. granted'[w] \subseteq Keys(list[w])
        BY <1>4, <3>2, <3>3
      <3> QED
        BY <1>6, <3>1, <3>4
    <2> QED
      BY <1>1, <1>5, <1>6, <2>1, <2>2, <2>3, AloneKept
  <1> QED
    BY <1>7, <1>8

LEMMA BeginCheckKept ==
    ASSUME TypeOK, EverInv, KeptInv, NEW s \in Threads, BeginCheck(s)
    PROVE  \A v \in Lists : Kept(v)'
  <1>t. work \in [Threads -> Work] /\ \A v \in Lists : Kept(v)
    BY DEF TypeOK, Work, KeptInv
  <1>l. "fp" \in Lists
    BY DEF Lists
  <1>1. /\ phase = "up" /\ work[s].at = "idle"
        /\ UNCHANGED <<list, file, phase, granted, revoked>>
    BY DEF BeginCheck, Begins, At, process
  <1>3. /\ work'[s].list = "fp" /\ work'[s].of = "check"
        /\ \/ work'[s].at = "note" /\ Overlap(s, "fp")
           \/ work'[s].at = "lookfp" /\ UNCHANGED trouble
        /\ \A t \in Threads \ {s} : work'[t] = work[t]
    BY BeginCheckFacts
  <1>4. \A v \in Lists : ~Busy(s, v)
    BY <1>1 DEF Busy, Changing
  <1>5. \A v \in Lists : trouble[v] \subseteq trouble'[v]
    <2>1. CASE Overlap(s, "fp")
      BY <2>1 DEF Overlap, TypeOK
    <2> QED
      BY <1>3, <2>1
  <1>6. \A v \in Lists : ~Busy(s, v)' => Kept(v)'
    BY <1>t, <1>1, <1>3, <1>4, <1>5, FrameOfThread
  <1>7. \A v \in Lists : Busy(s, v)' => v = "fp" /\ Overlap(s, "fp") /\ work'[s].at = "note"
    BY <1>3 DEF Busy, Changing
  <1>8. ASSUME Busy(s, "fp")'
        PROVE  Kept("fp")'
    <2>1. SerialOn("fp")
      BY <1>t, <1>l DEF Kept
    <2>2. Serial("fp")' => /\ Unique(list["fp"]) /\ Unique(file["fp"])
                           /\ \A t \in Threads \ {s} : ~Busy(t, "fp")'
      BY <1>3, <1>7, <1>8, <1>l, <2>1, BeginsAlone
    <2>3. Ordered(s, "fp")'
      BY <1>3, <1>7, <1>8, <1>l DEF Ordered
    <2>4. RevokedOut("fp")'
      BY <1>t, <1>l, <1>1, <1>5 DEF Kept, RevokedOut
    <2>5. GrantedIn("fp")'
      <3>1. \A t \in Threads : work[t].at = "write" /\ work[t].list = "fp"
                              => work'[t].at = "write" /\ work'[t].list = "fp"
        BY <1>1, <1>3
      <3> QED
        BY <1>t, <1>l, <1>1, <1>5, <3>1 DEF Kept, GrantedIn
    <2> QED
      BY <1>1, <1>l, <2>2, <2>3, <2>4, <2>5, AloneKept
  <1> QED
    BY <1>6, <1>7, <1>8

LEMMA CheckIpKept ==
    ASSUME TypeOK, EverInv, KeptInv, NEW s \in Threads, CheckIp(s)
    PROVE  \A v \in Lists : Kept(v)'
  <1>t. /\ work \in [Threads -> Work] /\ list \in [Lists -> Seq(Entries)]
        /\ work[s].ip \in AnyIp /\ \A v \in Lists : Kept(v)
    BY DEF TypeOK, Work, KeptInv
  <1>l. "fp" \in Lists
    BY DEF Lists
  <1>1. /\ phase = "up" /\ work[s].at = "note" /\ Goto(s, "save")
        /\ UNCHANGED <<file, phase, trouble, granted, revoked>>
    BY DEF CheckIp, At, process, history
  <1>2. work[s].of = "check" /\ work[s].list = "fp"
    BY <1>1 DEF EverInv, Fits
  <1>3. /\ work'[s].at = "save" /\ work'[s].list = "fp" /\ work'[s].of = "check"
        /\ \A t \in Threads \ {s} : work'[t] = work[t]
    BY <1>1, <1>2, GotoFacts
  <1>b. Busy(s, "fp")
    BY <1>1, <1>2 DEF Busy, Changing
  <1>4. /\ \A v \in Lists \ {"fp"} : list'[v] = list[v]
        /\ Keys(list'["fp"]) = Keys(list["fp"])
        /\ Unique(list["fp"]) => Unique(list'["fp"])
    BY <1>t, CheckIpFacts, GrownKeys
  <1>5. Serial("fp")' => /\ Unique(list["fp"]) /\ Unique(file["fp"])
                         /\ \A t \in Threads \ {s} : ~Busy(t, "fp")'
    <2>1. SerialOn("fp")
      BY <1>t, <1>l DEF Kept
    <2> QED
      BY <1>l, <1>1, <1>3, <1>b, <2>1, Alone
  <1>6. \A v \in Lists \ {"fp"} : Kept(v)'
    <2> TAKE v \in Lists \ {"fp"}
    <2>1. ~Busy(s, v) /\ ~Busy(s, v)'
      BY <1>2, <1>3 DEF Busy
    <2> QED
      BY <1>t, <1>1, <1>3, <1>4, <2>1, FrameOfThread
  <1>7. Kept("fp")'
    <2>1. Ordered(s, "fp")'
      BY <1>3 DEF Ordered
    <2>2. RevokedOut("fp")'
      BY <1>t, <1>l, <1>1, <1>4 DEF Kept, RevokedOut
    <2>3. GrantedIn("fp")'
      <3>1. \A t \in Threads : work[t].at = "write" /\ work[t].list = "fp"
                              => work'[t].at = "write" /\ work'[t].list = "fp"
        BY <1>1, <1>3
      <3> QED
        BY <1>t, <1>l, <1>1, <1>4, <3>1 DEF Kept, GrantedIn
    <2> QED
      BY <1>l, <1>1, <1>4, <1>5, <2>1, <2>2, <2>3, AloneKept
  <1> QED
    BY <1>6, <1>7

LEMMA LooksKept ==
    ASSUME TypeOK, KeptInv, NEW s \in Threads, LookFp(s) \/ LookIp(s) \/ EndCheck(s)
    PROVE  \A v \in Lists : Kept(v)'
  <1>1. /\ UNCHANGED <<list, file, phase, granted, revoked, trouble>>
        /\ \A v \in Lists : ~Busy(s, v)
    BY DEF LookFp, LookIp, EndCheck, At, Busy, Changing, process, history
  <1>2. /\ \A t \in Threads \ {s} : work'[t] = work[t]
        /\ work'[s].at \in {"allowed", "lookip", "idle"}
    <2>1. \/ Goto(s, "allowed") \/ Goto(s, "lookip") \/ Done(s)
      BY DEF LookFp, LookIp, EndCheck
    <2> QED
      BY <2>1, GotoFacts, DoneFacts DEF Idle
  <1>3. \A v \in Lists : ~Busy(s, v)'
    BY <1>2 DEF Busy, Changing
  <1> QED
    BY <1>1, <1>2, <1>3, FrameOfThread DEF KeptInv

LEMMA ReadLineKept ==
    ASSUME TypeOK, EverInv, KeptInv, NEW w \in Lists, ReadLine(w)
    PROVE  \A v \in Lists : Kept(v)'
  <1>t. /\ list \in [Lists -> Seq(Entries)] /\ file \in [Lists -> Seq(Entries)]
        /\ nread \in [Lists -> Nat] /\ \A v \in Lists : Kept(v)
    BY DEF TypeOK, KeptInv
  <1> DEFINE line == file[w][nread[w] + 1]
             e == Reread(line)
  <1>1. /\ phase = "reading" /\ phase' = "reading"
        /\ UNCHANGED <<file, work, granted, revoked, trouble>>
    BY DEF ReadLine, history
  <1>2. \A t \in Threads, v \in Lists : ~Busy(t, v) /\ ~Busy(t, v)' /\ work[t].at = "idle"
    BY <1>1 DEF EverInv, Fits, Busy, Changing
  <1>3. nread[w] + 1 \in DOMAIN file[w]
    BY <1>t DEF ReadLine
  <1>4. line \in Entries /\ line.key \in Keys(file[w])
    BY <1>t, <1>3 DEF Keys
  <1>5. e \in Entries /\ e.key = line.key
    BY <1>4, RereadFacts
  <1>6. Keys(list[w]) = {file[w][i].key : i \in 1 .. nread[w]}
    BY <1>1 DEF KeptInv, ReadInv
  <1>7. Unique(file[w]) => line.key \notin Keys(list[w])
    <2> SUFFICES ASSUME Unique(file[w]), NEW i \in 1 .. nread[w], file[w][i].key = line.key
                 PROVE  FALSE
      BY <1>6
    <2>1. i \in DOMAIN file[w] /\ i # nread[w] + 1
      BY <1>t, <1>3
    <2> QED
      BY <1>3, <2>1 DEF Unique
  <1> HIDE DEF line, e
  <1>8. /\ list'[w] \in {list[w], Append(list[w], e)}
        /\ \A v \in Lists \ {w} : list'[v] = list[v]
    BY <1>t DEF ReadLine, line, e
  <1>9. /\ Keys(list'[w]) \subseteq Keys(list[w]) \cup Keys(file[w])
        /\ Unique(list[w]) /\ Unique(file[w]) => Unique(list'[w])
    <2>1. /\ Keys(Append(list[w], e)) = Keys(list[w]) \cup {e.key}
          /\ Unique(list[w]) /\ e.key \notin Keys(list[w]) => Unique(Append(list[w], e))
      BY <1>t, <1>5, AppendFacts
    <2> QED
      BY <1>4, <1>5, <1>7, <1>8, <2>1
  <1>10. \A v \in Lists \ {w} : Kept(v)'
    BY <1>t, <1>1, <1>2, <1>8, FrameKept
  <1>11. Kept(w)'
    <2>1. SerialOn(w)'
      <3>1. Serial(w)' => Unique(list'[w]) /\ Unique(file'[w])
        BY <1>t, <1>1, <1>9 DEF Kept, SerialOn, Serial
      <3> QED
        BY <1>2, <3>1 DEF SerialOn, Ordered
    <2>2. RevokedOut(w)'
      BY <1>t, <1>1, <1>9 DEF Kept, RevokedOut
    <2>3. GrantedIn(w)'
      BY <1>t, <1>1, <1>2 DEF Kept, GrantedIn
    <2> QED
      BY <2>1, <2>2, <2>3 DEF Kept
  <1> QED
    BY <1>10, <1>11

LEMMA CrashKept ==
    ASSUME TypeOK, KeptInv, Crash
    PROVE  \A v \in Lists : Kept(v)'
  <1> SUFFICES ASSUME NEW v \in Lists
               PROVE  Kept(v)'
    OBVIOUS
  <1>1. /\ phase' = "down" /\ UNCHANGED <<file, granted, revoked>>
        /\ list'[v] = <<>> /\ \A t \in Threads : work'[t] = Idle
        /\ trouble'[v] = trouble[v] \cup
              IF \E t \in Threads : work[t].at = "write" /\ work[t].list = v THEN {"torn"} ELSE {}
    BY DEF Crash
  <1>2. Kept(v) /\ \A t \in Threads : ~Busy(t, v)'
    BY <1>1 DEF KeptInv, Busy, Changing, Idle
  <1>3. SerialOn(v)'
    <2>1. Unique(<<>>)
      BY DEF Unique
    <2>2. Serial(v)' => Unique(file[v])
      BY <1>1, <1>2 DEF Kept, SerialOn, Serial
    <2> QED
      BY <1>1, <1>2, <2>1, <2>2 DEF SerialOn, Ordered
  <1>4. RevokedOut(v)'
    BY <1>1, <1>2, EmptyKeys DEF Kept, RevokedOut
  <1>5. GrantedIn(v)'
    BY <1>1, <1>2 DEF Kept, GrantedIn
  <1> QED
    BY <1>3, <1>4, <1>5 DEF Kept

LEMMA ServeKept ==
    ASSUME TypeOK, EverInv, KeptInv, Serve
    PROVE  \A v \in Lists : Kept(v)'
  <1> SUFFICES ASSUME NEW v \in Lists
               PROVE  Kept(v)'
    OBVIOUS
  <1>1. /\ phase = "reading" /\ phase' = "up" /\ nread[v] = Len(file[v])
        /\ UNCHANGED <<list, file, work, granted, revoked, trouble>>
    BY DEF Serve, history
  <1>2. Kept(v) /\ \A t \in Threads : ~Busy(t, v) /\ ~Busy(t, v)' /\ work[t].at = "idle"
    BY <1>1 DEF KeptInv, EverInv, Fits, Busy, Changing
  <1>3. Keys(list[v]) = Keys(file[v])
    <2>1. DOMAIN file[v] = 1 .. nread[v]
      BY <1>1 DEF TypeOK
    <2> QED
      BY <1>1, <2>1 DEF KeptInv, ReadInv, Keys
  <1>4. SerialOn(v)'
    BY <1>1, <1>2 DEF Kept, SerialOn, Ordered, Serial
  <1>5. RevokedOut(v)'
    BY <1>1, <1>2 DEF Kept, RevokedOut
  <1>6. GrantedIn(v)'
    BY <1>1, <1>2, <1>3 DEF Kept, GrantedIn
  <1> QED
    BY <1>4, <1>5, <1>6 DEF Kept

LEMMA StepRead ==
    ASSUME TypeOK, EverInv, KeptInv, [Next]_vars
    PROVE  ReadInv'
  <1>t. /\ list \in [Lists -> Seq(Entries)] /\ file \in [Lists -> Seq(Entries)]
        /\ nread \in [Lists -> Nat] /\ ReadInv
    BY DEF TypeOK, KeptInv
  <1>1. ASSUME NEW s \in Threads, Step(s)
        PROVE  ReadInv'
    <2>1. phase = "up" /\ phase' = "up"
      BY <1>1 DEF Step, BeginAdd, BeginDel, BeginCheck, Begins, Insert, CheckIp, Save, Truncate,
                  WriteFile, LookFp, LookIp, EndCheck, At, process
    <2> QED
      BY <2>1 DEF ReadInv
  <1>2. ASSUME NEW w \in Lists, ReadLine(w)
        PROVE  ReadInv'
    <2> DEFINE line == file[w][nread[w] + 1]
    <2>1. /\ phase = "reading" /\ phase' = "reading" /\ UNCHANGED file
          /\ nread' = [nread EXCEPT ![w] = @ + 1] /\ nread[w] < Len(file[w])
      BY <1>2 DEF ReadLine
    <2>2. line \in Entries /\ Len(file[w]) \in Nat /\ nread[w] \in Nat
      BY <1>t, <2>1
    <2>3. Keys(Append(list[w], Reread(line))) = Keys(list[w]) \cup {line.key}
      BY <1>t, <2>2, RereadFacts, AppendFacts
    <2>4. list'[w] = IF w = "fp" /\ Has(w, line.key) THEN list[w] ELSE Append(list[w], Reread(line))
      BY <1>t, <1>2 DEF ReadLine
    <2>5. \A v \in Lists \ {w} : list'[v] = list[v] /\ nread'[v] = nread[v]
      BY <1>t, <1>2 DEF ReadLine
    <2> HIDE DEF line
    <2>6. Keys(list'[w]) = Keys(list[w]) \cup {line.key}
      BY <2>3, <2>4 DEF Has
    <2>7. Keys(list[w]) = {file[w][i].key : i \in 1 .. nread[w]}
      BY <1>t, <2>1 DEF ReadInv
    <2>8. nread'[w] = nread[w] + 1 /\ nread'[w] \in 0 .. Len(file[w])
      BY <1>t, <2>1, <2>2
    <2>9. Keys(list'[w]) = {file[w][i].key : i \in 1 .. nread'[w]}
      <3>1. 1 .. nread'[w] = 1 .. nread[w] \cup {nread[w] + 1}
        BY <2>2, <2>8
      <3> QED
        BY <2>6, <2>7, <3>1 DEF line
    <2>10. \A v \in Lists \ {w} : /\ nread'[v] \in 0 .. Len(file[v])
                                 /\ Keys(list'[v]) = {file[v][i].key : i \in 1 .. nread'[v]}
      BY <1>t, <2>1, <2>5 DEF ReadInv
    <2>11. \A v \in Lists : /\ nread'[v] \in 0 .. Len(file'[v])
                          /\ Keys(list'[v]) = {file'[v][i].key : i \in 1 .. nread'[v]}
      <3> TAKE v \in Lists
      <3>1. CASE v = w
        BY <2>1, <2>8, <2>9, <3>1
      <3>2. CASE v # w
        <4>1. v \in Lists \ {w} /\ file'[v] = file[v]
          BY <2>1, <3>2
        <4> QED
          BY <2>10, <4>1, Zenon
      <3> QED
        BY <3>1, <3>2
    <2> QED
      BY <2>1, <2>11 DEF ReadInv
  <1>3. CASE Crash
    BY <1>3 DEF Crash, ReadInv
  <1>4. CASE Start
    <2>1. /\ phase' = "reading" /\ UNCHANGED <<list, file>>
          /\ \A w \in Lists : list[w] = <<>> /\ nread'[w] = 0
      BY <1>t, <1>4 DEF Start, ReadInv
    <2>2. \A w \in Lists : Keys(list'[w]) = {file[w][i].key : i \in 1 .. nread'[w]}
      BY <2>1, EmptyKeys
    <2>3. \A w \in Lists : nread'[w] \in 0 .. Len(file[w])
      BY <1>t, <2>1
    <2> QED
      BY <2>1, <2>2, <2>3 DEF ReadInv
  <1>5. CASE Serve
    BY <1>5 DEF Serve, ReadInv
  <1>6. CASE UNCHANGED vars
    <2>1. UNCHANGED <<list, file, phase, nread>>
      BY <1>6 DEF vars, process
    <2> QED
      BY <1>t, <2>1 DEF ReadInv
  <1> QED
    BY <1>1, <1>2, <1>3, <1>4, <1>5, <1>6 DEF Next

LEMMA StepKept ==
    ASSUME Cases \subseteq {"upper"}, TypeOK, EverInv, KeptInv, [Next]_vars
    PROVE  KeptInv'
  <1>1. ASSUME NEW s \in Threads, Step(s)
        PROVE  \A v \in Lists : Kept(v)'
    BY <1>1, BeginAddKept, InsertKept, BeginDelKept, SaveKept, TruncateKept, WriteFileKept,
       BeginCheckKept, CheckIpKept, LooksKept DEF Step
  <1>2. ASSUME Start PROVE \A v \in Lists : Kept(v)'
    <2>1. /\ UNCHANGED <<list, file, work, granted, revoked, trouble>> /\ phase' = "reading"
      BY <1>2 DEF Start, history
    <2>2. \A t \in Threads, v \in Lists :
             (Busy(t, v) <=> Busy(t, v)') /\ (Busy(t, v) => work'[t] = work[t])
      BY <2>1 DEF Busy
    <2>3. SUFFICES ASSUME NEW v \in Lists PROVE Kept(v)'
      OBVIOUS
    <2>4. /\ Kept(v) /\ list'[v] = list[v] /\ file'[v] = file[v] /\ trouble'[v] = trouble[v]
          /\ granted'[v] = granted[v] /\ revoked'[v] = revoked[v]
      BY <2>1 DEF KeptInv
    <2>5. phase' = "up" => phase = "up"
      BY <2>1
    <2> QED
      BY <2>2, <2>4, <2>5, FrameKept
  <1>3. ASSUME UNCHANGED vars PROVE \A v \in Lists : Kept(v)'
    <2>1. UNCHANGED <<list, file, work, granted, revoked, trouble, phase>>
      BY <1>3 DEF vars, process, history
    <2>2. \A t \in Threads, v \in Lists :
             (Busy(t, v) <=> Busy(t, v)') /\ (Busy(t, v) => work'[t] = work[t])
      BY <2>1 DEF Busy
    <2>3. SUFFICES ASSUME NEW v \in Lists PROVE Kept(v)'
      OBVIOUS
    <2>4. /\ Kept(v) /\ list'[v] = list[v] /\ file'[v] = file[v] /\ trouble'[v] = trouble[v]
          /\ granted'[v] = granted[v] /\ revoked'[v] = revoked[v]
      BY <2>1 DEF KeptInv
    <2>5. phase' = "up" => phase = "up"
      BY <2>1
    <2> QED
      BY <2>2, <2>4, <2>5, FrameKept
  <1> QED
    BY <1>1, <1>2, <1>3, ReadLineKept, CrashKept, ServeKept, StepRead DEF Next, KeptInv

LEMMA KeptAlways == ASSUME Cases \subseteq {"upper"} PROVE Spec => []KeptInv
  <1>1. TypeOK /\ EverInv /\ [Next]_vars => EverInv'
    BY StepEver
  <1>2. TypeOK /\ EverInv /\ KeptInv /\ [Next]_vars => KeptInv'
    BY StepKept
  <1> QED
    BY <1>1, <1>2, InitEver, InitKept, TypeCorrect, PTL DEF Spec

\* When admins type fingerprints in capitals, what an admin deleted is in the
\* list again only when it is added again, over any number of crashes and
\* restarts, as long as no two threads changed the list at the same time and
\* every save could open the file.
THEOREM RevokedStays == ASSUME Cases \subseteq {"upper"} PROVE Spec => []RevokedStaysOut
  <1>1. KeptInv => RevokedStaysOut
    BY DEF KeptInv, Kept, RevokedOut, RevokedStaysOut
  <1> QED
    BY <1>1, KeptAlways, PTL

\* Then what an admin added and nobody deleted is in the list, if in addition
\* no crash hit a save after it truncated the file.
THEOREM AddedStays == ASSUME Cases \subseteq {"upper"} PROVE Spec => []AddedStaysIn
  <1>1. KeptInv => AddedStaysIn
    BY DEF KeptInv, Kept, GrantedIn, AddedStaysIn
  <1> QED
    BY <1>1, KeptAlways, PTL

-----------------------------------------------------------------------------
(* New ips *)

LEMMA SeenAppend ==
    ASSUME NEW l \in Seq(Entries), NEW e \in Entries, NEW k, NEW ip, SeenIn(l, k, ip)
    PROVE  SeenIn(Append(l, e), k, ip)
  <1> DEFINE m == Append(l, e)
  <1>1. \A i \in DOMAIN l : i \in DOMAIN m /\ m[i] = l[i]
    OBVIOUS
  <1> HIDE DEF m
  <1>2. SeenIn(m, k, ip)
    BY <1>1 DEF SeenIn
  <1> QED
    BY <1>2 DEF m

LEMMA SeenRemove ==
    ASSUME NEW l \in Seq(Entries), NEW i \in 1 .. Len(l), NEW k, NEW ip,
           k # l[i].key, SeenIn(l, k, ip)
    PROVE  SeenIn(RemoveAt(l, i), k, ip)
  <1>1. PICK n \in DOMAIN l : l[n].key = k /\ \E j \in DOMAIN l[n].ips : l[n].ips[j] = ip
    BY DEF SeenIn
  <1>2. PICK m \in DOMAIN RemoveAt(l, i) : RemoveAt(l, i)[m] = l[n]
    BY <1>1, RemoveFacts
  <1> QED
    BY <1>1, <1>2 DEF SeenIn

LEMMA SeenGrown ==
    ASSUME NEW l, NEW m, NEW i, NEW new \in AnyIp, Grown(l, m, i, new)
    PROVE  /\ SeenIn(m, l[i].key, new)
           /\ \A k, ip : SeenIn(l, k, ip) => SeenIn(m, k, ip)
  <1>1. \A ips \in Seq(AnyIp) :
           /\ Len(ips) + 1 \in DOMAIN Append(ips, new) /\ Append(ips, new)[Len(ips) + 1] = new
           /\ \A j \in DOMAIN ips : j \in DOMAIN Append(ips, new) /\ Append(ips, new)[j] = ips[j]
    OBVIOUS
  <1>2. /\ \E j \in DOMAIN m[i].ips : m[i].ips[j] = new
        /\ \A j \in DOMAIN l[i].ips : j \in DOMAIN m[i].ips /\ m[i].ips[j] = l[i].ips[j]
    BY <1>1 DEF Grown
  <1>3. SeenIn(m, l[i].key, new)
    BY <1>2, Zenon DEF Grown, SeenIn
  <1>4. ASSUME NEW k, NEW ip, SeenIn(l, k, ip)
        PROVE  SeenIn(m, k, ip)
    <2>1. PICK n \in DOMAIN l : l[n].key = k /\ \E j \in DOMAIN l[n].ips : l[n].ips[j] = ip
      BY <1>4 DEF SeenIn
    <2>2. n \in DOMAIN m /\ m[n].key = k
      BY <2>1 DEF Grown
    <2>3. \E j \in DOMAIN m[n].ips : m[n].ips[j] = ip
      <3>1. CASE n = i
        BY <1>2, <2>1, <3>1
      <3>2. CASE n # i
        BY <2>1, <3>2 DEF Grown
      <3> QED
        BY <3>1, <3>2
    <2> QED
      BY <2>2, <2>3 DEF SeenIn
  <1> QED
    BY <1>3, <1>4

\* A step of one thread that calls nothing new.
LEMMA FrameNoted ==
    ASSUME NotedInv, phase = "up", phase' = "up", life' = life, NEW s \in Threads,
           noted' \subseteq noted, renoted' = renoted,
           trouble["fp"] \subseteq trouble'["fp"],
           \A t \in Threads \ {s} : work'[t] = work[t],
           Serial("fp")' =>
              /\ NewIp(s)'
              /\ \/ list'["fp"] = list["fp"]
                 \/ \A t \in Threads \ {s} : ~Busy(t, "fp")
              /\ \A n \in noted' : SeenIn(list["fp"], <<n.fp, "upper">>, n.ip)
                                   => SeenIn(list'["fp"], <<n.fp, "upper">>, n.ip)
    PROVE  NotedInv'
  <1>1. \A n \in noted' : n.life <= life /\ (phase' = "reading" => n.life < life)
    BY DEF NotedInv
  <1>2. ASSUME Serial("fp")'
        PROVE  /\ \A n \in noted' : n.life = life =>
                     SeenIn(list'["fp"], <<n.fp, "upper">>, n.ip)
               /\ \A t \in Threads : NewIp(t)'
               /\ \A r \in renoted : r.first # r.again
    <2>1. Serial("fp")
      BY <1>2 DEF Serial
    <2>2. \A t \in Threads \ {s} : NewIp(t)'
      <3> SUFFICES ASSUME NEW t \in Threads \ {s}, Busy(t, "fp")'
                   PROVE  NewIp(t)'
        BY DEF NewIp
      <3>1. work'[t] = work[t] /\ Busy(t, "fp") /\ list'["fp"] = list["fp"]
        BY <1>2 DEF Busy
      <3>2. NewIp(t)
        BY <2>1 DEF NotedInv
      <3> QED
        BY <3>1, <3>2 DEF NewIp
    <2>3. \A n \in noted' : n.life = life => SeenIn(list["fp"], <<n.fp, "upper">>, n.ip)
      BY <2>1 DEF NotedInv
    <2> QED
      BY <1>2, <2>1, <2>2, <2>3 DEF NotedInv
  <1> QED
    BY <1>1, <1>2 DEF NotedInv

LEMMA InitNoted == Init => NotedInv
  <1> SUFFICES ASSUME Init PROVE NotedInv
    OBVIOUS
  <1>1. noted = {} /\ renoted = {} /\ \A s \in Threads : ~Busy(s, "fp")
    BY DEF Init, Busy, Changing, Idle
  <1> QED
    BY <1>1 DEF NotedInv, NewIp

\* The hypotheses of a thread step about the other threads on fp.
LEMMA AloneOnFp ==
    ASSUME KeptInv, NEW s \in Threads, Busy(s, "fp"), Serial("fp")',
           trouble["fp"] \subseteq trouble'["fp"],
           \A t \in Threads \ {s} : work'[t] = work[t]
    PROVE  /\ Serial("fp") /\ Unique(list["fp"]) /\ Ordered(s, "fp")
           /\ \A t \in Threads \ {s} : ~Busy(t, "fp") /\ ~Busy(t, "fp")'
  <1>1. "fp" \in Lists /\ SerialOn("fp")
    BY DEF KeptInv, Kept, Lists
  <1> QED
    BY <1>1, Alone

LEMMA AddNoted ==
    ASSUME Cases \subseteq {"upper"}, TypeOK, EverInv, KeptInv, NotedInv, NEW s \in Threads,
           BeginAdd(s) \/ Insert(s)
    PROVE  NotedInv'
  <1>t. /\ work \in [Threads -> Work] /\ list \in [Lists -> Seq(Entries)]
        /\ trouble \in [Lists -> SUBSET Trouble] /\ "fp" \in Lists
    BY DEF TypeOK, Work, Lists
  <1>1. CASE BeginAdd(s)
    <2>1. /\ phase = "up" /\ UNCHANGED <<list, phase, life, noted, renoted>>
          /\ work[s].at = "idle"
      BY <1>1 DEF BeginAdd, Begins, At, process
    <2>2. /\ \A t \in Threads \ {s} : work'[t] = work[t]
          /\ work'[s] = work[s] \/ work'[s].of = "add"
          /\ trouble["fp"] \subseteq trouble'["fp"]
      <3>1. PICK w, k :
               /\ w \in Lists
               /\ \/ UNCHANGED <<work, trouble>>
                  \/ /\ work' = [work EXCEPT ![s] = [Idle EXCEPT !.at = "insert", !.list = w,
                                                                !.key = k, !.of = "add"]]
                     /\ Overlap(s, w)
        BY <1>1 DEF BeginAdd
      <3>2. CASE UNCHANGED <<work, trouble>>
        BY <3>2
      <3>3. CASE /\ work' = [work EXCEPT ![s] = [Idle EXCEPT !.at = "insert", !.list = w,
                                                            !.key = k, !.of = "add"]]
                 /\ Overlap(s, w)
        <4>1. trouble["fp"] \subseteq trouble'["fp"]
          BY <1>t, <3>1, <3>3 DEF Overlap
        <4> QED
          BY <1>t, <3>3, <4>1 DEF Idle
      <3> QED
        BY <3>1, <3>2, <3>3
    <2>3. NewIp(s)'
      BY <2>1, <2>2 DEF NewIp, Busy, Changing
    <2> QED
      BY <2>1, <2>2, <2>3, FrameNoted
  <1>2. CASE Insert(s)
    <2>w. PICK w \in Lists : w = work[s].list
      BY DEF TypeOK
    <2>1. /\ phase = "up" /\ UNCHANGED <<phase, life, noted, renoted, trouble>>
          /\ work[s].at = "insert" /\ Goto(s, "save")
      BY <1>2 DEF Insert, At, process
    <2>2. work[s].of = "add" /\ Stored(w, work[s].key) \in AnyKey
      BY <1>t, <2>1, <2>w, KeyTypes DEF EverInv, Fits, Work
    <2>3. /\ work'[s].of = "add"
          /\ \A t \in Threads \ {s} : work'[t] = work[t]
      BY <2>1, <2>2, GotoFacts
    <2>4. NewIp(s)'
      BY <2>3 DEF NewIp
    <2>5. PICK e \in Entries : \/ list' = [list EXCEPT ![w] = Append(@, e)]
                              \/ list' = list
      <3>1. Entry(Stored(w, work[s].key), <<>>) \in Entries
        BY <2>2, KeyTypes
      <3> QED
        BY <1>2, <2>w, <3>1 DEF Insert
    <2>6. \A k, ip : SeenIn(list["fp"], k, ip) => SeenIn(list'["fp"], k, ip)
      <3>1. list'["fp"] = list["fp"] \/ list'["fp"] = Append(list["fp"], e)
        BY <1>t, <2>5
      <3>2. PICK l \in Seq(Entries) : l = list["fp"]
        BY <1>t
      <3>3. \A k, ip : SeenIn(l, k, ip) => SeenIn(Append(l, e), k, ip)
        BY SeenAppend
      <3> QED
        BY <3>1, <3>2, <3>3
    <2>7. Serial("fp")' => \/ list'["fp"] = list["fp"]
                           \/ \A t \in Threads \ {s} : ~Busy(t, "fp")
      <3>1. CASE w = "fp"
        <4>1. Busy(s, "fp")
          BY <2>1, <2>w, <3>1 DEF Busy, Changing
        <4> QED
          BY <2>1, <2>3, <4>1, AloneOnFp
      <3>2. CASE w # "fp"
        BY <1>t, <2>5, <3>2
      <3> QED
        BY <3>1, <3>2
    <2> QED
      BY <2>1, <2>3, <2>4, <2>6, <2>7, FrameNoted
  <1> QED
    BY <1>1, <1>2

LEMMA DelNoted ==
    ASSUME Cases \subseteq {"upper"}, TypeOK, EverInv, KeptInv, NotedInv, NEW s \in Threads,
           BeginDel(s)
    PROVE  NotedInv'
  <1>t. /\ work \in [Threads -> Work] /\ list \in [Lists -> Seq(Entries)]
        /\ "fp" \in Lists
    BY DEF TypeOK, Work, Lists
  <1>1. phase = "up" /\ work[s].at = "idle" /\ UNCHANGED <<phase, life, renoted>>
    BY DEF BeginDel, Begins, At, process
  <1>2. PICK w \in Lists : \E k \in Typed(w) :
        /\ list' = [list EXCEPT ![w] = IF Has(w, k) THEN RemoveAt(@, First(@, k)) ELSE @]
        /\ work' = [work EXCEPT ![s] = [Idle EXCEPT !.at = "save", !.list = w,
                                                    !.key = k, !.of = "del"]]
        /\ noted' = {n \in noted : w = "ip" \/ n.fp # k[1]}
        /\ Overlap(s, w)
    BY DEF BeginDel
  <1>3. PICK k \in Typed(w) :
        /\ list' = [list EXCEPT ![w] = IF Has(w, k) THEN RemoveAt(@, First(@, k)) ELSE @]
        /\ work' = [work EXCEPT ![s] = [Idle EXCEPT !.at = "save", !.list = w,
                                                    !.key = k, !.of = "del"]]
        /\ noted' = {n \in noted : w = "ip" \/ n.fp # k[1]}
        /\ Overlap(s, w)
    BY <1>2
  <1>4. /\ work'[s].of = "del" /\ noted' \subseteq noted
        /\ \A t \in Threads \ {s} : work'[t] = work[t]
    BY <1>t, <1>3 DEF Idle
  <1>5. trouble["fp"] \subseteq trouble'["fp"]
    BY <1>3 DEF Overlap, TypeOK, Lists
  <1>6. NewIp(s)'
    BY <1>4 DEF NewIp
  <1>7. CASE w = "fp"
    <2>1. Serial("fp")' => \A t \in Threads \ {s} : ~Busy(t, "fp")
      <3>1. SerialOn("fp") /\ Overlap(s, "fp")
        BY <1>t, <1>3, <1>7 DEF KeptInv, Kept
      <3> QED
        BY <1>t, <1>4, <3>1, BeginsAlone
    <2>2. ASSUME NEW n \in noted', SeenIn(list["fp"], <<n.fp, "upper">>, n.ip)
          PROVE  SeenIn(list'["fp"], <<n.fp, "upper">>, n.ip)
      <3>1. <<n.fp, "upper">> # k
        <4>1. n.fp # k[1]
          BY <1>3, <1>7
        <4>2. <<n.fp, "upper">>[1] = n.fp
          OBVIOUS
        <4> QED
          BY <4>1, <4>2, Zenon
      <3>2. CASE Has("fp", k)
        <4>1. list'["fp"] = RemoveAt(list["fp"], First(list["fp"], k))
          BY <1>t, <1>3, <1>7, <3>2
        <4>2. /\ list["fp"] \in Seq(Entries) /\ First(list["fp"], k) \in 1 .. Len(list["fp"])
              /\ list["fp"][First(list["fp"], k)].key = k
          BY <1>t, <3>2, FirstFacts DEF Has
        <4> QED
          BY <2>2, <3>1, <4>1, <4>2, SeenRemove
      <3>3. CASE ~Has("fp", k)
        <4>1. list'["fp"] = list["fp"]
          BY <1>t, <1>3, <1>7, <3>3
        <4> QED
          BY <2>2, <4>1
      <3> QED
        BY <3>2, <3>3
    <2> QED
      BY <1>1, <1>4, <1>5, <1>6, <2>1, <2>2, FrameNoted
  <1>8. CASE w # "fp"
    <2>1. list'["fp"] = list["fp"]
      BY <1>t, <1>3, <1>8
    <2> QED
      BY <1>1, <1>4, <1>5, <1>6, <2>1, FrameNoted
  <1> QED
    BY <1>7, <1>8

\* CheckIp returns 1, or a command is answered.
LEMMA AnswerNoted ==
    ASSUME TypeOK, EverInv, KeptInv, NotedInv, NEW s \in Threads, phase = "up",
           work[s].at \in {"truncate", "write"}, AfterWrite(s),
           UNCHANGED <<list, phase, life>>, trouble["fp"] \subseteq trouble'["fp"]
    PROVE  NotedInv'
  <1>1. \A t \in Threads \ {s} : work'[t] = work[t]
    BY AfterWriteFacts
  <1>2. NewIp(s)'
    BY AfterWriteFacts DEF NewIp, Busy, Changing, Idle
  <1>3. CASE UNCHANGED <<noted, renoted>>
    BY <1>1, <1>2, <1>3, FrameNoted
  <1> DEFINE n == [fp |-> work[s].key[1], ip |-> work[s].ip, life |-> life]
  <1>4. CASE /\ work[s].of = "check" /\ noted' = noted \cup {n}
             /\ renoted' = renoted \cup {[first |-> m.life, again |-> life] :
                                            m \in {m \in noted : m.fp = n.fp /\ m.ip = n.ip}}
    <2>1. work[s].list = "fp" /\ work[s].key \in Fps \X {"upper"}
      BY <1>4 DEF EverInv, Fits
    <2>2. Busy(s, "fp") /\ work[s].at \in Saving
      BY <2>1 DEF Busy, Changing, Saving
    <2>3. /\ n.life = life /\ life \in Nat /\ n.fp = work[s].key[1] /\ n.ip = work[s].ip
          /\ noted \subseteq [fp : Names, ip : AnyIp, life : Nat]
      BY DEF TypeOK
    <2>4. \A m \in noted' : m.life <= life /\ (phase' = "reading" => m.life < life)
      BY <1>4, <2>3 DEF NotedInv
    <2>5. ASSUME Serial("fp")'
          PROVE  /\ \A m \in noted' : m.life = life =>
                        SeenIn(list["fp"], <<m.fp, "upper">>, m.ip)
                 /\ \A t \in Threads : NewIp(t)'
                 /\ \A r \in renoted' : r.first # r.again
      <3>1. /\ Serial("fp")
            /\ \A t \in Threads \ {s} : ~Busy(t, "fp")'
        BY <1>1, <2>2, <2>5, AloneOnFp
      <3>2. NewIp(s)
        BY <3>1 DEF NotedInv
      <3>3. n \notin noted /\ SeenIn(list["fp"], work[s].key, work[s].ip)
        BY <1>4, <2>2, <3>2 DEF NewIp
      <3>4. <<n.fp, "upper">> = work[s].key
        BY <2>1
      <3> HIDE DEF n
      <3>5. \A m \in noted' : m.life = life => SeenIn(list["fp"], <<m.fp, "upper">>, m.ip)
        <4>1. SeenIn(list["fp"], <<n.fp, "upper">>, n.ip)
          BY <2>3, <3>3, <3>4
        <4>2. \A m \in noted : m.life = life => SeenIn(list["fp"], <<m.fp, "upper">>, m.ip)
          BY <3>1 DEF NotedInv
        <4> QED
          BY <1>4, <4>1, <4>2
      <3>6. \A t \in Threads : NewIp(t)'
        BY <1>2, <3>1 DEF NewIp
      <3>7. \A m \in noted : m.fp = n.fp /\ m.ip = n.ip => m.life # life
        <4> SUFFICES ASSUME NEW m \in noted, m.fp = n.fp, m.ip = n.ip, m.life = life
                     PROVE  FALSE
          OBVIOUS
        <4>1. m = [fp |-> m.fp, ip |-> m.ip, life |-> m.life]
          BY <2>3
        <4>2. m = n
          BY <2>3, <4>1 DEF n
        <4> QED
          BY <3>3, <4>2
      <3>8. \A r \in renoted' : r.first # r.again
        <4>1. \A r \in renoted : r.first # r.again
          BY <3>1 DEF NotedInv
        <4> QED
          BY <1>4, <3>7, <4>1
      <3> QED
        BY <3>5, <3>6, <3>8
    <2> QED
      BY <2>4, <2>5 DEF NotedInv
  <1>5. work[s].of = "check" => Stored(work[s].list, work[s].key) = work[s].key
    <2>1. work[s].of = "check" => work[s].list = "fp" /\ work[s].key \in Fps \X {"upper"}
      BY DEF EverInv, Fits
    <2> QED
      BY <2>1 DEF Stored, Upper
  <1> QED
    BY <1>3, <1>4, <1>5 DEF AfterWrite

LEMMA SaveNoted ==
    ASSUME TypeOK, EverInv, KeptInv, NotedInv, NEW s \in Threads,
           Save(s) \/ Truncate(s) \/ WriteFile(s)
    PROVE  NotedInv'
  <1>t. /\ work \in [Threads -> Work] /\ trouble \in [Lists -> SUBSET Trouble]
        /\ "fp" \in Lists /\ work[s].list \in Lists
    BY DEF TypeOK, Work, Lists
  <1>1. ASSUME phase = "up", UNCHANGED <<list, phase, life, noted, renoted, trouble>>,
               work[s].at \in Saving, work'[s].at \in Saving,
               work'[s].list = work[s].list, work'[s].key = work[s].key,
               work'[s].ip = work[s].ip, work'[s].of = work[s].of,
               \A t \in Threads \ {s} : work'[t] = work[t]
        PROVE  NotedInv'
    <2>1. Serial("fp")' => NewIp(s)
      BY <1>1 DEF NotedInv, Serial
    <2>2. Busy(s, "fp")' <=> Busy(s, "fp")
      BY <1>1 DEF Busy, Changing, Saving
    <2>3. Serial("fp")' => NewIp(s)'
      BY <1>1, <2>1, <2>2 DEF NewIp, Saving
    <2> QED
      BY <1>1, <2>3, FrameNoted
  <1>2. CASE Save(s)
    <2>1. /\ phase = "up" /\ UNCHANGED <<list, phase, life, noted, renoted, trouble>>
          /\ work[s].at = "save"
          /\ work' = [work EXCEPT ![s].at = "truncate", ![s].data = list[work[s].list]]
      BY <1>2 DEF Save, At, process, history
    <2>2. /\ work'[s].at = "truncate" /\ work'[s].list = work[s].list
          /\ work'[s].key = work[s].key /\ work'[s].ip = work[s].ip
          /\ work'[s].of = work[s].of
          /\ \A t \in Threads \ {s} : work'[t] = work[t]
      BY <1>t, <2>1 DEF Work
    <2> QED
      BY <1>1, <2>1, <2>2 DEF Saving
  <1>3. CASE Truncate(s)
    <2>1. /\ phase = "up" /\ work[s].at = "truncate" /\ UNCHANGED <<list, phase, life>>
          /\ \/ Goto(s, "write") /\ UNCHANGED <<noted, renoted, trouble>>
             \/ /\ trouble' = [trouble EXCEPT ![work[s].list] = @ \cup {"failed"}]
                /\ AfterWrite(s)
      BY <1>3 DEF Truncate, At, process
    <2>2. CASE Goto(s, "write") /\ UNCHANGED <<noted, renoted, trouble>>
      BY <1>1, <2>1, <2>2, GotoFacts DEF Saving
    <2>3. CASE /\ trouble' = [trouble EXCEPT ![work[s].list] = @ \cup {"failed"}]
               /\ AfterWrite(s)
      <3>1. trouble["fp"] \subseteq trouble'["fp"]
        BY <1>t, <2>3
      <3> QED
        BY <2>1, <2>3, <3>1, AnswerNoted
    <2> QED
      BY <2>1, <2>2, <2>3
  <1>4. CASE WriteFile(s)
    <2>1. /\ phase = "up" /\ work[s].at = "write" /\ UNCHANGED <<list, phase, life, trouble>>
          /\ AfterWrite(s)
      BY <1>4 DEF WriteFile, At, process
    <2> QED
      BY <2>1, AnswerNoted
  <1> QED
    BY <1>2, <1>3, <1>4

LEMMA BeginCheckNoted ==
    ASSUME TypeOK, EverInv, KeptInv, NotedInv, NEW s \in Threads, BeginCheck(s)
    PROVE  NotedInv'
  <1>t. /\ work \in [Threads -> Work] /\ list \in [Lists -> Seq(Entries)] /\ "fp" \in Lists
    BY DEF TypeOK, Work, Lists
  <1>1. /\ phase = "up" /\ UNCHANGED <<list, phase, life, noted, renoted>>
        /\ work[s].at = "idle"
    BY DEF BeginCheck, Begins, At, process
  <1>2. PICK f \in Fps, ip \in Ips :
        LET k == <<f, "upper">>
            check == [Idle EXCEPT !.key = k, !.ip = ip, !.of = "check"]
            i == First(list["fp"], k)
        IN  IF Has("fp", k) /\ ~Contains(list["fp"][i].ips, ip)
            THEN /\ work' = [work EXCEPT ![s] = [check EXCEPT !.at = "note", !.pos = i]]
                 /\ Overlap(s, "fp")
            ELSE /\ work' = [work EXCEPT ![s] = [check EXCEPT !.at = "lookfp"]]
                 /\ UNCHANGED trouble
    BY DEF BeginCheck
  <1> DEFINE k == <<f, "upper">>
             i == First(list["fp"], k)
  <1>3. CASE Has("fp", k) /\ ~Contains(list["fp"][i].ips, ip)
    <2>1. /\ work'[s].at = "note" /\ work'[s].list = "fp" /\ work'[s].key = k
          /\ work'[s].ip = ip /\ work'[s].pos = i
          /\ \A t \in Threads \ {s} : work'[t] = work[t]
      BY <1>t, <1>2, <1>3 DEF Idle
    <2>2. Overlap(s, "fp")
      BY <1>2, <1>3
    <2>3. trouble["fp"] \subseteq trouble'["fp"]
      BY <1>t, <2>2 DEF Overlap, TypeOK
    <2>4. list["fp"] \in Seq(Entries) /\ i \in DOMAIN list["fp"] /\ list["fp"][i].key = k
      <3>1. PICK l \in Seq(Entries) : l = list["fp"]
        BY <1>t
      <3>2. k \in Keys(l)
        BY <1>3, <3>1 DEF Has
      <3>3. First(l, k) \in 1 .. Len(l) /\ l[First(l, k)].key = k
        BY <3>2, FirstFacts
      <3>4. DOMAIN l = 1 .. Len(l)
        OBVIOUS
      <3> QED
        BY <3>1, <3>3, <3>4
    <2>5. Serial("fp")' => Serial("fp") /\ Unique(list["fp"])
      <3>1. SerialOn("fp")
        BY <1>t DEF KeptInv, Kept
      <3> QED
        BY <1>t, <2>1, <2>2, <3>1, BeginsAlone
    <2>6. list["fp"][i].ips \in Seq(AnyIp)
      <3>1. list["fp"][i] \in Entries
        BY <2>4
      <3> QED
        BY <3>1 DEF Entries
    <2>7. \A j \in DOMAIN list["fp"][i].ips : list["fp"][i].ips[j] # ip
      BY <1>3, <2>6 DEF Contains
    <2>8. Unique(list["fp"]) => ~SeenIn(list["fp"], k, ip)
      <3> HIDE DEF i, k
      <3> QED
        BY <2>4, <2>7 DEF Unique, SeenIn
    <2>9. Serial("fp")' => [fp |-> f, ip |-> ip, life |-> life] \notin noted
      <3> SUFFICES ASSUME Serial("fp")', [fp |-> f, ip |-> ip, life |-> life] \in noted
                   PROVE  FALSE
        OBVIOUS
      <3> DEFINE n == [fp |-> f, ip |-> ip, life |-> life]
      <3>1. n \in noted /\ n.life = life /\ n.fp = f /\ n.ip = ip
        OBVIOUS
      <3> HIDE DEF n
      <3>2. SeenIn(list["fp"], <<n.fp, "upper">>, n.ip)
        BY <1>1, <2>5, <3>1 DEF NotedInv
      <3> QED
        BY <2>5, <2>8, <3>1, <3>2
    <2>10. Serial("fp")' => NewIp(s)'
      <3>1. work'[s].key[1] = f
        BY <2>1
      <3> HIDE DEF i, k
      <3> QED
        BY <1>1, <2>1, <2>4, <2>9, <3>1 DEF NewIp, Saving
    <2> QED
      BY <1>1, <2>1, <2>3, <2>10, FrameNoted
  <1>4. CASE ~(Has("fp", k) /\ ~Contains(list["fp"][i].ips, ip))
    <2>1. /\ work'[s].at = "lookfp" /\ UNCHANGED trouble
          /\ \A t \in Threads \ {s} : work'[t] = work[t]
      BY <1>t, <1>2, <1>4 DEF Idle
    <2>2. NewIp(s)'
      BY <2>1 DEF NewIp, Busy, Changing
    <2> QED
      BY <1>1, <2>1, <2>2, FrameNoted
  <1> QED
    BY <1>3, <1>4

LEMMA CheckIpNoted ==
    ASSUME TypeOK, EverInv, KeptInv, NotedInv, NEW s \in Threads, CheckIp(s)
    PROVE  NotedInv'
  <1>t. /\ list \in [Lists -> Seq(Entries)] /\ work[s].ip \in AnyIp /\ "fp" \in Lists
    BY DEF TypeOK, Lists
  <1>1. /\ phase = "up" /\ work[s].at = "note" /\ Goto(s, "save")
        /\ UNCHANGED <<phase, life, noted, renoted, trouble>>
    BY DEF CheckIp, At, process, history
  <1>2. work[s].of = "check" /\ work[s].list = "fp"
    BY <1>1 DEF EverInv, Fits
  <1>3. /\ work'[s].at = "save" /\ work'[s].of = "check"
        /\ work'[s].key = work[s].key /\ work'[s].ip = work[s].ip
        /\ \A t \in Threads \ {s} : work'[t] = work[t]
    BY <1>1, <1>2, GotoFacts
  <1>b. Busy(s, "fp")
    BY <1>1, <1>2 DEF Busy, Changing
  <1>4. \/ list'["fp"] = list["fp"] /\ work[s].pos \notin DOMAIN list["fp"]
        \/ Grown(list["fp"], list'["fp"], work[s].pos, work[s].ip)
    BY <1>t, CheckIpFacts
  <1>5. \/ list'["fp"] = list["fp"] /\ work[s].pos \notin DOMAIN list["fp"]
        \/ SeenIn(list'["fp"], list["fp"][work[s].pos].key, work[s].ip)
    BY <1>t, <1>4, SeenGrown
  <1>9. \A k, p : SeenIn(list["fp"], k, p) => SeenIn(list'["fp"], k, p)
    <2>1. CASE list'["fp"] = list["fp"]
      BY <2>1
    <2>2. CASE Grown(list["fp"], list'["fp"], work[s].pos, work[s].ip)
      BY <1>t, <2>2, SeenGrown
    <2> QED
      BY <1>4, <2>1, <2>2
  <1>10. Serial("fp")' => \A t \in Threads \ {s} : ~Busy(t, "fp")
    BY <1>1, <1>3, <1>b, AloneOnFp
  <1>11. Serial("fp")' => NewIp(s)'
    <2> SUFFICES ASSUME Serial("fp")' PROVE NewIp(s)'
      OBVIOUS
    <2>1. NewIp(s)
      BY <1>1 DEF NotedInv, Serial
    <2>2. /\ work[s].pos \in DOMAIN list["fp"]
          /\ list["fp"][work[s].pos].key = work[s].key
      BY <1>1, <1>2, <1>b, <2>1 DEF NewIp
    <2>3. SeenIn(list'["fp"], work[s].key, work[s].ip)
      BY <1>5, <2>2
    <2> QED
      BY <1>1, <1>2, <1>3, <1>b, <2>1, <2>3 DEF NewIp
  <1> QED
    BY <1>1, <1>3, <1>9, <1>10, <1>11, FrameNoted

LEMMA LooksNoted ==
    ASSUME TypeOK, NotedInv, NEW s \in Threads, LookFp(s) \/ LookIp(s) \/ EndCheck(s)
    PROVE  NotedInv'
  <1>1. phase = "up" /\ UNCHANGED <<list, phase, life, noted, renoted, trouble>>
    BY DEF LookFp, LookIp, EndCheck, At, process, history
  <1>2. /\ \A t \in Threads \ {s} : work'[t] = work[t]
        /\ work'[s].at \in {"allowed", "lookip", "idle"}
    <2>1. \/ Goto(s, "allowed") \/ Goto(s, "lookip") \/ Done(s)
      BY DEF LookFp, LookIp, EndCheck
    <2> QED
      BY <2>1, GotoFacts, DoneFacts DEF Idle
  <1>3. NewIp(s)'
    BY <1>2 DEF NewIp, Busy, Changing
  <1> QED
    BY <1>1, <1>2, <1>3, FrameNoted

\* While the program is not serving nobody is checked.
LEMMA ProcessNoted ==
    ASSUME TypeOK, EverInv, NotedInv, (\E w \in Lists : ReadLine(w)) \/ Crash \/ Start \/ Serve
    PROVE  NotedInv'
  <1>t. noted \subseteq [fp : Names, ip : AnyIp, life : Nat] /\ life \in Nat /\ "fp" \in Lists
    BY DEF TypeOK, Lists
  <1>1. UNCHANGED <<noted, renoted>> /\ trouble["fp"] \subseteq trouble'["fp"]
    <2>1. CASE Crash
      BY <1>t, <2>1 DEF Crash
    <2>2. CASE (\E w \in Lists : ReadLine(w)) \/ Start \/ Serve
      BY <2>2 DEF ReadLine, Start, Serve, history
    <2> QED
      BY <2>1, <2>2
  <1>2. \A s \in Threads : NewIp(s)'
    <2>1. \A s \in Threads : work'[s].at = "idle"
      <3>1. CASE Crash
        BY <3>1 DEF Crash, Idle
      <3>2. CASE (\E w \in Lists : ReadLine(w)) \/ Start \/ Serve
        BY <3>2 DEF ReadLine, Start, Serve, EverInv, Fits
      <3> QED
        BY <3>1, <3>2
    <2> QED
      BY <2>1 DEF NewIp, Busy, Changing
  <1>3. Serial("fp")' => \A r \in renoted' : r.first # r.again
    BY <1>1 DEF NotedInv, Serial
  <1>4. \A n \in noted : n.life \in Nat /\ n.life <= life /\ (phase = "reading" => n.life < life)
    BY <1>t DEF NotedInv
  <1>5. \A n \in noted : /\ n.life <= life' /\ (phase' = "reading" => n.life < life')
                         /\ (phase' = "up" => n.life # life')
    <2>1. CASE phase' = "down" /\ life' = life
      BY <1>4, <2>1
    <2>2. CASE phase = "reading" /\ life' = life
      BY <1>t, <1>4, <2>2
    <2>3. CASE phase' = "reading" /\ life' = life + 1
      BY <1>t, <1>4, <2>3
    <2> QED
      BY <2>1, <2>2, <2>3 DEF ReadLine, Crash, Start, Serve
  <1> QED
    BY <1>1, <1>2, <1>3, <1>5 DEF NotedInv

LEMMA StepNoted ==
    ASSUME Cases \subseteq {"upper"}, TypeOK, EverInv, KeptInv, NotedInv, [Next]_vars
    PROVE  NotedInv'
  <1>1. ASSUME NEW s \in Threads, Step(s)
        PROVE  NotedInv'
    BY <1>1, AddNoted, DelNoted, SaveNoted, BeginCheckNoted, CheckIpNoted, LooksNoted DEF Step
  <1>2. CASE UNCHANGED vars
    <2>1. UNCHANGED <<list, work, phase, life, trouble, noted, renoted>>
      BY <1>2 DEF vars, process, history
    <2>2. \A s \in Threads : NewIp(s) <=> NewIp(s)'
      BY <2>1 DEF NewIp, Busy
    <2> QED
      BY <2>1, <2>2 DEF NotedInv, Serial
  <1> QED
    BY <1>1, <1>2, ProcessNoted DEF Next

\* When admins type fingerprints in capitals, one run of the program reports a
\* new ip of a fingerprint once, as long as no two threads change the list at
\* the same time.
THEOREM NoticeOnceARun == ASSUME Cases \subseteq {"upper"} PROVE Spec => []NoticeOncePerRun
  <1>1. TypeOK /\ EverInv /\ [Next]_vars => EverInv'
    BY StepEver
  <1>2. TypeOK /\ EverInv /\ KeptInv /\ NotedInv /\ [Next]_vars => NotedInv'
    BY StepNoted
  <1>3. NotedInv => NoticeOncePerRun
    BY DEF NotedInv, Serial, NoticeOncePerRun
  <1> QED
    BY <1>1, <1>2, <1>3, InitEver, InitNoted, KeptAlways, TypeCorrect, PTL DEF Spec
=============================================================================
