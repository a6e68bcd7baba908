------------------------ MODULE TelegramDaemon_proofs ------------------------
(***************************************************************************)
(* What becomes of the messages of the paired chat, for every number of    *)
(* TUIs and daemons, every chat and every interleaving of their steps with *)
(* deaths of daemons and TUIs: none vanishes once it is marked, and while  *)
(* no two daemons serve at once none is delivered twice.                   *)
(*                                                                         *)
(* While one daemon serves, a message is in one place at a time: in the    *)
(* hands of the poll loop, in one channel, or in one row that waits or     *)
(* that a handler has read and not yet pushed (OnceInv).                   *)
(***************************************************************************)
EXTENDS TelegramDaemon, SequenceTheorems, FiniteSetTheorems, TLAPS

\* A daemon's fields fit its phase, and a handler's channel its step.
DaemonOK(c) ==
    /\ c.phase \notin {"serving", "closing"} =>
          c.poll = "check" /\ \A t \in Tuis : c.hand[t] = "none"
    /\ c.poll # "check" => c.next <= c.last
    /\ c.poll = "lookup" => c.to # Nobody
    /\ c.target # Nobody => c.address[c.target] # Nobody
    /\ \A t \in Tuis :
          /\ c.hand[t] \in {"none", "new"} <=> c.address[t] = Nobody
          /\ c.address[t] = Nobody => c.outbound[t] = <<>>
          /\ c.hand[t] = "flushing" <=> c.flush[t] # <<>>
    /\ \A s, t \in Tuis : c.address[s] = c.address[t] /\ c.address[s] # Nobody => s = t

\* Types, and how TUIs, the socket and daemons refer to each other.
TypeInv ==
    /\ TypeOK
    /\ \A d \in Daemons : DaemonOK(daemons[d])
    /\ Listening => daemons[socket.by].phase = "serving"
    /\ \A t \in Tuis :
          /\ tuis[t].at # Nobody => tuis[t].state \in {"waiting", "connected"}
          /\ \A d \in Daemons : daemons[d].hand[t] # "none" =>
                                   tuis[t].at = d \/ tuis[t].state = "gone"

SingleInv ==
    ~history.twins => \A d, e \in Daemons : Runs(d) /\ Runs(e) => d = e

\* A message on its way, by database k and history h: taken by a poll loop, put
\* in a channel, or read from a row that addresses it to a.
Unrouted(u, k, h) == u \in k.seen /\ h.got[u] = 0 /\ k.rows[u].status = "none"
Pushed(u, k, h) == u \in k.seen /\ h.got[u] = 0 /\ k.rows[u].status \in {"none", "delivered"}
Unpushed(u, a, k, h) ==
    h.got[u] = 0 /\ k.rows[u].status \in {"pending", "cancelled"} /\ k.rows[u].to = a

\* Steps of the poll loop with a message that is marked.
Routes == {"route", "lookup", "push", "queue"}

\* Daemon c holds a message in one place.
HeldOnce(c, k, h) ==
    /\ c.poll = "mark" => c.next \notin k.seen
    /\ c.poll \in Routes =>
          Unrouted(c.next, k, h) /\ \A t \in Tuis : c.next \notin Range(c.outbound[t])
    /\ \A t \in Tuis :
          /\ \A u \in Range(c.outbound[t]) : Pushed(u, k, h)
          /\ \A u \in Range(c.flush[t]) : Unpushed(u, c.address[t], k, h)
          /\ IsInjective(c.outbound[t]) /\ IsInjective(c.flush[t])
    /\ \A s, t \in Tuis : s # t => Range(c.outbound[s]) \cap Range(c.outbound[t]) = {}

RowOK(u, k, h) ==
    /\ h.got[u] < 2
    /\ u \notin k.seen => h.got[u] = 0 /\ k.rows[u].status = "none"
    /\ k.rows[u].status = "pending" => h.got[u] = 0

OnceInv ==
    ~history.twins => /\ \A u \in Updates : RowOK(u, disk, history)
                      /\ \A d \in Daemons : HeldOnce(daemons[d], disk, history)

IInv == TypeInv /\ SingleInv /\ OnceInv /\ NothingVanishes

-----------------------------------------------------------------------------
(* The model's operators.                                                  *)

\* The number of smaller members tells the members of a set of numbers apart,
\* and takes every value below the set's size.
LEMMA Ranks ==
    ASSUME NEW us \in SUBSET Nat, IsFiniteSet(us)
    PROVE  /\ Cardinality(us) \in Nat
           /\ \A i \in 1..Cardinality(us) :
                 \E u \in us : Cardinality({v \in us : v < u}) = i - 1
  <1> DEFINE n == Cardinality(us)
             below(u) == {v \in us : v < u}
             rank == [u \in us |-> Cardinality(below(u))]
  <1>1. n \in Nat
    BY FS_CardinalityType
  <1>2. ASSUME NEW u \in us
        PROVE  IsFiniteSet(below(u)) /\ Cardinality(below(u)) \in 0..(n - 1)
    <2>1. below(u) \in SUBSET (us \ {u})
      OBVIOUS
    <2>2. IsFiniteSet(us \ {u}) /\ Cardinality(us \ {u}) = n - 1
      BY FS_RemoveElement
    <2>3. IsFiniteSet(below(u)) /\ Cardinality(below(u)) <= n - 1
      BY <2>1, <2>2, FS_Subset
    <2> QED
      BY <1>1, <2>3, FS_CardinalityType
  <1>3. ASSUME NEW u \in us, NEW w \in us, u < w
        PROVE  Cardinality(below(u)) # Cardinality(below(w))
    <2>1. \A v \in us : v < u => v < w
      BY <1>3
    <2>2. ~(u < u)
      OBVIOUS
    <2>3. below(u) \in SUBSET below(w) /\ u \in below(w) \ below(u)
      BY <1>3, <2>1, <2>2
    <2> QED
      BY <2>3, <1>2, FS_Subset
  <1>4. rank \in Injection(us, 0..(n - 1))
    <2>1. rank \in [us -> 0..(n - 1)]
      BY <1>2
    <2>2. ASSUME NEW u \in us, NEW w \in us, rank[u] = rank[w]
          PROVE  u = w
      <3>1. Cardinality(below(u)) = Cardinality(below(w))
        BY <2>2
      <3>2. u \in Nat /\ w \in Nat /\ (u < w \/ w < u \/ u = w)
        OBVIOUS
      <3> QED
        BY <3>1, <3>2, <1>3
    <2>3. DOMAIN rank = us
      OBVIOUS
    <2> HIDE DEF rank, n
    <2>4. IsInjective(rank)
      BY <2>2, <2>3 DEF IsInjective
    <2> QED
      BY <2>1, <2>4 DEF Injection
  <1>5. IsFiniteSet(0..(n - 1)) /\ Cardinality(0..(n - 1)) = n
    <2>1. n - 1 \in Int /\ 0 \in Int
      BY <1>1
    <2>2. /\ IsFiniteSet(0..(n - 1))
          /\ Cardinality(0..(n - 1)) = IF 0 > n - 1 THEN 0 ELSE n - 1 - 0 + 1
      BY <2>1, FS_Interval
    <2> HIDE DEF n
    <2> QED
      BY <1>1, <2>2
  <1>6. rank \in Surjection(us, 0..(n - 1))
    BY <1>4, <1>5, FS_Injection
  <1>7. ASSUME NEW i \in 1..n
        PROVE  \E u \in us : Cardinality(below(u)) = i - 1
    <2>1. i - 1 \in 0..(n - 1)
      BY <1>1
    <2>2. PICK u \in us : rank[u] = i - 1
      BY <2>1, <1>6 DEF Surjection
    <2> QED
      BY <2>2
  <1> QED
    BY <1>1, <1>7

\* InOrder lists members of the set, each at most once.
LEMMA Listed ==
    ASSUME NEW us \in SUBSET Nat, IsFiniteSet(us)
    PROVE  /\ InOrder(us) \in Seq(us) /\ Len(InOrder(us)) = Cardinality(us)
           /\ IsInjective(InOrder(us))
           /\ \A i \in 1..Cardinality(us) : InOrder(us)[i] \in us
  <1> DEFINE n == Cardinality(us)
             s == InOrder(us)
             rank(u) == Cardinality({v \in us : v < u})
  <1>1. n \in Nat
    BY Ranks
  <1>2. DOMAIN s = 1..n
    BY DEF InOrder
  <1>3. ASSUME NEW i \in 1..n
        PROVE  s[i] \in us /\ rank(s[i]) = i - 1
    <2>1. \E u \in us : rank(u) = i - 1
      BY Ranks
    <2>2. s[i] = CHOOSE u \in us : rank(u) = i - 1
      BY DEF InOrder
    <2> QED
      BY <2>1, <2>2
  <1>4. s = [i \in 1..n |-> s[i]]
    BY DEF InOrder
  <1>5. s \in [1..n -> us]
    BY <1>3, <1>4
  <1>6. s \in Seq(us) /\ Len(s) = n
    BY <1>1, <1>5, SeqDef, LenProperties
  <1>7. ASSUME NEW i \in 1..n, NEW j \in 1..n, s[i] = s[j]
        PROVE  i = j
    <2>1. i - 1 = j - 1
      BY <1>3, <1>7
    <2> QED
      BY <2>1, <1>1
  <1>8. IsInjective(s)
    BY <1>2, <1>7 DEF IsInjective
  <1> QED
    BY <1>3, <1>6, <1>8

LEMMA Bounds ==
    ASSUME TypeOK
    PROVE  /\ TuiCount \in Nat /\ Len(chat.sends) \in Nat /\ Cap \in Nat \ {0}
           /\ chat.sends \in Seq(Input)
           /\ Updates \subseteq Nat \ {0}
           /\ \A u \in Updates : chat.sends[u] \in Input
           /\ \A u \in 1..Len(chat.sends) : u \in Updates
  <1>1. PICK s \in Scenarios : chat.sends = s.sends
    BY DEF TypeOK
  <1>2. chat.sends \in Seq(Input)
    BY <1>1, ScenariosAssumption
  <1>3. Len(chat.sends) \in Nat /\ \A u \in 1..Len(chat.sends) : chat.sends[u] \in Input
    BY <1>2
  <1> QED
    BY <1>2, <1>3, CountAssumption, CapAssumption DEF Updates

\* There is an address for a TUI that has none, and nobody has it.
LEMMA AddressFree ==
    ASSUME TypeOK, NEW d \in Daemons, NEW t \in Tuis, daemons[d].address[t] = Nobody
    PROVE  /\ FreeAddress(d) \in Addresses
           /\ \A s \in Tuis : daemons[d].address[s] # FreeAddress(d)
  <1> DEFINE adr == daemons[d].address
             Free == {a \in Addresses : \A s \in Tuis : adr[s] # a}
             least(a) == /\ \A s \in Tuis : adr[s] # a
                         /\ \A b \in 1..(a - 1) : \E s \in Tuis : adr[s] = b
  <1>1. TuiCount \in Nat /\ t \in 1..TuiCount /\ Nobody \notin Addresses
    BY Bounds DEF Tuis, Nobody, Addresses
  <1>2. ASSUME Free = {}
        PROVE  FALSE
    <2> DEFINE owner == [a \in Addresses |-> CHOOSE s \in Tuis : adr[s] = a]
    <2>1. ASSUME NEW a \in Addresses
          PROVE  owner[a] \in Tuis \ {t} /\ adr[owner[a]] = a
      <3>1. \E s \in Tuis : adr[s] = a
        BY <1>2
      <3> QED
        BY <3>1, <1>1
    <2>2. owner \in [Addresses -> Tuis \ {t}]
      BY <2>1
    <2>3. IsFiniteSet(Addresses) /\ Cardinality(Addresses) = TuiCount
      BY <1>1, FS_Interval DEF Addresses
    <2>4. IsFiniteSet(Tuis \ {t}) /\ Cardinality(Tuis \ {t}) = TuiCount - 1
      BY <1>1, <2>3, FS_RemoveElement DEF Addresses, Tuis
    <2>5. Cardinality(Tuis \ {t}) < Cardinality(Addresses)
      BY <1>1, <2>3, <2>4
    <2> HIDE DEF owner
    <2>6. PICK a, b \in Addresses : a # b /\ owner[a] = owner[b]
      BY <2>2, <2>3, <2>4, <2>5, FS_PigeonHole
    <2> QED
      BY <2>1, <2>6
  <1>3. Free \subseteq Nat
    BY <1>1 DEF Addresses
  <1> DEFINE R == OpToRel(<, Nat)
  <1> HIDE DEF Free
  <1>4. PICK a \in Free : \A b \in Free : ~(<<b, a>> \in R)
    <2>1. IsWellFoundedOn(R, Nat)
      BY NatLessThanWellFounded
    <2> HIDE DEF R
    <2> QED
      BY <1>2, <1>3, <2>1, WFMin
  <1> USE DEF Free
  <1>5. a \in 1..TuiCount
    BY DEF Addresses
  <1>6. ASSUME NEW b \in 1..(a - 1)
        PROVE  \E s \in Tuis : adr[s] = b
    <2>1. b \in Addresses /\ b < a
      BY <1>1, <1>5 DEF Addresses
    <2> QED
      BY <1>3, <1>4, <2>1 DEF OpToRel
  <1>7. a \in Addresses /\ least(a)
    BY <1>6
  <1>8. FreeAddress(d) = CHOOSE b \in Addresses : least(b)
    BY DEF FreeAddress
  <1> HIDE DEF least
  <1>9. FreeAddress(d) \in Addresses /\ least(FreeAddress(d))
    BY <1>7, <1>8
  <1> QED
    BY <1>9 DEF least

\* What SelectInstance and ReadPending list.
LEMMA Selectable ==
    ASSUME TypeOK, NEW as \in SUBSET Addresses
    PROVE  \A n \in Addresses : n <= Cardinality(as) => InOrder(as)[n] \in Addresses
  <1>1. TuiCount \in Nat /\ Addresses \subseteq Nat
    BY Bounds DEF Addresses
  <1>2. IsFiniteSet(as)
    <2>1. IsFiniteSet(Addresses)
      BY <1>1, FS_Interval DEF Addresses
    <2> QED
      BY <2>1, FS_Subset
  <1>3. as \in SUBSET Nat /\ Cardinality(as) \in Nat
    BY <1>1, <1>2, FS_CardinalityType
  <1>4. \A n \in 1..Cardinality(as) : InOrder(as)[n] \in as
    BY <1>2, <1>3, Listed
  <1>5. ASSUME NEW n \in Addresses, n <= Cardinality(as)
        PROVE  InOrder(as)[n] \in Addresses
    <2>1. PICK k \in Nat : k = Cardinality(as)
      BY <1>3
    <2>2. n \in Nat /\ 1 <= n
      BY <1>1 DEF Addresses
    <2>3. n <= k
      BY <2>1, <1>5
    <2>4. n \in 1..k
      BY <2>2, <2>3
    <2> QED
      BY <1>4, <2>1, <2>4
  <1> QED
    BY <1>5

LEMMA Flushed ==
    ASSUME TypeOK, NEW us \in SUBSET Updates
    PROVE  /\ InOrder(us) \in Seq(Updates) /\ IsInjective(InOrder(us))
           /\ \A i \in DOMAIN InOrder(us) : InOrder(us)[i] \in us
           /\ InOrder(us) = <<>> <=> us = {}
  <1>1. Updates \subseteq Nat /\ IsFiniteSet(Updates)
    <2>1. Len(chat.sends) \in Int /\ Updates \subseteq Nat
      BY Bounds
    <2> QED
      BY <2>1, FS_Interval DEF Updates
  <1>2. IsFiniteSet(us) /\ us \in SUBSET Nat
    BY <1>1, FS_Subset
  <1>3. /\ InOrder(us) \in Seq(us) /\ Len(InOrder(us)) = Cardinality(us)
        /\ IsInjective(InOrder(us))
    BY <1>2, Listed
  <1>4. InOrder(us) \in Seq(Updates)
    BY <1>3
  <1>5. \A i \in DOMAIN InOrder(us) : InOrder(us)[i] \in us
    BY <1>3
  <1>6. Cardinality(us) = 0 <=> us = {}
    BY <1>2, FS_EmptySet
  <1> QED
    BY <1>3, <1>4, <1>5, <1>6, EmptySeq

LEMMA Queues ==
    ASSUME TypeOK, NEW s
    PROVE  s \in Queue <=> s \in Seq(Updates) /\ Len(s) <= Cap
  <1>1. Cap \in Nat
    BY Bounds
  <1>2. ASSUME s \in Queue
        PROVE  s \in Seq(Updates) /\ Len(s) <= Cap
    <2>1. PICK n \in 0..Cap : s \in [1..n -> Updates]
      BY <1>2 DEF Queue
    <2>2. n \in Nat /\ n <= Cap
      BY <1>1
    <2> QED
      BY <2>1, <2>2, SeqDef, LenProperties
  <1>3. ASSUME s \in Seq(Updates), Len(s) <= Cap
        PROVE  s \in Queue
    <2>1. Len(s) \in 0..Cap /\ s \in [1..Len(s) -> Updates]
      BY <1>1, <1>3, LenProperties
    <2> QED
      BY <2>1 DEF Queue
  <1> QED
    BY <1>2, <1>3

LEMMA SameChat ==
    ASSUME chat'.sends = chat.sends
    PROVE  Updates' = Updates /\ Queue' = Queue /\ Daemon' = Daemon
  BY DEF Updates, Queue, Daemon

LEMMA DownOK ==
    ASSUME TypeOK
    PROVE  /\ Down \in Daemon /\ DaemonOK(Down)
           /\ Down.phase = "off" /\ Down.poll = "check"
           /\ \A t \in Tuis : /\ Down.hand[t] = "none" /\ Down.address[t] = Nobody
                              /\ Down.flush[t] = <<>> /\ Down.outbound[t] = <<>>
  <1>1. <<>> \in Seq(Updates) /\ <<>> \in Queue
    <2>1. <<>> \in Seq(Updates) /\ Len(<<>>) = 0 /\ 0 <= Cap
      BY Bounds, EmptySeq
    <2> QED
      BY <2>1, Queues
  <1>2. 1 \in 1..(Len(chat.sends) + 1) /\ 0 \in 0..Len(chat.sends)
    BY Bounds
  <1>3. Down \in Daemon
    BY <1>1, <1>2 DEF Down, Daemon
  <1> QED
    BY <1>3 DEF Down, DaemonOK, Nobody

LEMMA DaemonAt ==
    ASSUME TypeInv, NEW d \in Daemons
    PROVE  /\ daemons[d] \in Daemon /\ DaemonOK(daemons[d])
           /\ \A n : [daemons EXCEPT ![d] = n][d] = n
           /\ \A n, e \in Daemons : e # d => [daemons EXCEPT ![d] = n][e] = daemons[e]
           /\ \A n \in Daemon : [daemons EXCEPT ![d] = n] \in [Daemons -> Daemon]
  BY DEF TypeInv, TypeOK

\* A step of daemon d that leaves the chat's messages alone.
LEMMA TypeKept ==
    ASSUME TypeInv, chat'.sends = chat.sends, NEW d \in Daemons, NEW n \in Daemon,
           daemons' = [daemons EXCEPT ![d] = n],
           DaemonOK(n),
           chat' \in [sends : {s.sends : s \in Scenarios}, confirmed : 0..Len(chat.sends)],
           disk' \in [seen : SUBSET Updates, rows : [Updates -> Row], known : SUBSET Addresses,
                      selected : Addresses \cup {Nobody}],
           socket' \in [exists : BOOLEAN, by : Daemons \cup {Nobody}],
           tuis' \in [Tuis -> [state : {"new", "searching", "waiting", "connected", "gone"},
                               at : Daemons \cup {Nobody}]],
           history' \in [got : [Updates -> 0..2], settled : SUBSET Updates,
                         ends : Nat, twins : BOOLEAN],
           socket'.by = Nobody \/ (socket'.by = d /\ n.phase = "serving")
              \/ (socket'.by = socket.by /\ socket.by # d),
           \A t \in Tuis :
              /\ tuis'[t].at # Nobody => tuis'[t].state \in {"waiting", "connected"}
              /\ n.hand[t] # "none" => tuis'[t].at = d \/ tuis'[t].state = "gone"
              /\ \A e \in Daemons : tuis[t].at = e => tuis'[t].at = e
              /\ tuis[t].state = "gone" => tuis'[t].state = "gone"
    PROVE  TypeInv'
  <1>1. Updates' = Updates /\ Daemon' = Daemon
    BY SameChat
  <1>2. /\ daemons' \in [Daemons -> Daemon] /\ daemons'[d] = n
        /\ \A e \in Daemons : e # d => daemons'[e] = daemons[e]
    BY DaemonAt
  <1>3. TypeOK'
    BY <1>1, <1>2 DEF TypeOK
  <1>4. \A e \in Daemons : DaemonOK(daemons'[e])
    BY <1>2, DaemonAt
  <1>5. Listening' => daemons'[socket'.by].phase = "serving"
    BY <1>2 DEF TypeInv, TypeOK, Listening
  <1>6. ASSUME NEW t \in Tuis, NEW e \in Daemons, daemons'[e].hand[t] # "none"
        PROVE  tuis'[t].at = e \/ tuis'[t].state = "gone"
    <2>1. CASE e = d
      BY <2>1, <1>2, <1>6
    <2>2. CASE e # d
      BY <2>2, <1>2, <1>6 DEF TypeInv
    <2> QED
      BY <2>1, <2>2
  <1>7. \A e \in Daemons : DaemonOK(daemons[e])'
    BY <1>4 DEF DaemonOK
  <1> QED
    BY <1>3, <1>7, <1>5, <1>6 DEF TypeInv

-----------------------------------------------------------------------------
(* What each action does.                                                  *)

\* A daemon's handlers, and what its poll loop has taken, are as before.
SameClients(c, n) ==
    n.hand = c.hand /\ n.address = c.address /\ n.flush = c.flush /\ n.outbound = c.outbound
SamePoll(c, n) ==
    n.poll = c.poll /\ n.next = c.next /\ n.last = c.last /\ n.to = c.to /\ n.target = c.target
Idle(c) == c.poll = "check" /\ \A t \in Tuis : c.hand[t] = "none"

DiskType == [seen : SUBSET Updates, rows : [Updates -> Row], known : SUBSET Addresses,
             selected : Addresses \cup {Nobody}]
HistoryType == [got : [Updates -> 0..2], settled : SUBSET Updates,
                ends : Nat, twins : BOOLEAN]
TuisType == [Tuis -> [state : {"new", "searching", "waiting", "connected", "gone"},
                      at : Daemons \cup {Nobody}]]

LEMMA Types ==
    ASSUME TypeInv
    PROVE  /\ TypeOK /\ disk \in DiskType /\ history \in HistoryType /\ tuis \in TuisType
           /\ Nobody \notin Daemons /\ Nobody \notin Tuis /\ Nobody \notin Addresses
           /\ chat \in [sends : {s.sends : s \in Scenarios}, confirmed : 0..Len(chat.sends)]
           /\ socket \in [exists : BOOLEAN, by : Daemons \cup {Nobody}]
           /\ Listening => daemons[socket.by].phase = "serving"
  BY CountAssumption
     DEF TypeInv, TypeOK, DiskType, HistoryType, TuisType, Nobody, Daemons, Tuis, Addresses

\* One end less.
LEMMA Ends ==
    ASSUME TypeInv, history.ends > 0
    PROVE  LET h == [history EXCEPT !.ends = @ - 1]
           IN  /\ h \in HistoryType /\ h.got = history.got /\ h.settled = history.settled
               /\ h.twins = history.twins
  BY Types DEF HistoryType

\* A TUI changes and no daemon does.
LEMMA TuiAlone ==
    ASSUME TypeInv, UNCHANGED <<chat, disk, socket, daemons>>, history' \in HistoryType,
           NEW t \in Tuis,
           NEW r \in [state : {"searching", "gone"}, at : {Nobody}],
           tuis' = [tuis EXCEPT ![t] = r],
           \A d \in Daemons : daemons[d].hand[t] # "none" => r.state = "gone"
    PROVE  TypeInv'
  <1>1. Updates' = Updates /\ Daemon' = Daemon
    BY SameChat
  <1>2. tuis' \in TuisType /\ tuis'[t] = r /\ \A s \in Tuis : s # t => tuis'[s] = tuis[s]
    BY Types DEF TuisType
  <1>3. TypeOK'
    BY <1>1, <1>2, Types DEF TypeOK, TuisType, HistoryType
  <1>4. \A d \in Daemons : DaemonOK(daemons[d])'
    BY DEF TypeInv, DaemonOK
  <1>5. ASSUME NEW s \in Tuis
        PROVE  /\ tuis'[s].at # Nobody => tuis'[s].state \in {"waiting", "connected"}
               /\ \A d \in Daemons : daemons[d].hand[s] # "none" =>
                                        tuis'[s].at = d \/ tuis'[s].state = "gone"
    BY <1>2 DEF TypeInv
  <1>6. Listening' => daemons'[socket'.by].phase = "serving"
    BY DEF TypeInv, Listening
  <1> QED
    BY <1>3, <1>4, <1>5, <1>6 DEF TypeInv

LEMMA StartTuiTo ==
    ASSUME TypeInv, NEW t \in Tuis, StartTui(t)
    PROVE  TypeInv'
  <1> DEFINE r == [tuis[t] EXCEPT !.state = "searching"]
  <1>1. tuis[t] \in [state : {"new", "searching", "waiting", "connected", "gone"},
                     at : Daemons \cup {Nobody}]
    BY Types DEF TuisType
  <1>2. tuis[t].at = Nobody /\ tuis[t].state = "new"
    BY DEF TypeInv, StartTui
  <1>3. r \in [state : {"searching", "gone"}, at : {Nobody}] /\ r.state = "searching"
    BY <1>1, <1>2
  <1>4. tuis' = [tuis EXCEPT ![t] = r]
    BY DEF StartTui
  <1>5. \A d \in Daemons : daemons[d].hand[t] = "none"
    BY <1>2, Types DEF TypeInv
  <1> QED
    BY <1>3, <1>4, <1>5, TuiAlone, Types DEF StartTui

LEMMA QuitTuiTo ==
    ASSUME TypeInv, NEW t \in Tuis, QuitTui(t)
    PROVE  TypeInv' /\ history'.got = history.got /\ history'.settled = history.settled
                    /\ history'.twins = history.twins
  <1>1. PICK h \in HistoryType : /\ h = [history EXCEPT !.ends = @ - 1]
                                 /\ h.got = history.got /\ h.settled = history.settled
                                 /\ h.twins = history.twins
    BY Ends DEF QuitTui
  <1>2. history' = h
    BY <1>1 DEF QuitTui
  <1>3. PICK r \in [state : {"searching", "gone"}, at : {Nobody}] :
           r = [state |-> "gone", at |-> Nobody]
    OBVIOUS
  <1>4. tuis' = [tuis EXCEPT ![t] = r] /\ r.state = "gone"
    BY <1>3 DEF QuitTui
  <1> QED
    BY <1>1, <1>2, <1>4, TuiAlone DEF QuitTui

LEMMA DisconnectedTo ==
    ASSUME TypeInv, NEW t \in Tuis, Disconnected(t)
    PROVE  TypeInv'
  <1>1. PICK r \in [state : {"searching", "gone"}, at : {Nobody}] :
           r = [state |-> "searching", at |-> Nobody]
    OBVIOUS
  <1>2. tuis' = [tuis EXCEPT ![t] = r]
    BY <1>1 DEF Disconnected
  <1>3. ASSUME NEW d \in Daemons
        PROVE  daemons[d].hand[t] = "none"
    <2>1. tuis[t].state \in {"waiting", "connected"}
      BY DEF Disconnected, TypeInv
    <2> QED
      BY <2>1 DEF Disconnected, TypeInv
  <1> QED
    BY <1>2, <1>3, TuiAlone, Types DEF Disconnected

LEMMA DialTo ==
    ASSUME TypeInv, NEW t \in Tuis, Dial(t)
    PROVE  /\ TypeInv'
           /\ \E d \in Daemons, n \in Daemon :
                 /\ daemons' = [daemons EXCEPT ![d] = n]
                 /\ SamePoll(daemons[d], n) /\ n.phase = daemons[d].phase
                 /\ n.address = daemons[d].address /\ n.flush = daemons[d].flush
                 /\ n.outbound = daemons[d].outbound
  <1>1. socket.by \in Daemons
    BY Types DEF Dial, Listening
  <1>2. PICK d \in Daemons : d = socket.by
    BY <1>1
  <1>3. PICK c \in Daemon : c = daemons[d]
    BY DaemonAt
  <1>4. c.phase = "serving"
    BY <1>2, <1>3 DEF Dial, TypeInv
  <1>5. tuis[t].at = Nobody /\ tuis[t].state = "searching"
    BY DEF TypeInv, Dial
  <1>6. c.hand[t] = "none"
    BY <1>3, <1>5, Types DEF TypeInv
  <1>7. PICK h : h = [c.hand EXCEPT ![t] = "new"]
    OBVIOUS
  <1>8. /\ h \in [Tuis -> {"none", "new", "registered", "flushing", "live"}]
        /\ h[t] = "new" /\ \A s \in Tuis : s # t => h[s] = c.hand[s]
    BY <1>7 DEF Daemon
  <1>9. PICK n : n = [c EXCEPT !.hand = h]
    OBVIOUS
  <1>10. /\ n \in Daemon /\ SamePoll(c, n) /\ n.hand = h /\ n.phase = c.phase
         /\ n.address = c.address /\ n.flush = c.flush /\ n.outbound = c.outbound
    BY <1>8, <1>9 DEF Daemon, SamePoll
  <1>11. daemons' = [daemons EXCEPT ![d] = n]
    BY <1>2, <1>3, <1>7, <1>9 DEF Dial
  <1>12. DaemonOK(n)
    <2>1. DaemonOK(c)
      BY <1>3, DaemonAt
    <2> QED
      BY <1>4, <1>6, <1>8, <1>10, <2>1 DEF DaemonOK, SamePoll
  <1>13. PICK r \in [state : {"waiting"}, at : {d}] : tuis' = [tuis EXCEPT ![t] = r]
    BY <1>2 DEF Dial
  <1>14. tuis' \in TuisType /\ tuis'[t] = r /\ \A s \in Tuis : s # t => tuis'[s] = tuis[s]
    BY <1>13, Types DEF TuisType
  <1>15. ASSUME NEW s \in Tuis
         PROVE  /\ tuis'[s].at # Nobody => tuis'[s].state \in {"waiting", "connected"}
                /\ n.hand[s] # "none" => tuis'[s].at = d \/ tuis'[s].state = "gone"
                /\ \A e \in Daemons : tuis[s].at = e => tuis'[s].at = e
                /\ tuis[s].state = "gone" => tuis'[s].state = "gone"
    <2>1. CASE s = t
      BY <2>1, <1>5, <1>14, Types
    <2>2. CASE s # t
      BY <2>2, <1>3, <1>8, <1>10, <1>14 DEF TypeInv
    <2> QED
      BY <2>1, <2>2
  <1>16. socket' = socket /\ socket.by = d /\ n.phase = "serving"
    BY <1>2, <1>4, <1>10 DEF Dial
  <1>17. TypeInv'
    <2>1. chat' = chat /\ disk' = disk /\ history' = history
      BY DEF Dial
    <2>2. /\ disk' \in DiskType /\ history' \in HistoryType /\ chat'.sends = chat.sends
          /\ chat' \in [sends : {s.sends : s \in Scenarios}, confirmed : 0..Len(chat.sends)]
          /\ socket' \in [exists : BOOLEAN, by : Daemons \cup {Nobody}]
      BY <2>1, <1>16, Types
    <2>3. socket'.by = d /\ n.phase = "serving"
      BY <1>16
    <2> QED
      BY <1>10, <1>11, <1>12, <1>14, <1>15, <2>2, <2>3, TypeKept
         DEF DiskType, HistoryType, TuisType
  <1> QED
    BY <1>3, <1>10, <1>11, <1>17

\* A step of daemon d alone, which listens as long as it serves.
LEMMA DaemonAlone ==
    ASSUME TypeInv, UNCHANGED <<chat, tuis>>, NEW d \in Daemons, NEW n \in Daemon,
           daemons' = [daemons EXCEPT ![d] = n], DaemonOK(n),
           disk' \in DiskType, history' \in HistoryType,
           socket' \in [exists : BOOLEAN, by : Daemons \cup {Nobody}],
           \/ socket'.by = Nobody
           \/ socket'.by = d /\ n.phase = "serving"
           \/ socket'.by = socket.by /\ (socket.by = d => n.phase = daemons[d].phase),
           \A t \in Tuis : n.hand[t] # "none" => daemons[d].hand[t] # "none"
    PROVE  TypeInv'
  <1>1. \/ socket'.by = Nobody
        \/ socket'.by = d /\ n.phase = "serving"
        \/ socket'.by = socket.by /\ socket.by # d
    BY Types DEF Listening
  <1>2. ASSUME NEW t \in Tuis
        PROVE  /\ tuis'[t].at # Nobody => tuis'[t].state \in {"waiting", "connected"}
               /\ n.hand[t] # "none" => tuis'[t].at = d \/ tuis'[t].state = "gone"
               /\ \A e \in Daemons : tuis[t].at = e => tuis'[t].at = e
               /\ tuis[t].state = "gone" => tuis'[t].state = "gone"
    BY DEF TypeInv
  <1> QED
    BY <1>1, <1>2, Types, TypeKept DEF DiskType, HistoryType, TuisType

\* A daemon that no client ever reached is as good as none.
LEMMA Idles ==
    ASSUME TypeInv, NEW d \in Daemons, daemons[d].phase \notin {"serving", "closing"}
    PROVE  Idle(daemons[d]) /\ SameClients(daemons[d], Down)
  <1>1. PICK c \in Daemon : c = daemons[d] /\ DaemonOK(c)
    BY DaemonAt
  <1>2. c.poll = "check" /\ \A t \in Tuis : c.hand[t] = "none"
    BY <1>1 DEF DaemonOK
  <1>3. \A t \in Tuis : c.address[t] = Nobody /\ c.flush[t] = <<>> /\ c.outbound[t] = <<>>
    BY <1>1, <1>2 DEF DaemonOK
  <1>4. /\ c.hand = [t \in Tuis |-> c.hand[t]] /\ c.address = [t \in Tuis |-> c.address[t]]
        /\ c.flush = [t \in Tuis |-> c.flush[t]] /\ c.outbound = [t \in Tuis |-> c.outbound[t]]
    BY DEF Daemon
  <1>5. SameClients(c, Down)
    BY <1>2, <1>3, <1>4 DEF Down, SameClients
  <1> QED
    BY <1>1, <1>2, <1>5 DEF Idle

\* What serves chats is as it was.
Calm(c, n) ==
    SameClients(c, n) /\ n.poll = c.poll /\ (c.poll # "check" => n.next = c.next)

Phases == {"off", "starting", "probed", "cleared", "serving", "closing"}
Timers == {"off", "armed", "fired"}

LEMMA Fields ==
    ASSUME NEW c \in Daemon,
           NEW phase \in Phases,
           NEW parent \in Tuis \cup {Nobody}, NEW timer \in Timers
    PROVE  [c EXCEPT !.phase = phase, !.parent = parent, !.timer = timer] \in Daemon
  <1> DEFINE P == Phases
             R == Tuis \cup {Nobody}
             T == Timers
             H == [Tuis -> {"none", "new", "registered", "flushing", "live"}]
             A == [Tuis -> Addresses \cup {Nobody}]
             F == [Tuis -> Seq(Updates)]
             O == [Tuis -> Queue]
             N == 1..(Len(chat.sends) + 1)
             L == 0..Len(chat.sends)
             S == {"check", "mark", "route", "lookup", "push", "queue"}
             B == Addresses \cup {Nobody}
  <1>1. Daemon = [phase : P, parent : R, timer : T, hand : H, address : A, flush : F,
                  outbound : O, next : N, last : L, poll : S, to : B, target : R]
    BY DEF Daemon, Phases, Timers
  <1>2. phase \in P /\ parent \in R /\ timer \in T
    OBVIOUS
  <1> HIDE DEF P, R, T, H, A, F, O, N, L, S, B
  <1> QED
    BY <1>1, <1>2

MovedOn(c, phase, parent, timer) ==
    [c EXCEPT !.phase = phase, !.parent = parent, !.timer = timer]

LEMMA CalmOK ==
    ASSUME TypeInv, NEW d \in Daemons, NEW c \in Daemon, c = daemons[d],
           NEW phase \in Phases,
           NEW parent \in Tuis \cup {Nobody}, NEW timer \in Timers,
           phase \in {"serving", "closing"} \/ c.phase \notin {"serving", "closing"}
    PROVE  /\ MovedOn(c, phase, parent, timer) \in Daemon
           /\ DaemonOK(MovedOn(c, phase, parent, timer))
           /\ Calm(c, MovedOn(c, phase, parent, timer))
           /\ MovedOn(c, phase, parent, timer).phase = phase
  <1> DEFINE n == MovedOn(c, phase, parent, timer)
  <1>1. /\ n.phase = phase /\ n.hand = c.hand /\ n.address = c.address
        /\ n.flush = c.flush /\ n.outbound = c.outbound
        /\ n.poll = c.poll /\ n.next = c.next /\ n.last = c.last
        /\ n.to = c.to /\ n.target = c.target
    BY DEF Daemon, MovedOn
  <1>2. /\ n \in Daemon /\ SameClients(c, n) /\ SamePoll(c, n)
    <2>1. n \in Daemon
      BY Fields DEF MovedOn
    <2> QED
      BY <1>1, <2>1 DEF SameClients, SamePoll
  <1>3. DaemonOK(c)
    BY DaemonAt
  <1>4. DaemonOK(n)
    BY <1>1, <1>3 DEF DaemonOK
  <1>5. Calm(c, n)
    BY <1>2 DEF Calm, SamePoll
  <1> QED
    BY <1>1, <1>2, <1>4, <1>5

\* A step of d's main goroutine or timer; the chat and the disk are left alone.
Quiet(d) ==
    /\ TypeInv'
    /\ UNCHANGED <<chat, disk>>
    /\ history'.got = history.got /\ history'.settled = history.settled
    /\ \E n \in Daemon : daemons' = [daemons EXCEPT ![d] = n] /\ Calm(daemons[d], n)

LEMMA CalmTo ==
    ASSUME TypeInv, UNCHANGED <<chat, disk, tuis>>, NEW d \in Daemons,
           NEW phase \in Phases,
           NEW parent \in Tuis \cup {Nobody}, NEW timer \in Timers,
           phase \in {"serving", "closing"} \/ daemons[d].phase \notin {"serving", "closing"},
           daemons' = [daemons EXCEPT ![d] = MovedOn(daemons[d], phase, parent, timer)],
           history' \in HistoryType,
           history'.got = history.got, history'.settled = history.settled,
           socket' \in [exists : BOOLEAN, by : Daemons \cup {Nobody}],
           \/ socket'.by = Nobody
           \/ socket'.by = d /\ phase = "serving"
           \/ socket'.by = socket.by /\ (socket.by = d => phase = daemons[d].phase)
    PROVE  Quiet(d) /\ daemons'[d].phase = phase
  <1>1. PICK c \in Daemon : c = daemons[d]
    BY DaemonAt
  <1>2. PICK n : n = MovedOn(c, phase, parent, timer)
    OBVIOUS
  <1>3. n \in Daemon /\ DaemonOK(n) /\ Calm(c, n) /\ n.phase = phase
    <2>1. phase \in {"serving", "closing"} \/ c.phase \notin {"serving", "closing"}
      BY <1>1
    <2> QED
      BY <1>1, <1>2, <2>1, CalmOK
  <1>4. daemons' = [daemons EXCEPT ![d] = n] /\ daemons'[d] = n
    BY <1>1, <1>2, DaemonAt
  <1>5. disk' \in DiskType
    BY Types
  <1>6. \A t \in Tuis : n.hand[t] # "none" => daemons[d].hand[t] # "none"
    BY <1>1, <1>3 DEF Calm, SameClients
  <1>7. TypeInv'
    BY <1>1, <1>3, <1>4, <1>5, <1>6, DaemonAlone
  <1> QED
    BY <1>1, <1>3, <1>4, <1>7 DEF Quiet

\* A daemon that never served ends.
LEMMA IdleEnds ==
    ASSUME TypeInv, UNCHANGED <<chat, disk, socket, tuis, history>>, NEW d \in Daemons,
           daemons[d].phase \notin {"serving", "closing"},
           daemons' = [daemons EXCEPT ![d] = Down]
    PROVE  Quiet(d)
  <1>1. Down \in Daemon /\ DaemonOK(Down) /\ Calm(daemons[d], Down)
    BY Idles, DownOK, Types DEF Calm, Idle
  <1>2. \A t \in Tuis : Down.hand[t] = "none"
    BY DEF Down
  <1>3. socket'.by = socket.by /\ socket.by # d
    BY Types DEF Listening
  <1>4. TypeInv'
    <2>1. /\ disk' \in DiskType /\ history' \in HistoryType
          /\ socket' \in [exists : BOOLEAN, by : Daemons \cup {Nobody}]
      BY Types
    <2> QED
      BY <1>1, <1>2, <1>3, <2>1, DaemonAlone
  <1> QED
    BY <1>1, <1>4 DEF Quiet

LEMMA SpawnTo ==
    ASSUME TypeInv, NEW t \in Tuis, Spawn(t)
    PROVE  \E d \in Daemons : Quiet(d) /\ history' = history
                                       /\ daemons'[d].phase = "starting"
  <1>1. PICK d \in Daemons :
           /\ daemons[d].phase = "off"
           /\ daemons' = [daemons EXCEPT ![d].phase = "starting", ![d].parent = t]
    BY DEF Spawn
  <1>2. PICK c \in Daemon : c = daemons[d]
    BY DaemonAt
  <1>3. PICK timer \in Timers : timer = c.timer
    BY DEF Daemon, Timers
  <1>4. [c EXCEPT !.phase = "starting", !.parent = t]
        = [c EXCEPT !.phase = "starting", !.parent = t, !.timer = timer]
    BY <1>3 DEF Daemon
  <1>5. daemons' = [daemons EXCEPT ![d] = MovedOn(daemons[d], "starting", t, timer)]
    BY <1>1, <1>2, <1>4 DEF MovedOn
  <1>6. socket.by # d
    BY <1>1, Types DEF Listening
  <1>7. UNCHANGED <<chat, disk, tuis, socket, history>>
    BY DEF Spawn
  <1>8. /\ history' \in HistoryType
        /\ socket' \in [exists : BOOLEAN, by : Daemons \cup {Nobody}]
        /\ socket'.by = socket.by /\ (socket.by = d => "starting" = daemons[d].phase)
    BY <1>6, <1>7, Types
  <1>9. daemons[d].phase \notin {"serving", "closing"}
    BY <1>1
  <1>10. Quiet(d) /\ daemons'[d].phase = "starting"
    <2>1. PICK phase \in Phases : phase = "starting"
      BY DEF Phases
    <2> QED
      BY <1>5, <1>7, <1>8, <1>9, <2>1, CalmTo
  <1> QED
    BY <1>7, <1>10

\* The main goroutine of d goes to another phase.
LEMMA PhaseTo ==
    ASSUME TypeInv, UNCHANGED <<chat, disk, tuis>>, NEW d \in Daemons,
           NEW phase \in {"probed", "cleared", "serving"},
           daemons[d].phase \notin {"serving", "closing"},
           \/ daemons' = [daemons EXCEPT ![d].phase = phase]
           \/ daemons' = [daemons EXCEPT ![d].phase = phase, ![d].parent = Nobody],
           history' \in HistoryType,
           history'.got = history.got, history'.settled = history.settled,
           socket' \in [exists : BOOLEAN, by : Daemons \cup {Nobody}],
           socket'.by = Nobody \/ (socket'.by = d /\ phase = "serving") \/ socket'.by = socket.by
    PROVE  Quiet(d) /\ daemons'[d].phase = phase
  <1>1. PICK c \in Daemon : c = daemons[d]
    BY DaemonAt
  <1>2. PICK timer \in Timers : timer = c.timer
    BY DEF Daemon, Timers
  <1>3. PICK parent \in Tuis \cup {Nobody} :
           daemons' = [daemons EXCEPT ![d] = MovedOn(daemons[d], phase, parent, timer)]
    <2>1. CASE daemons' = [daemons EXCEPT ![d].phase = phase]
      <3>1. PICK parent \in Tuis \cup {Nobody} : parent = c.parent
        BY DEF Daemon
      <3>2. [c EXCEPT !.phase = phase]
            = [c EXCEPT !.phase = phase, !.parent = parent, !.timer = timer]
        BY <1>2, <3>1 DEF Daemon
      <3>3. daemons' = [daemons EXCEPT ![d] = [daemons[d] EXCEPT !.phase = phase]]
        BY <2>1
      <3> QED
        BY <1>1, <3>2, <3>3 DEF MovedOn
    <2>2. CASE daemons' = [daemons EXCEPT ![d].phase = phase, ![d].parent = Nobody]
      <3>1. [c EXCEPT !.phase = phase, !.parent = Nobody]
            = [c EXCEPT !.phase = phase, !.parent = Nobody, !.timer = timer]
        BY <1>2 DEF Daemon
      <3>2. daemons' = [daemons EXCEPT ![d] =
                           [daemons[d] EXCEPT !.phase = phase, !.parent = Nobody]]
        BY <2>2
      <3> QED
        BY <1>1, <3>1, <3>2 DEF MovedOn
    <2> QED
      BY <2>1, <2>2
  <1>4. socket.by # d /\ phase \in Phases
    BY Types DEF Listening, Phases
  <1> QED
    BY <1>3, <1>4, CalmTo

LEMMA ProbeTo ==
    ASSUME TypeInv, NEW d \in Daemons, Probe(d)
    PROVE  Quiet(d) /\ history' = history /\ daemons'[d].phase \in {"off", "probed"}
  <1>1. UNCHANGED <<chat, disk, socket, tuis, history>> /\ daemons[d].phase = "starting"
    BY DEF Probe
  <1>2. CASE Listening
    <2>1. daemons' = [daemons EXCEPT ![d] = Down]
      BY <1>2 DEF Probe
    <2> QED
      BY <1>1, <2>1, IdleEnds, DaemonAt, DownOK, Types
  <1>3. CASE ~Listening
    <2>1. daemons' = [daemons EXCEPT ![d].phase = "probed"]
      BY <1>3 DEF Probe
    <2> QED
      BY <1>1, <2>1, Types, PhaseTo
  <1> QED
    BY <1>2, <1>3

LEMMA ClearTo ==
    ASSUME TypeInv, NEW d \in Daemons, Clear(d)
    PROVE  Quiet(d) /\ history' = history /\ daemons'[d].phase = "cleared"
  <1>1. /\ UNCHANGED <<chat, disk, tuis, history>> /\ daemons[d].phase = "probed"
        /\ daemons' = [daemons EXCEPT ![d].phase = "cleared"]
    BY DEF Clear
  <1>2. socket' \in [exists : BOOLEAN, by : Daemons \cup {Nobody}] /\ socket'.by = Nobody
    BY DEF Clear, NoFile
  <1> QED
    BY <1>1, <1>2, Types, PhaseTo

LEMMA BindTo ==
    ASSUME TypeInv, NEW d \in Daemons, Bind(d)
    PROVE  /\ Quiet(d)
           /\ \/ daemons'[d].phase = "off" /\ history' = history
              \/ /\ daemons'[d].phase = "serving"
                 /\ history.twins => history'.twins
                 /\ (\E e \in Daemons \ {d} : Runs(e)) => history'.twins
  <1>1. UNCHANGED <<chat, disk, tuis>> /\ daemons[d].phase = "cleared"
    BY DEF Bind
  <1>2. CASE socket.exists
    <2>1. daemons' = [daemons EXCEPT ![d] = Down] /\ UNCHANGED <<socket, history>>
      BY <1>2 DEF Bind
    <2> QED
      BY <1>1, <2>1, IdleEnds, DaemonAt, DownOK, Types
  <1>3. CASE ~socket.exists
    <2>1. PICK b \in BOOLEAN : b = \E e \in Daemons \ {d} : Runs(e)
      OBVIOUS
    <2>2. PICK was \in BOOLEAN : was = history.twins
      BY Types DEF HistoryType
    <2>3. PICK twins \in BOOLEAN : twins = (was \/ b)
      OBVIOUS
    <2>4. history' = [history EXCEPT !.twins = history.twins \/ b]
      BY <1>3, <2>1, Zenon DEF Bind, Runs
    <2>5. history' = [history EXCEPT !.twins = twins]
      BY <2>2, <2>3, <2>4, Zenon
    <2>6. /\ history' \in HistoryType
          /\ history'.got = history.got /\ history'.settled = history.settled
          /\ history'.twins = twins
      BY <2>5, Types DEF HistoryType
    <2>7. /\ socket' \in [exists : BOOLEAN, by : Daemons \cup {Nobody}] /\ socket'.by = d
          /\ daemons' = [daemons EXCEPT ![d].phase = "serving", ![d].parent = Nobody]
      <3>1. socket' = [exists |-> TRUE, by |-> d]
        BY <1>3, Zenon DEF Bind
      <3>2. daemons' = [daemons EXCEPT ![d].phase = "serving", ![d].parent = Nobody]
        BY <1>3, Zenon DEF Bind
      <3> QED
        BY <3>1, <3>2
    <2>8. Quiet(d) /\ daemons'[d].phase = "serving"
      BY <1>1, <2>6, <2>7, PhaseTo
    <2>9. /\ history.twins => history'.twins
          /\ (\E e \in Daemons \ {d} : Runs(e)) => history'.twins
      BY <2>1, <2>2, <2>3, <2>6, Zenon
    <2> QED
      BY <2>8, <2>9
  <1> QED
    BY <1>2, <1>3

LEMMA TimerFiresTo ==
    ASSUME TypeInv, NEW d \in Daemons, TimerFires(d)
    PROVE  Quiet(d) /\ history' = history /\ daemons'[d].phase = daemons[d].phase
  <1>1. PICK c \in Daemon : c = daemons[d]
    BY DaemonAt
  <1>2. PICK timer \in Timers : timer = IF Count(d) > 0 THEN "off" ELSE "fired"
    BY DEF Timers
  <1>3. PICK phase \in Phases, parent \in Tuis \cup {Nobody} :
           phase = c.phase /\ parent = c.parent
    BY DEF Daemon, Phases
  <1>4. daemons' = [daemons EXCEPT ![d] = [daemons[d] EXCEPT !.timer = timer]]
    BY <1>2 DEF TimerFires
  <1>5. [c EXCEPT !.timer = timer] = MovedOn(c, phase, parent, timer)
    BY <1>3 DEF Daemon, MovedOn
  <1>6. daemons' = [daemons EXCEPT ![d] = MovedOn(daemons[d], phase, parent, timer)]
    BY <1>1, <1>4, <1>5
  <1>7. UNCHANGED <<chat, disk, socket, tuis, history>>
    BY DEF TimerFires
  <1>8. /\ history' \in HistoryType
        /\ socket' \in [exists : BOOLEAN, by : Daemons \cup {Nobody}]
        /\ socket'.by = socket.by /\ (socket.by = d => phase = daemons[d].phase)
    BY <1>1, <1>3, <1>7, Types
  <1>9. phase \in {"serving", "closing"} \/ daemons[d].phase \notin {"serving", "closing"}
    BY <1>1, <1>3
  <1>10. Quiet(d) /\ daemons'[d].phase = phase
    BY <1>6, <1>7, <1>8, <1>9, CalmTo
  <1> QED
    BY <1>1, <1>3, <1>7, <1>10

LEMMA ClosesTo ==
    ASSUME TypeInv, NEW d \in Daemons, Closes(d), history' \in HistoryType,
           history'.got = history.got, history'.settled = history.settled
    PROVE  Quiet(d) /\ Runs(d) /\ daemons'[d].phase = "closing"
  <1>1. daemons' = [daemons EXCEPT ![d] =
                       [daemons[d] EXCEPT !.phase = "closing", !.timer = "off"]]
    BY DEF Closes
  <1>2. PICK c \in Daemon : c = daemons[d]
    BY DaemonAt
  <1>3. PICK phase \in Phases, parent \in Tuis \cup {Nobody}, timer \in Timers :
           phase = "closing" /\ parent = c.parent /\ timer = "off"
    BY DEF Daemon, Phases, Timers
  <1>4. [c EXCEPT !.phase = "closing", !.timer = "off"] = MovedOn(c, phase, parent, timer)
    BY <1>3 DEF Daemon, MovedOn
  <1>5. daemons' = [daemons EXCEPT ![d] = MovedOn(daemons[d], phase, parent, timer)]
    BY <1>1, <1>2, <1>4
  <1>6. socket' \in [exists : BOOLEAN, by : Daemons \cup {Nobody}] /\ socket'.by = Nobody
    BY DEF Closes, NoFile
  <1>7. UNCHANGED <<chat, disk, tuis>> /\ daemons[d].phase = "serving"
    BY DEF Closes
  <1>8. Quiet(d) /\ daemons'[d].phase = phase
    BY <1>3, <1>5, <1>6, <1>7, CalmTo
  <1> QED
    BY <1>3, <1>7, <1>8 DEF Runs

LEMMA ShutdownTo ==
    ASSUME TypeInv, NEW d \in Daemons, Shutdown(d)
    PROVE  Quiet(d) /\ Runs(d) /\ daemons'[d].phase = "closing" /\ history' = history
  BY ClosesTo, Types DEF Shutdown

LEMMA TerminateTo ==
    ASSUME TypeInv, NEW d \in Daemons, Terminate(d)
    PROVE  Quiet(d) /\ Runs(d) /\ daemons'[d].phase = "closing" /\ history'.twins = history.twins
  <1>1. PICK h \in HistoryType : /\ h = [history EXCEPT !.ends = @ - 1]
                                 /\ h.got = history.got /\ h.settled = history.settled
                                 /\ h.twins = history.twins
    BY Ends DEF Terminate
  <1>2. history' = h
    BY <1>1 DEF Terminate
  <1> QED
    BY <1>1, <1>2, ClosesTo DEF Terminate

\* What a daemon holds are messages.
LEMMA Holds ==
    ASSUME TypeInv, NEW d \in Daemons
    PROVE  /\ Held(d) \subseteq Updates
           /\ daemons[d].poll # "check" => daemons[d].next \in Updates
           /\ \A t \in Tuis : Range(daemons[d].outbound[t]) \subseteq Updates
  <1>1. PICK c \in Daemon : c = daemons[d] /\ DaemonOK(c)
    BY DaemonAt
  <1>2. c.poll # "check" => c.next \in Updates
    BY <1>1, Bounds, Types DEF Daemon, DaemonOK, Updates
  <1>3. ASSUME NEW t \in Tuis
        PROVE  Range(c.outbound[t]) \subseteq Updates
    <2>1. c.outbound[t] \in Seq(Updates)
      BY Queues, Types DEF Daemon
    <2> QED
      BY <2>1 DEF Range
  <1> QED
    BY <1>1, <1>2, <1>3 DEF Held

\* The daemon is gone with what only it held.
Vanishes(d) ==
    /\ TypeInv' /\ UNCHANGED <<chat, disk>>
    /\ daemons' = [daemons EXCEPT ![d] = Down]
    /\ history'.got = history.got /\ history'.settled = history.settled \cup Held(d)
    /\ history'.twins = history.twins

LEMMA DownTo ==
    ASSUME TypeInv, UNCHANGED <<chat, disk, tuis>>, NEW d \in Daemons,
           daemons' = [daemons EXCEPT ![d] = Down],
           history' \in HistoryType, history'.got = history.got,
           history'.settled = history.settled \cup Held(d), history'.twins = history.twins,
           socket' \in [exists : BOOLEAN, by : Daemons \cup {Nobody}],
           socket'.by = Nobody \/ (socket'.by = socket.by /\ socket.by # d)
    PROVE  Vanishes(d)
  <1>1. Down \in Daemon /\ DaemonOK(Down) /\ \A t \in Tuis : Down.hand[t] = "none"
    BY DownOK, Types
  <1>2. disk' \in DiskType
    BY Types
  <1>3. TypeInv'
    BY <1>1, <1>2, DaemonAlone
  <1> QED
    BY <1>3 DEF Vanishes

LEMMA ExitTo ==
    ASSUME TypeInv, NEW d \in Daemons, Exit(d)
    PROVE  Vanishes(d)
  <1>1. history' \in HistoryType /\ history'.got = history.got /\ history'.twins = history.twins
        /\ history'.settled = history.settled \cup Held(d)
    BY Holds, Types DEF Exit, HistoryType
  <1>2. socket' \in [exists : BOOLEAN, by : Daemons \cup {Nobody}] /\ socket'.by = Nobody
    BY DEF Exit, NoFile
  <1> QED
    BY <1>1, <1>2, DownTo DEF Exit

LEMMA CrashTo ==
    ASSUME TypeInv, NEW d \in Daemons, Crash(d)
    PROVE  Vanishes(d)
  <1>1. PICK h \in HistoryType : /\ h = [history EXCEPT !.ends = @ - 1]
                                 /\ h.got = history.got /\ h.settled = history.settled
                                 /\ h.twins = history.twins
    BY Ends DEF Crash
  <1>2. history' = [h EXCEPT !.settled = @ \cup Held(d)]
    BY <1>1, Types DEF Crash, HistoryType
  <1>3. history' \in HistoryType /\ history'.got = history.got /\ history'.twins = history.twins
        /\ history'.settled = history.settled \cup Held(d)
    BY <1>1, <1>2, Holds DEF HistoryType
  <1>4. /\ socket' \in [exists : BOOLEAN, by : Daemons \cup {Nobody}]
        /\ socket'.by = Nobody \/ (socket'.by = socket.by /\ socket.by # d)
    BY Types DEF Crash
  <1> QED
    BY <1>3, <1>4, DownTo DEF Crash

-----------------------------------------------------------------------------
(* Handlers.                                                               *)

Hands == [Tuis -> {"none", "new", "registered", "flushing", "live"}]
Registry == [Tuis -> Addresses \cup {Nobody}]
Flushes == [Tuis -> Seq(Updates)]
Outbounds == [Tuis -> Queue]

Handled(c, timer, hand, address, flush, outbound, target) ==
    [c EXCEPT !.timer = timer, !.hand = hand, !.address = address, !.flush = flush,
              !.outbound = outbound, !.target = target]

LEMMA HandledFields ==
    ASSUME NEW c \in Daemon, NEW timer \in Timers, NEW hand \in Hands, NEW address \in Registry,
           NEW flush \in Flushes, NEW outbound \in Outbounds, NEW target \in Tuis \cup {Nobody}
    PROVE  LET n == Handled(c, timer, hand, address, flush, outbound, target)
           IN  /\ n \in Daemon /\ n.phase = c.phase /\ n.parent = c.parent /\ n.timer = timer
               /\ n.hand = hand /\ n.address = address /\ n.flush = flush
               /\ n.outbound = outbound /\ n.target = target
               /\ n.poll = c.poll /\ n.next = c.next /\ n.last = c.last /\ n.to = c.to
  <1> DEFINE P == Phases
             R == Tuis \cup {Nobody}
             N == 1..(Len(chat.sends) + 1)
             L == 0..Len(chat.sends)
             S == {"check", "mark", "route", "lookup", "push", "queue"}
             B == Addresses \cup {Nobody}
  <1>1. Daemon = [phase : P, parent : R, timer : Timers, hand : Hands, address : Registry,
                  flush : Flushes, outbound : Outbounds, next : N, last : L, poll : S,
                  to : B, target : R]
    BY DEF Daemon, Phases, Timers, Hands, Registry, Flushes, Outbounds
  <1>2. target \in R
    OBVIOUS
  <1> HIDE DEF P, R, N, L, S, B
  <1> QED
    BY <1>1, <1>2 DEF Handled

\* The fields as a step of a handler finds them.
LEMMA HandledAt ==
    ASSUME TypeInv, NEW d \in Daemons
    PROVE  LET c == daemons[d]
           IN  /\ c.timer \in Timers /\ c.hand \in Hands /\ c.address \in Registry
               /\ c.flush \in Flushes /\ c.outbound \in Outbounds
               /\ c.target \in Tuis \cup {Nobody}
               /\ c.poll \in {"check", "mark", "route", "lookup", "push", "queue"}
               /\ c.next \in Nat /\ c.last \in Nat /\ c.to \in Addresses \cup {Nobody}
  BY DaemonAt, Bounds, Types DEF Daemon, Timers, Hands, Registry, Flushes, Outbounds

\* A step of the handler of t: all of d but t's connection is as it was, except
\* that the poll loop's target may be gone.
Handling(d, t, n) ==
    LET c == daemons[d]
    IN  /\ daemons' = [daemons EXCEPT ![d] = n] /\ n \in Daemon
        /\ n.phase = c.phase /\ n.poll = c.poll /\ n.next = c.next
        /\ \A s \in Tuis : s # t =>
              /\ n.hand[s] = c.hand[s] /\ n.address[s] = c.address[s]
              /\ n.flush[s] = c.flush[s] /\ n.outbound[s] = c.outbound[s]

\* A handler's step keeps the daemon's fields fitting each other.
LEMMA HandlerOK ==
    ASSUME TypeInv, NEW d \in Daemons, NEW c \in Daemon, c = daemons[d], NEW t \in Tuis,
           NEW n \in Daemon,
           c.phase \in {"serving", "closing"}, n.phase = c.phase,
           n.poll = c.poll, n.next = c.next, n.last = c.last, n.to = c.to,
           n.target \in {Nobody, c.target},
           \A s \in Tuis : s # t =>
              /\ n.hand[s] = c.hand[s] /\ n.address[s] = c.address[s]
              /\ n.flush[s] = c.flush[s] /\ n.outbound[s] = c.outbound[s],
           n.hand[t] \in {"none", "new"} <=> n.address[t] = Nobody,
           n.address[t] = Nobody => n.outbound[t] = <<>> /\ n.target # t,
           n.hand[t] = "flushing" <=> n.flush[t] # <<>>,
           n.address[t] = Nobody \/ n.address[t] = c.address[t]
              \/ (\A s \in Tuis : c.address[s] # n.address[t])
    PROVE  DaemonOK(n)
  <1>1. DaemonOK(c)
    BY DaemonAt
  <1>2. n.poll # "check" => n.next <= n.last
    BY <1>1 DEF DaemonOK
  <1>3. n.poll = "lookup" => n.to # Nobody
    BY <1>1 DEF DaemonOK
  <1>4. n.target # Nobody => n.address[n.target] # Nobody
    <2>1. CASE n.target = t
      BY <2>1
    <2>2. CASE n.target # t /\ n.target # Nobody
      <3>1. n.target = c.target /\ c.target \in Tuis /\ c.address[c.target] # Nobody
        BY <1>1, <2>2 DEF DaemonOK, Daemon
      <3> QED
        BY <2>2, <3>1
    <2> QED
      BY <2>1, <2>2
  <1>5. ASSUME NEW s \in Tuis
        PROVE  /\ n.hand[s] \in {"none", "new"} <=> n.address[s] = Nobody
               /\ n.address[s] = Nobody => n.outbound[s] = <<>>
               /\ n.hand[s] = "flushing" <=> n.flush[s] # <<>>
    <2>1. CASE s = t
      BY <2>1
    <2>2. CASE s # t
      BY <1>1, <2>2 DEF DaemonOK
    <2> QED
      BY <2>1, <2>2
  <1>6. ASSUME NEW r \in Tuis, NEW s \in Tuis,
               n.address[r] = n.address[s], n.address[r] # Nobody
        PROVE  r = s
    <2>1. CASE r # t /\ s # t
      BY <1>1, <1>6, <2>1 DEF DaemonOK
    <2>2. CASE r = t /\ s # t
      BY <1>1, <1>6, <2>2 DEF DaemonOK
    <2>3. CASE r # t /\ s = t
      BY <1>1, <1>6, <2>3 DEF DaemonOK
    <2> QED
      BY <2>1, <2>2, <2>3
  <1> QED
    BY <1>2, <1>3, <1>4, <1>5, <1>6 DEF DaemonOK

LEMMA RegisterTo ==
    ASSUME TypeInv, NEW d \in Daemons, NEW t \in Tuis, Register(d, t)
    PROVE  /\ TypeInv' /\ UNCHANGED <<chat, history>>
           /\ disk'.rows = disk.rows /\ disk'.seen = disk.seen
           /\ \E n \in Daemon :
                 /\ Handling(d, t, n)
                 /\ n.flush[t] = <<>> /\ n.outbound[t] = <<>>
                 /\ daemons[d].flush[t] = <<>> /\ daemons[d].outbound[t] = <<>>
  <1> DEFINE a == FreeAddress(d)
  <1>1. PICK c \in Daemon : c = daemons[d] /\ DaemonOK(c)
    BY DaemonAt
  <1>2. /\ c.timer \in Timers /\ c.hand \in Hands /\ c.address \in Registry
        /\ c.flush \in Flushes /\ c.outbound \in Outbounds /\ c.target \in Tuis \cup {Nobody}
    BY <1>1, HandledAt
  <1>3. c.hand[t] = "new" /\ c.address[t] = Nobody /\ c.phase = "serving"
    BY <1>1 DEF Register, DaemonOK
  <1>4. c.outbound[t] = <<>> /\ c.flush[t] = <<>>
    BY <1>1, <1>3 DEF DaemonOK
  <1>5. a \in Addresses /\ a # Nobody /\ \A s \in Tuis : c.address[s] # a
    BY <1>1, <1>3, AddressFree, Types
  <1> HIDE DEF a
  <1>6. PICK hand \in Hands : hand = [c.hand EXCEPT ![t] = "registered"]
    BY <1>2 DEF Hands
  <1>7. hand[t] = "registered" /\ \A s \in Tuis : s # t => hand[s] = c.hand[s]
    BY <1>2, <1>6 DEF Hands
  <1>8. PICK address \in Registry : address = [c.address EXCEPT ![t] = a]
    BY <1>2, <1>5 DEF Registry
  <1>9. address[t] = a /\ \A s \in Tuis : s # t => address[s] = c.address[s]
    BY <1>2, <1>8 DEF Registry
  <1>10. PICK timer \in Timers : timer = IF c.timer = "armed" THEN "off" ELSE c.timer
    BY <1>2 DEF Timers
  <1>11. PICK n \in Daemon :
            /\ n = Handled(c, timer, hand, address, c.flush, c.outbound, c.target)
            /\ n.phase = c.phase /\ n.hand = hand /\ n.address = address
            /\ n.flush = c.flush /\ n.outbound = c.outbound /\ n.target = c.target
            /\ n.poll = c.poll /\ n.next = c.next /\ n.last = c.last /\ n.to = c.to
    BY <1>2, HandledFields
  <1>12. daemons' = [daemons EXCEPT ![d] = n]
    <2>1. [c EXCEPT !.hand = hand, !.address = address, !.timer = timer] = n
      BY <1>11 DEF Handled, Daemon
    <2>2. daemons' = [daemons EXCEPT ![d] =
             [c EXCEPT !.hand = [@ EXCEPT ![t] = "registered"],
                       !.address = [@ EXCEPT ![t] = a],
                       !.timer = IF @ = "armed" THEN "off" ELSE @]]
      BY <1>1 DEF Register, a
    <2> QED
      BY <1>6, <1>8, <1>10, <2>1, <2>2
  <1>13. DaemonOK(n)
    <2>1. n.hand[t] = "registered" /\ n.address[t] = a /\ n.flush[t] = <<>>
      BY <1>4, <1>7, <1>9, <1>11
    <2>2. \A s \in Tuis : s # t =>
             /\ n.hand[s] = c.hand[s] /\ n.address[s] = c.address[s]
             /\ n.flush[s] = c.flush[s] /\ n.outbound[s] = c.outbound[s]
      BY <1>7, <1>9, <1>11
    <2> QED
      BY <1>1, <1>3, <1>5, <1>11, <2>1, <2>2, HandlerOK
  <1>14. disk' \in DiskType /\ disk'.rows = disk.rows /\ disk'.seen = disk.seen
    <2>1. disk' = [disk EXCEPT !.known = @ \cup {a}]
      BY DEF Register, a
    <2> QED
      BY <1>5, <2>1, Types DEF DiskType
  <1>15. /\ tuis' \in TuisType
         /\ \A s \in Tuis :
               /\ tuis'[s].at = tuis[s].at
               /\ tuis'[s].state = tuis[s].state
                    \/ (s = t /\ tuis[t].at = d /\ tuis'[t].state = "connected")
    <2>1. CASE tuis[t].at = d
      <3>1. PICK r : r = [tuis[t] EXCEPT !.state = "connected"]
        OBVIOUS
      <3>2. /\ r \in [state : {"new", "searching", "waiting", "connected", "gone"},
                      at : Daemons \cup {Nobody}]
            /\ r.at = tuis[t].at /\ r.state = "connected"
        BY <3>1, Types DEF TuisType
      <3>3. tuis' = [tuis EXCEPT ![t] = r]
        BY <2>1, <3>1 DEF Register
      <3> QED
        BY <2>1, <3>2, <3>3, Types DEF TuisType
    <2>2. CASE tuis[t].at # d
      <3>1. tuis' = tuis
        BY <2>2 DEF Register
      <3> QED
        BY <3>1, Types
    <2> QED
      BY <2>1, <2>2
  <1>16. ASSUME NEW s \in Tuis
         PROVE  /\ tuis'[s].at # Nobody => tuis'[s].state \in {"waiting", "connected"}
                /\ n.hand[s] # "none" => tuis'[s].at = d \/ tuis'[s].state = "gone"
                /\ \A e \in Daemons : tuis[s].at = e => tuis'[s].at = e
                /\ tuis[s].state = "gone" => tuis'[s].state = "gone"
    <2>1. n.hand[s] # "none" => tuis[s].at = d \/ tuis[s].state = "gone"
      BY <1>1, <1>3, <1>7, <1>11 DEF TypeInv
    <2>2. tuis[s].at = d => tuis[s].state # "gone"
      BY Types DEF TypeInv
    <2> QED
      BY <1>15, <2>1, <2>2 DEF TypeInv
  <1>17. chat' = chat /\ history' = history /\ socket' = socket
    BY DEF Register
  <1>18. TypeInv'
    <2>1. /\ history' \in HistoryType /\ chat'.sends = chat.sends
          /\ chat' \in [sends : {s.sends : s \in Scenarios}, confirmed : 0..Len(chat.sends)]
          /\ socket' \in [exists : BOOLEAN, by : Daemons \cup {Nobody}]
      BY <1>17, Types
    <2>2. \/ socket'.by = d /\ n.phase = "serving"
          \/ socket'.by = socket.by /\ socket.by # d
      BY <1>3, <1>11, <1>17
    <2> QED
      BY <1>12, <1>13, <1>14, <1>15, <1>16, <2>1, <2>2, TypeKept
         DEF DiskType, HistoryType, TuisType
  <1>19. Handling(d, t, n)
    BY <1>1, <1>7, <1>9, <1>11, <1>12 DEF Handling
  <1> QED
    BY <1>1, <1>4, <1>11, <1>14, <1>17, <1>18, <1>19

\* A connection that is being handled is one of a daemon that runs.
LEMMA Handles ==
    ASSUME TypeInv, NEW d \in Daemons, NEW t \in Tuis, daemons[d].hand[t] # "none"
    PROVE  Runs(d) /\ daemons[d].phase \in {"serving", "closing"}
  BY DaemonAt DEF DaemonOK, Runs

LEMMA HandlerAlone ==
    ASSUME TypeInv, UNCHANGED <<chat, socket, tuis>>, NEW d \in Daemons, NEW t \in Tuis,
           daemons[d].hand[t] # "none", NEW n, Handling(d, t, n), DaemonOK(n),
           disk' \in DiskType, history' \in HistoryType
    PROVE  TypeInv'
  <1>1. \A s \in Tuis : n.hand[s] # "none" => daemons[d].hand[s] # "none"
    BY DEF Handling
  <1>2. /\ n \in Daemon /\ daemons' = [daemons EXCEPT ![d] = n]
        /\ socket' \in [exists : BOOLEAN, by : Daemons \cup {Nobody}]
        /\ socket'.by = socket.by /\ (socket.by = d => n.phase = daemons[d].phase)
    BY Types DEF Handling
  <1> QED
    BY <1>1, <1>2, DaemonAlone

LEMMA ReadPendingTo ==
    ASSUME TypeInv, NEW d \in Daemons, NEW t \in Tuis, ReadPending(d, t)
    PROVE  /\ TypeInv' /\ UNCHANGED <<chat, disk, history>> /\ Runs(d)
           /\ daemons[d].address[t] # Nobody /\ daemons[d].flush[t] = <<>>
           /\ \E n \in Daemon :
                 /\ Handling(d, t, n)
                 /\ n.address[t] = daemons[d].address[t] /\ n.outbound[t] = daemons[d].outbound[t]
                 /\ IsInjective(n.flush[t])
                 /\ \A i \in DOMAIN n.flush[t] :
                       n.flush[t][i] \in PendingForAddress(daemons[d].address[t])
  <1>1. PICK c \in Daemon : c = daemons[d] /\ DaemonOK(c)
    BY DaemonAt
  <1>2. /\ c.timer \in Timers /\ c.hand \in Hands /\ c.address \in Registry
        /\ c.flush \in Flushes /\ c.outbound \in Outbounds /\ c.target \in Tuis \cup {Nobody}
    BY <1>1, HandledAt
  <1>3. c.hand[t] = "registered" /\ c.address[t] # Nobody /\ c.flush[t] = <<>>
    BY <1>1 DEF ReadPending, DaemonOK
  <1>4. Runs(d) /\ c.phase \in {"serving", "closing"}
    BY <1>1, <1>3, Handles
  <1>5. PICK us \in SUBSET Updates : us = PendingForAddress(c.address[t])
    BY DEF PendingForAddress
  <1>6. PICK s \in Seq(Updates) :
           /\ s = InOrder(us) /\ IsInjective(s) /\ (s = <<>> <=> us = {})
           /\ \A i \in DOMAIN s : s[i] \in us
    BY Flushed, Types
  <1>7. PICK step \in {"live", "flushing"} : step = IF us = {} THEN "live" ELSE "flushing"
    OBVIOUS
  <1>8. PICK hand \in Hands : hand = [c.hand EXCEPT ![t] = step]
    BY <1>2 DEF Hands
  <1>9. hand[t] = step /\ \A r \in Tuis : r # t => hand[r] = c.hand[r]
    BY <1>2, <1>8 DEF Hands
  <1>10. PICK flush \in Flushes : flush = [c.flush EXCEPT ![t] = s]
    BY <1>2 DEF Flushes
  <1>11. flush[t] = s /\ \A r \in Tuis : r # t => flush[r] = c.flush[r]
    BY <1>2, <1>10 DEF Flushes
  <1>12. PICK n \in Daemon :
            /\ n = Handled(c, c.timer, hand, c.address, flush, c.outbound, c.target)
            /\ n.phase = c.phase /\ n.hand = hand /\ n.address = c.address
            /\ n.flush = flush /\ n.outbound = c.outbound /\ n.target = c.target
            /\ n.poll = c.poll /\ n.next = c.next /\ n.last = c.last /\ n.to = c.to
    BY <1>2, HandledFields
  <1>13. daemons' = [daemons EXCEPT ![d] = n]
    <2>1. [c EXCEPT !.hand = hand, !.flush = flush] = n
      BY <1>12 DEF Handled, Daemon
    <2>2. daemons' = [daemons EXCEPT ![d] =
             [c EXCEPT !.hand = [@ EXCEPT ![t] = step], !.flush = [@ EXCEPT ![t] = s]]]
      BY <1>1, <1>5, <1>6, <1>7 DEF ReadPending
    <2> QED
      BY <1>8, <1>10, <2>1, <2>2
  <1>14. DaemonOK(n)
    <2>1. /\ n.hand[t] = step /\ n.address[t] = c.address[t] /\ n.flush[t] = s
          /\ n.hand[t] = "flushing" <=> n.flush[t] # <<>>
      BY <1>6, <1>7, <1>9, <1>11, <1>12
    <2>2. \A r \in Tuis : r # t =>
             /\ n.hand[r] = c.hand[r] /\ n.address[r] = c.address[r]
             /\ n.flush[r] = c.flush[r] /\ n.outbound[r] = c.outbound[r]
      BY <1>9, <1>11, <1>12
    <2> QED
      BY <1>1, <1>3, <1>4, <1>12, <2>1, <2>2, HandlerOK
  <1>15. Handling(d, t, n)
    BY <1>1, <1>9, <1>11, <1>12, <1>13 DEF Handling
  <1>16. UNCHANGED <<chat, disk, socket, tuis, history>>
    BY DEF ReadPending
  <1>17. TypeInv'
    BY <1>1, <1>3, <1>14, <1>15, <1>16, HandlerAlone, Types
  <1> QED
    BY <1>1, <1>3, <1>4, <1>5, <1>6, <1>11, <1>12, <1>15, <1>16, <1>17

LEMMA DeliverTo ==
    ASSUME TypeInv, NEW d \in Daemons, NEW t \in Tuis, Deliver(d, t)
    PROVE  /\ TypeInv' /\ UNCHANGED <<chat, disk>> /\ Runs(d)
           /\ history'.settled = history.settled /\ history'.twins = history.twins
           /\ daemons[d].outbound[t] # <<>> /\ daemons[d].outbound[t] \in Seq(Updates)
           /\ \E u \in Updates, n \in Daemon :
                 /\ u = Head(daemons[d].outbound[t])
                 /\ Handling(d, t, n)
                 /\ n.address[t] = daemons[d].address[t] /\ n.flush[t] = daemons[d].flush[t]
                 /\ n.outbound[t] = Tail(daemons[d].outbound[t])
                 /\ \A v \in Updates : v # u => history'.got[v] = history.got[v]
                 /\ history'.got[u] = IF history.got[u] = 2 THEN 2 ELSE history.got[u] + 1
  <1>1. PICK c \in Daemon : c = daemons[d] /\ DaemonOK(c)
    BY DaemonAt
  <1>2. /\ c.timer \in Timers /\ c.hand \in Hands /\ c.address \in Registry
        /\ c.flush \in Flushes /\ c.outbound \in Outbounds /\ c.target \in Tuis \cup {Nobody}
    BY <1>1, HandledAt
  <1>3. c.hand[t] = "live" /\ c.address[t] # Nobody /\ c.outbound[t] # <<>>
    BY <1>1 DEF Deliver, DaemonOK
  <1>4. Runs(d) /\ c.phase \in {"serving", "closing"}
    BY <1>1, <1>3, Handles
  <1>5. c.outbound[t] \in Seq(Updates) /\ Len(c.outbound[t]) <= Cap
    BY <1>2, Queues, Types DEF Outbounds
  <1>6. PICK u \in Updates : u = Head(c.outbound[t])
    BY <1>3, <1>5
  <1>7. PICK rest \in Queue : rest = Tail(c.outbound[t])
    <2>1. Tail(c.outbound[t]) \in Seq(Updates) /\ Len(Tail(c.outbound[t])) <= Cap
      BY <1>3, <1>5, Bounds, Types
    <2> QED
      BY <2>1, Queues, Types
  <1>8. PICK outbound \in Outbounds : outbound = [c.outbound EXCEPT ![t] = rest]
    BY <1>2 DEF Outbounds
  <1>9. outbound[t] = rest /\ \A r \in Tuis : r # t => outbound[r] = c.outbound[r]
    BY <1>2, <1>8 DEF Outbounds
  <1>10. PICK n \in Daemon :
            /\ n = Handled(c, c.timer, c.hand, c.address, c.flush, outbound, c.target)
            /\ n.phase = c.phase /\ n.hand = c.hand /\ n.address = c.address
            /\ n.flush = c.flush /\ n.outbound = outbound /\ n.target = c.target
            /\ n.poll = c.poll /\ n.next = c.next /\ n.last = c.last /\ n.to = c.to
    BY <1>2, HandledFields
  <1>11. daemons' = [daemons EXCEPT ![d] = n]
    <2>1. [c EXCEPT !.outbound = outbound] = n
      BY <1>10 DEF Handled, Daemon
    <2>2. daemons' = [daemons EXCEPT ![d] = [c EXCEPT !.outbound = [@ EXCEPT ![t] = rest]]]
      BY <1>1, <1>7 DEF Deliver
    <2> QED
      BY <1>8, <2>1, <2>2
  <1>12. DaemonOK(n)
    <2>1. /\ n.hand[t] = c.hand[t] /\ n.address[t] = c.address[t] /\ n.flush[t] = c.flush[t]
          /\ c.flush[t] = <<>>
      BY <1>1, <1>3, <1>10 DEF DaemonOK
    <2>2. \A r \in Tuis : r # t =>
             /\ n.hand[r] = c.hand[r] /\ n.address[r] = c.address[r]
             /\ n.flush[r] = c.flush[r] /\ n.outbound[r] = c.outbound[r]
      BY <1>9, <1>10
    <2> QED
      BY <1>1, <1>3, <1>4, <1>10, <2>1, <2>2, HandlerOK
  <1>13. Handling(d, t, n)
    BY <1>1, <1>9, <1>10, <1>11 DEF Handling
  <1>14. UNCHANGED <<chat, disk, socket, tuis>>
    BY DEF Deliver
  <1>15. PICK more \in 0..2 : more = IF history.got[u] = 2 THEN 2 ELSE history.got[u] + 1
    BY Types DEF HistoryType
  <1>16. history' = [history EXCEPT !.got = [@ EXCEPT ![u] = more]]
    BY <1>1, <1>6, <1>15 DEF Deliver
  <1>17. /\ history' \in HistoryType
         /\ history'.settled = history.settled /\ history'.twins = history.twins
         /\ \A v \in Updates : v # u => history'.got[v] = history.got[v]
         /\ history'.got[u] = more
    BY <1>16, Types DEF HistoryType
  <1>18. TypeInv'
    BY <1>1, <1>3, <1>12, <1>13, <1>14, <1>17, HandlerAlone, Types
  <1> QED
    <2>1. n.address[t] = c.address[t] /\ n.flush[t] = c.flush[t] /\ n.outbound[t] = rest
      BY <1>9, <1>10
    <2> QED
      BY <1>1, <1>3, <1>4, <1>5, <1>6, <1>7, <1>13, <1>14, <1>15, <1>17, <1>18, <2>1

LEMMA TailOf ==
    ASSUME NEW S, NEW s \in Seq(S), s # <<>>
    PROVE  /\ Head(s) \in S /\ Head(s) = s[1] /\ Len(s) \in Nat /\ Len(s) >= 1
           /\ Tail(s) \in Seq(S) /\ Len(Tail(s)) = Len(s) - 1
           /\ Tail(s) = <<>> <=> Len(s) = 1
           /\ \A i \in 1..(Len(s) - 1) : Tail(s)[i] = s[i + 1]
  <1>1. Len(s) \in Nat /\ Len(s) # 0 /\ Head(s) = s[1]
    BY EmptySeq
  <1>2. Tail(s) \in Seq(S) /\ Len(Tail(s)) = Len(s) - 1
    OBVIOUS
  <1>3. Tail(s) = <<>> <=> Len(Tail(s)) = 0
    BY <1>2, EmptySeq
  <1>4. \A i \in 1..(Len(s) - 1) : Tail(s)[i] = s[i + 1]
    OBVIOUS
  <1> QED
    BY <1>1, <1>2, <1>3, <1>4

LEMMA FlushOneTo ==
    ASSUME TypeInv, NEW d \in Daemons, NEW t \in Tuis, FlushOne(d, t)
    PROVE  /\ TypeInv' /\ UNCHANGED chat /\ Runs(d)
           /\ history'.got = history.got /\ history'.twins = history.twins
           /\ disk'.seen = disk.seen
           /\ daemons[d].flush[t] # <<>> /\ daemons[d].flush[t] \in Seq(Updates)
           /\ daemons[d].outbound[t] \in Seq(Updates)
           /\ \E u \in Updates, n \in Daemon :
                 /\ u = Head(daemons[d].flush[t])
                 /\ disk'.rows[u].status = "delivered"
                 /\ \A v \in Updates : v # u => disk'.rows[v] = disk.rows[v]
                 /\ Handling(d, t, n)
                 /\ n.address[t] = daemons[d].address[t]
                 /\ n.flush[t] = Tail(daemons[d].flush[t])
                 /\ \/ /\ n.outbound[t] = daemons[d].outbound[t]
                       /\ history'.settled = history.settled \cup {u}
                    \/ /\ n.outbound[t] = Append(daemons[d].outbound[t], u)
                       /\ history'.settled = history.settled
  <1>1. PICK c \in Daemon : c = daemons[d] /\ DaemonOK(c)
    BY DaemonAt
  <1>2. /\ c.timer \in Timers /\ c.hand \in Hands /\ c.address \in Registry
        /\ c.flush \in Flushes /\ c.outbound \in Outbounds /\ c.target \in Tuis \cup {Nobody}
    BY <1>1, HandledAt
  <1>3. c.hand[t] = "flushing" /\ c.address[t] # Nobody /\ c.flush[t] # <<>>
    BY <1>1 DEF FlushOne, DaemonOK
  <1>4. Runs(d) /\ c.phase \in {"serving", "closing"}
    BY <1>1, <1>3, Handles
  <1>5. c.outbound[t] \in Seq(Updates) /\ Len(c.outbound[t]) <= Cap
    BY <1>2, Queues, Types DEF Outbounds
  <1>6. c.flush[t] \in Seq(Updates)
    BY <1>2 DEF Flushes
  <1>7. PICK u \in Updates : u = Head(c.flush[t])
    BY <1>3, <1>6
  <1>8. PICK rest \in Seq(Updates) :
           rest = Tail(c.flush[t]) /\ (rest = <<>> <=> Len(c.flush[t]) = 1)
    BY <1>3, <1>6, TailOf
  <1>9. PICK flush \in Flushes : flush = [c.flush EXCEPT ![t] = rest]
    BY <1>2 DEF Flushes
  <1>10. flush[t] = rest /\ \A r \in Tuis : r # t => flush[r] = c.flush[r]
    BY <1>2, <1>9 DEF Flushes
  <1>11. PICK step \in {"live", "flushing"} :
            step = IF Len(c.flush[t]) = 1 THEN "live" ELSE "flushing"
    OBVIOUS
  <1>12. PICK hand \in Hands : hand = [c.hand EXCEPT ![t] = step]
    BY <1>2 DEF Hands
  <1>13. hand[t] = step /\ \A r \in Tuis : r # t => hand[r] = c.hand[r]
    BY <1>2, <1>12 DEF Hands
  <1>14. PICK more \in Queue :
            more = IF Full(d, t) THEN c.outbound[t] ELSE Append(c.outbound[t], u)
    <2>1. CASE Full(d, t)
      BY <1>5, <2>1, Queues, Types
    <2>2. CASE ~Full(d, t)
      <3>1. Len(c.outbound[t]) # Cap
        BY <1>1, <2>2 DEF Full
      <3>2. /\ Append(c.outbound[t], u) \in Seq(Updates)
            /\ Len(Append(c.outbound[t], u)) <= Cap
        BY <1>5, <3>1, Bounds, Types
      <3> QED
        BY <2>2, <3>2, Queues, Types
    <2> QED
      BY <2>1, <2>2
  <1>15. PICK outbound \in Outbounds : outbound = [c.outbound EXCEPT ![t] = more]
    BY <1>2 DEF Outbounds
  <1>16. outbound[t] = more /\ \A r \in Tuis : r # t => outbound[r] = c.outbound[r]
    BY <1>2, <1>15 DEF Outbounds
  <1>17. PICK n \in Daemon :
            /\ n = Handled(c, c.timer, hand, c.address, flush, outbound, c.target)
            /\ n.phase = c.phase /\ n.hand = hand /\ n.address = c.address
            /\ n.flush = flush /\ n.outbound = outbound /\ n.target = c.target
            /\ n.poll = c.poll /\ n.next = c.next /\ n.last = c.last /\ n.to = c.to
    BY <1>2, HandledFields
  <1>18. daemons' = [daemons EXCEPT ![d] = n]
    <2>1. [c EXCEPT !.flush = flush, !.hand = hand, !.outbound = outbound] = n
      BY <1>17 DEF Handled, Daemon
    <2>2. daemons' = [daemons EXCEPT
             ![d].flush[t] = Tail(@),
             ![d].hand[t] = IF Len(daemons[d].flush[t]) = 1 THEN "live" ELSE @,
             ![d].outbound[t] = IF Full(d, t) THEN @ ELSE Append(@, Head(daemons[d].flush[t]))]
      BY Zenon DEF FlushOne
    <2>3. PICK full \in BOOLEAN : full = Full(d, t)
      BY DEF Full
    <2>4. daemons' = [daemons EXCEPT ![d] =
             [c EXCEPT !.flush = [c.flush EXCEPT ![t] = Tail(c.flush[t])],
                       !.hand = [c.hand EXCEPT ![t] =
                                    IF Len(c.flush[t]) = 1 THEN "live" ELSE c.hand[t]],
                       !.outbound = [c.outbound EXCEPT ![t] =
                                        IF full THEN c.outbound[t]
                                        ELSE Append(c.outbound[t], Head(c.flush[t]))]]]
      BY <1>1, <2>2, <2>3 DEF Daemon
    <2>5. (IF Len(c.flush[t]) = 1 THEN "live" ELSE c.hand[t]) = step
      BY <1>3, <1>11
    <2>6. (IF full THEN c.outbound[t] ELSE Append(c.outbound[t], Head(c.flush[t]))) = more
      BY <1>7, <1>14, <2>3
    <2>7. daemons' = [daemons EXCEPT ![d] =
             [c EXCEPT !.flush = flush, !.hand = hand, !.outbound = outbound]]
      BY <1>8, <1>9, <1>12, <1>15, <2>4, <2>5, <2>6
    <2> QED
      BY <2>1, <2>7
  <1>19. DaemonOK(n)
    <2>1. /\ n.hand[t] = step /\ n.address[t] = c.address[t] /\ n.flush[t] = rest
          /\ n.hand[t] = "flushing" <=> n.flush[t] # <<>>
      BY <1>8, <1>10, <1>11, <1>13, <1>17
    <2>2. \A r \in Tuis : r # t =>
             /\ n.hand[r] = c.hand[r] /\ n.address[r] = c.address[r]
             /\ n.flush[r] = c.flush[r] /\ n.outbound[r] = c.outbound[r]
      BY <1>10, <1>13, <1>16, <1>17
    <2> QED
      BY <1>1, <1>3, <1>4, <1>11, <1>17, <2>1, <2>2, HandlerOK
  <1>20. Handling(d, t, n)
    BY <1>1, <1>10, <1>13, <1>16, <1>17, <1>18 DEF Handling
  <1>21. UNCHANGED <<chat, socket, tuis>>
    BY DEF FlushOne
  <1>22. /\ disk' \in DiskType /\ disk'.seen = disk.seen /\ disk'.rows[u].status = "delivered"
         /\ \A v \in Updates : v # u => disk'.rows[v] = disk.rows[v]
    <2>1. PICK old \in Row : old = disk.rows[u]
      BY Types DEF DiskType
    <2>2. PICK row : row = [old EXCEPT !.status = "delivered"]
      OBVIOUS
    <2>3. row \in Row /\ row.status = "delivered"
      <3>1. PICK to \in Addresses \cup {Nobody} : to = old.to
        BY DEF Row
      <3>2. row = [status |-> "delivered", to |-> to]
        BY <2>2, <3>1 DEF Row
      <3> QED
        BY <3>2 DEF Row
    <2>4. disk' = [disk EXCEPT !.rows = [@ EXCEPT ![u] = row]]
      BY <1>1, <1>7, <2>1, <2>2 DEF FlushOne
    <2> QED
      BY <2>3, <2>4, Types DEF DiskType
  <1>23. /\ history' \in HistoryType
         /\ history'.got = history.got /\ history'.twins = history.twins
         /\ \/ more = c.outbound[t] /\ history'.settled = history.settled \cup {u}
            \/ more = Append(c.outbound[t], u) /\ history'.settled = history.settled
    <2>1. CASE Full(d, t)
      <3>1. history' = [history EXCEPT !.settled = @ \cup {u}]
        BY <1>1, <1>7, <2>1 DEF FlushOne
      <3> QED
        BY <1>14, <2>1, <3>1, Types DEF HistoryType
    <2>2. CASE ~Full(d, t)
      <3>1. history' = history
        BY <2>2 DEF FlushOne
      <3> QED
        BY <1>14, <2>2, <3>1, Types
    <2> QED
      BY <2>1, <2>2
  <1>24. TypeInv'
    BY <1>1, <1>3, <1>19, <1>20, <1>21, <1>22, <1>23, HandlerAlone
  <1>25. /\ n.outbound[t] = more /\ n.flush[t] = rest /\ n.address[t] = c.address[t]
    BY <1>10, <1>16, <1>17
  <1> QED
    BY <1>1, <1>3, <1>4, <1>5, <1>6, <1>7, <1>8, <1>20, <1>21, <1>22, <1>23, <1>24, <1>25

LEMMA EndHandlerTo ==
    ASSUME TypeInv, NEW d \in Daemons, NEW t \in Tuis, EndHandler(d, t)
    PROVE  /\ TypeInv' /\ UNCHANGED <<chat, disk>> /\ Runs(d)
           /\ history'.got = history.got /\ history'.twins = history.twins
           /\ history'.settled = history.settled \cup Range(daemons[d].outbound[t])
           /\ daemons[d].flush[t] = <<>>
           /\ \E n \in Daemon :
                 Handling(d, t, n) /\ n.flush[t] = <<>> /\ n.outbound[t] = <<>>
  <1>1. PICK c \in Daemon : c = daemons[d] /\ DaemonOK(c)
    BY DaemonAt
  <1>2. /\ c.timer \in Timers /\ c.hand \in Hands /\ c.address \in Registry
        /\ c.flush \in Flushes /\ c.outbound \in Outbounds /\ c.target \in Tuis \cup {Nobody}
    BY <1>1, HandledAt
  <1>3. c.hand[t] \in {"new", "registered", "live"} /\ c.flush[t] = <<>>
    BY <1>1 DEF EndHandler, DaemonOK
  <1>4. Runs(d) /\ c.phase \in {"serving", "closing"}
    BY <1>1, <1>3, Handles
  <1>5. PICK hand \in Hands : hand = [c.hand EXCEPT ![t] = "none"]
    BY <1>2 DEF Hands
  <1>6. hand[t] = "none" /\ \A r \in Tuis : r # t => hand[r] = c.hand[r]
    BY <1>2, <1>5 DEF Hands
  <1>7. PICK address \in Registry : address = [c.address EXCEPT ![t] = Nobody]
    BY <1>2 DEF Registry
  <1>8. address[t] = Nobody /\ \A r \in Tuis : r # t => address[r] = c.address[r]
    BY <1>2, <1>7 DEF Registry
  <1>9. <<>> \in Queue
    <2>1. <<>> \in Seq(Updates) /\ Len(<<>>) <= Cap
      BY Bounds, Types, EmptySeq
    <2> QED
      BY <2>1, Queues, Types
  <1>10. PICK outbound \in Outbounds : outbound = [c.outbound EXCEPT ![t] = <<>>]
    BY <1>2, <1>9 DEF Outbounds
  <1>11. outbound[t] = <<>> /\ \A r \in Tuis : r # t => outbound[r] = c.outbound[r]
    BY <1>2, <1>10 DEF Outbounds
  <1>12. PICK target \in Tuis \cup {Nobody} : target = IF c.target = t THEN Nobody ELSE c.target
    BY <1>2
  <1>13. PICK timer \in Timers :
            timer = IF c.timer = "off" /\ c.phase = "serving" /\ Clients(d) = {t}
                    THEN "armed" ELSE c.timer
    BY <1>2 DEF Timers
  <1>14. PICK n \in Daemon :
            /\ n = Handled(c, timer, hand, address, c.flush, outbound, target)
            /\ n.phase = c.phase /\ n.hand = hand /\ n.address = address
            /\ n.flush = c.flush /\ n.outbound = outbound /\ n.target = target
            /\ n.poll = c.poll /\ n.next = c.next /\ n.last = c.last /\ n.to = c.to
    BY <1>2, HandledFields
  <1>15. daemons' = [daemons EXCEPT ![d] = n]
    <2>1. [c EXCEPT !.hand = hand, !.address = address, !.outbound = outbound,
                    !.target = target, !.timer = timer] = n
      BY <1>14 DEF Handled, Daemon
    <2>2. daemons' = [daemons EXCEPT
             ![d].hand[t] = "none", ![d].address[t] = Nobody, ![d].outbound[t] = <<>>,
             ![d].target = IF @ = t THEN Nobody ELSE @,
             ![d].timer = IF @ = "off" /\ daemons[d].phase = "serving" /\ Clients(d) = {t}
                          THEN "armed" ELSE @]
      BY Zenon DEF EndHandler
    <2>3. PICK last \in BOOLEAN : last = (daemons[d].phase = "serving" /\ Clients(d) = {t})
      OBVIOUS
    <2>4. daemons' = [daemons EXCEPT ![d] =
             [c EXCEPT !.hand = [c.hand EXCEPT ![t] = "none"],
                       !.address = [c.address EXCEPT ![t] = Nobody],
                       !.outbound = [c.outbound EXCEPT ![t] = <<>>],
                       !.target = IF c.target = t THEN Nobody ELSE c.target,
                       !.timer = IF c.timer = "off" /\ last THEN "armed" ELSE c.timer]]
      BY <1>1, <2>2, <2>3 DEF Daemon
    <2>5. (IF c.timer = "off" /\ last THEN "armed" ELSE c.timer) = timer
      BY <1>1, <1>13, <2>3
    <2> QED
      BY <1>5, <1>7, <1>10, <1>12, <2>1, <2>4, <2>5
  <1>16. DaemonOK(n)
    <2>1. /\ n.hand[t] = "none" /\ n.address[t] = Nobody /\ n.flush[t] = <<>>
          /\ n.outbound[t] = <<>> /\ n.target # t
      BY <1>3, <1>6, <1>8, <1>11, <1>12, <1>14, Types
    <2>2. \A r \in Tuis : r # t =>
             /\ n.hand[r] = c.hand[r] /\ n.address[r] = c.address[r]
             /\ n.flush[r] = c.flush[r] /\ n.outbound[r] = c.outbound[r]
      BY <1>6, <1>8, <1>11, <1>14
    <2> QED
      BY <1>1, <1>4, <1>12, <1>14, <2>1, <2>2, HandlerOK
  <1>17. Handling(d, t, n)
    BY <1>1, <1>6, <1>8, <1>11, <1>14, <1>15 DEF Handling
  <1>18. UNCHANGED <<chat, disk, socket, tuis>>
    BY DEF EndHandler
  <1>19. /\ history' \in HistoryType
         /\ history'.got = history.got /\ history'.twins = history.twins
         /\ history'.settled = history.settled \cup Range(c.outbound[t])
    <2>1. history' = [history EXCEPT !.settled = @ \cup Range(c.outbound[t])]
      BY <1>1 DEF EndHandler
    <2> QED
      BY <1>1, <2>1, Holds, Types DEF HistoryType
  <1>20. TypeInv'
    BY <1>1, <1>3, <1>16, <1>17, <1>18, <1>19, HandlerAlone, Types
  <1> QED
    BY <1>1, <1>3, <1>4, <1>11, <1>14, <1>17, <1>18, <1>19, <1>20

-----------------------------------------------------------------------------
(* The poll loop.                                                          *)

Steps == {"check", "mark", "route", "lookup", "push", "queue"}
Positions == 1..(Len(chat.sends) + 1)
Lasts == 0..Len(chat.sends)

Polled(c, next, last, poll, to, target, outbound) ==
    [c EXCEPT !.next = next, !.last = last, !.poll = poll, !.to = to, !.target = target,
              !.outbound = outbound]

LEMMA PolledFields ==
    ASSUME NEW c \in Daemon, NEW next \in Positions, NEW last \in Lasts, NEW poll \in Steps,
           NEW to \in Addresses \cup {Nobody}, NEW target \in Tuis \cup {Nobody},
           NEW outbound \in Outbounds
    PROVE  LET n == Polled(c, next, last, poll, to, target, outbound)
           IN  /\ n \in Daemon /\ n.phase = c.phase /\ n.parent = c.parent /\ n.timer = c.timer
               /\ n.hand = c.hand /\ n.address = c.address /\ n.flush = c.flush
               /\ n.outbound = outbound /\ n.target = target
               /\ n.poll = poll /\ n.next = next /\ n.last = last /\ n.to = to
  <1> DEFINE R == Tuis \cup {Nobody}
             B == Addresses \cup {Nobody}
  <1>1. Daemon = [phase : Phases, parent : R, timer : Timers, hand : Hands, address : Registry,
                  flush : Flushes, outbound : Outbounds, next : Positions, last : Lasts,
                  poll : Steps, to : B, target : R]
    BY DEF Daemon, Phases, Timers, Hands, Registry, Flushes, Outbounds, Steps, Positions, Lasts
  <1>2. target \in R /\ to \in B
    OBVIOUS
  <1> HIDE DEF R, B
  <1> QED
    BY <1>1, <1>2 DEF Polled

\* All of d but its poll loop, and a channel, is as it was.
Routing(d, n) ==
    LET c == daemons[d]
    IN  /\ daemons' = [daemons EXCEPT ![d] = n] /\ n \in Daemon
        /\ n.phase = c.phase /\ n.hand = c.hand /\ n.address = c.address /\ n.flush = c.flush

\* n is d in another step of its poll loop.
Becomes(d, n, next, poll, outbound) ==
    /\ n \in Daemon /\ DaemonOK(n)
    /\ n.phase = daemons[d].phase /\ n.hand = daemons[d].hand
    /\ n.address = daemons[d].address /\ n.flush = daemons[d].flush
    /\ n.outbound = outbound /\ n.poll = poll /\ n.next = next

LEMMA PolledOK ==
    ASSUME TypeInv, NEW d \in Daemons, Runs(d),
           NEW next \in Positions, NEW last \in Lasts, NEW poll \in Steps,
           NEW to \in Addresses \cup {Nobody}, NEW target \in Tuis \cup {Nobody},
           NEW outbound \in Outbounds,
           poll # "check" => next <= last,
           poll = "lookup" => to # Nobody,
           target # Nobody => daemons[d].address[target] # Nobody,
           \A t \in Tuis : daemons[d].address[t] = Nobody => outbound[t] = <<>>
    PROVE  Becomes(d, Polled(daemons[d], next, last, poll, to, target, outbound),
                   next, poll, outbound)
  <1>1. PICK c \in Daemon : c = daemons[d] /\ DaemonOK(c)
    BY DaemonAt
  <1>2. PICK n \in Daemon :
           /\ n = Polled(c, next, last, poll, to, target, outbound)
           /\ n.phase = c.phase /\ n.hand = c.hand /\ n.address = c.address
           /\ n.flush = c.flush /\ n.outbound = outbound /\ n.target = target
           /\ n.poll = poll /\ n.next = next /\ n.last = last /\ n.to = to
    BY PolledFields
  <1>3. c.phase \in {"serving", "closing"}
    BY <1>1 DEF Runs
  <1>4. \A t \in Tuis : /\ n.hand[t] \in {"none", "new"} <=> n.address[t] = Nobody
                        /\ n.address[t] = Nobody => n.outbound[t] = <<>>
                        /\ n.hand[t] = "flushing" <=> n.flush[t] # <<>>
    BY <1>1, <1>2 DEF DaemonOK
  <1>5. \A s, t \in Tuis : n.address[s] = n.address[t] /\ n.address[s] # Nobody => s = t
    BY <1>1, <1>2 DEF DaemonOK
  <1>6. n.target # Nobody => n.address[n.target] # Nobody
    BY <1>1, <1>2
  <1>7. DaemonOK(n)
    BY <1>2, <1>3, <1>4, <1>5, <1>6 DEF DaemonOK
  <1>8. Becomes(d, n, next, poll, outbound)
    BY <1>1, <1>2, <1>7 DEF Becomes
  <1> QED
    BY <1>1, <1>2, <1>8

LEMMA PollTo ==
    ASSUME TypeInv, UNCHANGED <<socket, tuis>>, NEW d \in Daemons, Runs(d),
           chat'.sends = chat.sends,
           chat' \in [sends : {s.sends : s \in Scenarios}, confirmed : 0..Len(chat.sends)],
           disk' \in DiskType, history' \in HistoryType,
           NEW n \in Daemon, DaemonOK(n), n.phase = daemons[d].phase,
           n.hand = daemons[d].hand, daemons' = [daemons EXCEPT ![d] = n]
    PROVE  TypeInv'
  <1>1. ASSUME NEW t \in Tuis
        PROVE  /\ tuis'[t].at # Nobody => tuis'[t].state \in {"waiting", "connected"}
               /\ n.hand[t] # "none" => tuis'[t].at = d \/ tuis'[t].state = "gone"
               /\ \A e \in Daemons : tuis[t].at = e => tuis'[t].at = e
               /\ tuis[t].state = "gone" => tuis'[t].state = "gone"
    BY DEF TypeInv
  <1>2. \/ socket'.by = Nobody
        \/ socket'.by = d /\ n.phase = "serving"
        \/ socket'.by = socket.by /\ socket.by # d
    BY Types DEF Listening
  <1>3. /\ socket' \in [exists : BOOLEAN, by : Daemons \cup {Nobody}] /\ tuis' \in TuisType
    BY Types
  <1> QED
    BY <1>1, <1>2, <1>3, TypeKept DEF DiskType, HistoryType, TuisType

\* What the poll loop's step finds.
LEMMA PolledAt ==
    ASSUME TypeInv, NEW d \in Daemons
    PROVE  LET c == daemons[d]
           IN  /\ c \in Daemon /\ DaemonOK(c)
               /\ c.next \in Positions /\ c.last \in Lasts /\ c.poll \in Steps
               /\ c.to \in Addresses \cup {Nobody} /\ c.target \in Tuis \cup {Nobody}
               /\ c.outbound \in Outbounds /\ c.address \in Registry
               /\ c.target # Nobody => c.address[c.target] # Nobody
               /\ \A t \in Tuis : c.address[t] = Nobody => c.outbound[t] = <<>>
  BY DaemonAt DEF Daemon, DaemonOK, Positions, Lasts, Steps, Outbounds, Registry

LEMMA PollsAt ==
    ASSUME TypeInv, NEW d \in Daemons, NEW s, At(d, s)
    PROVE  /\ Runs(d) /\ daemons[d].poll = s
           /\ Message(d) = daemons[d].next /\ Message(d) \in Updates
           /\ daemons[d].next <= daemons[d].last /\ daemons[d].next + 1 \in Positions
           /\ Sent(d) \in Input
  <1>1. daemons[d].next \in 1..(Len(chat.sends) + 1) /\ daemons[d].last \in 0..Len(chat.sends)
    BY DaemonAt DEF Daemon
  <1>2. Len(chat.sends) \in Nat
    BY Bounds, Types
  <1>3. daemons[d].next <= daemons[d].last
    BY <1>1, <1>2 DEF At, Polling
  <1>4. daemons[d].next \in Updates /\ daemons[d].next + 1 \in Positions
    BY <1>1, <1>2, <1>3 DEF Updates, Positions
  <1>5. Sent(d) \in Input
    BY <1>4, Bounds, Types DEF Sent, Message
  <1> QED
    BY <1>3, <1>4, <1>5 DEF At, Message

\* The loop goes on with the message, or to the next one.
LEMMA GoesIs ==
    ASSUME TypeInv, NEW d \in Daemons
    PROVE  LET c == daemons[d]
           IN  /\ \A s \in Steps : GoesTo(d, s) = [daemons EXCEPT ![d] =
                     Polled(c, c.next, c.last, s, c.to, c.target, c.outbound)]
               /\ GoesOn(d) = [daemons EXCEPT ![d] =
                     Polled(c, c.next + 1, c.last, "check", Nobody, Nobody, c.outbound)]
  <1>1. PICK c \in Daemon : c = daemons[d]
    BY DaemonAt
  <1>2. ASSUME NEW s \in Steps
        PROVE  GoesTo(d, s) = [daemons EXCEPT ![d] =
                     Polled(c, c.next, c.last, s, c.to, c.target, c.outbound)]
    <2>1. [c EXCEPT !.poll = s] = Polled(c, c.next, c.last, s, c.to, c.target, c.outbound)
      BY DEF Daemon, Polled
    <2>2. GoesTo(d, s) = [daemons EXCEPT ![d] = [c EXCEPT !.poll = s]]
      BY <1>1 DEF GoesTo
    <2> QED
      BY <2>1, <2>2
  <1>3. GoesOn(d) = [daemons EXCEPT ![d] =
                     Polled(c, c.next + 1, c.last, "check", Nobody, Nobody, c.outbound)]
    <2>1. [c EXCEPT !.next = c.next + 1, !.poll = "check", !.to = Nobody, !.target = Nobody]
          = Polled(c, c.next + 1, c.last, "check", Nobody, Nobody, c.outbound)
      BY DEF Daemon, Polled
    <2>2. GoesOn(d) = [daemons EXCEPT ![d] =
             [c EXCEPT !.next = c.next + 1, !.poll = "check", !.to = Nobody, !.target = Nobody]]
      BY <1>1 DEF GoesOn
    <2> QED
      BY <2>1, <2>2
  <1> QED
    BY <1>1, <1>2, <1>3

\* Another step with the same message.
LEMMA GoesToTo ==
    ASSUME TypeInv, UNCHANGED <<chat, socket, tuis>>, NEW d \in Daemons, NEW o, At(d, o),
           disk' \in DiskType, history' \in HistoryType,
           NEW s \in Steps, s # "lookup", daemons' = GoesTo(d, s)
    PROVE  /\ TypeInv'
           /\ \E n \in Daemon : /\ Routing(d, n) /\ n.outbound = daemons[d].outbound
                                /\ n.poll = s /\ n.next = daemons[d].next
  <1>1. PICK c \in Daemon : c = daemons[d]
    BY DaemonAt
  <1> DEFINE n == Polled(daemons[d], c.next, c.last, s, c.to, c.target, c.outbound)
  <1>2. Becomes(d, n, c.next, s, c.outbound)
    <2>1. /\ c.next \in Positions /\ c.last \in Lasts /\ c.outbound \in Outbounds /\ Runs(d)
          /\ c.to \in Addresses \cup {Nobody} /\ c.target \in Tuis \cup {Nobody}
          /\ c.target # Nobody => daemons[d].address[c.target] # Nobody
          /\ c.next <= c.last
      BY <1>1, PollsAt, PolledAt
    <2>2. \A t \in Tuis : daemons[d].address[t] = Nobody => c.outbound[t] = <<>>
      BY <1>1, PolledAt
    <2> QED
      BY <2>1, <2>2, PolledOK
  <1>3. daemons' = [daemons EXCEPT ![d] = n]
    BY <1>1, GoesIs
  <1> HIDE DEF n
  <1>4. Runs(d) /\ chat'.sends = chat.sends
    BY PollsAt
  <1>5. TypeInv'
    BY <1>2, <1>3, <1>4, Types, PollTo DEF Becomes
  <1> QED
    BY <1>1, <1>2, <1>3, <1>5 DEF Routing, Becomes

\* The next message.
LEMMA GoesOnTo ==
    ASSUME TypeInv, UNCHANGED <<chat, socket, tuis>>, NEW d \in Daemons, NEW o, At(d, o),
           disk' \in DiskType, history' \in HistoryType, daemons' = GoesOn(d)
    PROVE  /\ TypeInv'
           /\ \E n \in Daemon : /\ Routing(d, n) /\ n.outbound = daemons[d].outbound
                                /\ n.poll = "check"
  <1>1. PICK c \in Daemon : c = daemons[d]
    BY DaemonAt
  <1>2. PICK s \in Steps : s = "check"
    BY DEF Steps
  <1> DEFINE n == Polled(daemons[d], c.next + 1, c.last, s, Nobody, Nobody, c.outbound)
  <1>3. Becomes(d, n, c.next + 1, s, c.outbound)
    <2>1. c.next + 1 \in Positions /\ c.last \in Lasts /\ c.outbound \in Outbounds /\ Runs(d)
      BY <1>1, PollsAt, PolledAt
    <2>2. \A t \in Tuis : daemons[d].address[t] = Nobody => c.outbound[t] = <<>>
      BY <1>1, PolledAt
    <2> QED
      BY <1>2, <2>1, <2>2, PolledOK
  <1>4. daemons' = [daemons EXCEPT ![d] = n]
    BY <1>1, <1>2, GoesIs
  <1> HIDE DEF n
  <1>5. Runs(d) /\ chat'.sends = chat.sends
    BY PollsAt
  <1>6. TypeInv'
    BY <1>3, <1>4, <1>5, Types, PollTo DEF Becomes
  <1> QED
    BY <1>1, <1>2, <1>3, <1>4, <1>6 DEF Routing, Becomes

LEMMA FetchTo ==
    ASSUME TypeInv, NEW d \in Daemons, Fetch(d)
    PROVE  /\ TypeInv' /\ UNCHANGED <<disk, history>> /\ chat'.sends = chat.sends
           /\ daemons[d].poll = "check"
           /\ \E n \in Daemon : /\ Routing(d, n) /\ n.outbound = daemons[d].outbound
                                /\ n.poll = "check"
  <1>1. PICK c \in Daemon : c = daemons[d] /\ DaemonOK(c)
    BY DaemonAt
  <1>2. /\ c.next \in 1..(Len(chat.sends) + 1) /\ c.last \in 0..Len(chat.sends)
        /\ Len(chat.sends) \in Nat /\ chat.confirmed \in 0..Len(chat.sends)
    BY Bounds, Types DEF Daemon
  <1>3. Runs(d) /\ c.next > c.last
    BY <1>1 DEF Fetch, Runs, Polling
  <1>4. c.poll = "check"
    BY <1>1, <1>2, <1>3 DEF DaemonOK
  <1>5. PICK confirmed \in 0..Len(chat.sends) :
           confirmed = Larger(chat.confirmed, daemons[d].next - 1)
    BY <1>1, <1>2 DEF Larger
  <1>6. PICK last \in (confirmed + 1)..Len(chat.sends) :
           daemons' = [daemons EXCEPT ![d].next = confirmed + 1, ![d].last = last]
    BY <1>5 DEF Fetch
  <1>7. /\ chat' \in [sends : {s.sends : s \in Scenarios}, confirmed : 0..Len(chat.sends)]
        /\ chat'.sends = chat.sends
    <2>1. chat' = [chat EXCEPT !.confirmed = confirmed]
      BY <1>5 DEF Fetch
    <2> QED
      BY <2>1, Types
  <1>8. PICK s \in Steps : s = "check"
    BY DEF Steps
  <1>9. confirmed + 1 \in Positions /\ last \in Lasts
    BY <1>2, <1>5 DEF Positions, Lasts
  <1> DEFINE n == Polled(daemons[d], confirmed + 1, last, s, c.to, c.target, c.outbound)
  <1>10. Becomes(d, n, confirmed + 1, s, c.outbound)
    <2>1. /\ c.to \in Addresses \cup {Nobody} /\ c.target \in Tuis \cup {Nobody}
          /\ c.outbound \in Outbounds
          /\ c.target # Nobody => daemons[d].address[c.target] # Nobody
          /\ \A t \in Tuis : daemons[d].address[t] = Nobody => c.outbound[t] = <<>>
      BY <1>1, PolledAt
    <2> QED
      BY <1>3, <1>8, <1>9, <2>1, PolledOK
  <1>11. daemons' = [daemons EXCEPT ![d] = n]
    <2>1. [c EXCEPT !.next = confirmed + 1, !.last = last]
          = Polled(c, confirmed + 1, last, s, c.to, c.target, c.outbound)
      BY <1>4, <1>8 DEF Daemon, Polled
    <2>2. daemons' = [daemons EXCEPT ![d] = [c EXCEPT !.next = confirmed + 1, !.last = last]]
      BY <1>1, <1>6
    <2> QED
      BY <1>1, <2>1, <2>2
  <1> HIDE DEF n
  <1>12. UNCHANGED <<disk, socket, tuis, history>>
    BY DEF Fetch
  <1>13. TypeInv'
    BY <1>3, <1>7, <1>10, <1>11, <1>12, Types, PollTo DEF Becomes
  <1> QED
    BY <1>1, <1>4, <1>7, <1>8, <1>10, <1>11, <1>12, <1>13 DEF Routing, Becomes

LEMMA CheckUpdateTo ==
    ASSUME TypeInv, NEW d \in Daemons, CheckUpdate(d)
    PROVE  /\ TypeInv' /\ UNCHANGED <<chat, disk, history>> /\ Runs(d)
           /\ daemons[d].poll = "check"
           /\ \E n \in Daemon :
                 /\ Routing(d, n) /\ n.outbound = daemons[d].outbound
                 /\ n.poll = "check" \/ (n.poll = "mark" /\ n.next \notin disk.seen)
  <1>1. /\ UNCHANGED <<chat, disk, socket, tuis, history>>
        /\ disk' \in DiskType /\ history' \in HistoryType
    BY Types DEF CheckUpdate
  <1>2. /\ At(d, "check") /\ Runs(d) /\ daemons[d].poll = "check"
        /\ Message(d) = daemons[d].next
    BY PollsAt DEF CheckUpdate
  <1>3. CASE Message(d) \in disk.seen
    <2>1. daemons' = GoesOn(d)
      BY <1>3 DEF CheckUpdate
    <2> QED
      BY <1>1, <1>2, <2>1, GoesOnTo
  <1>4. CASE Message(d) \notin disk.seen
    <2>1. PICK s \in Steps : s = "mark"
      BY DEF Steps
    <2>2. daemons' = GoesTo(d, s)
      BY <1>4, <2>1 DEF CheckUpdate
    <2> QED
      BY <1>1, <1>2, <1>4, <2>1, <2>2, GoesToTo
  <1> QED
    BY <1>3, <1>4

LEMMA MarkUpdateTo ==
    ASSUME TypeInv, NEW d \in Daemons, MarkUpdate(d)
    PROVE  /\ TypeInv' /\ UNCHANGED <<chat, history>> /\ Runs(d)
           /\ daemons[d].poll = "mark" /\ daemons[d].next \in Updates
           /\ disk'.seen = disk.seen \cup {daemons[d].next} /\ disk'.rows = disk.rows
           /\ \E n \in Daemon :
                 /\ Routing(d, n) /\ n.outbound = daemons[d].outbound
                 /\ n.poll = "route" /\ n.next = daemons[d].next
  <1>1. UNCHANGED <<chat, socket, tuis, history>> /\ history' \in HistoryType
    BY Types DEF MarkUpdate
  <1>2. /\ At(d, "mark") /\ Runs(d) /\ daemons[d].poll = "mark"
        /\ Message(d) = daemons[d].next /\ daemons[d].next \in Updates
    BY PollsAt DEF MarkUpdate
  <1>3. /\ disk' \in DiskType
        /\ disk'.seen = disk.seen \cup {daemons[d].next} /\ disk'.rows = disk.rows
    <2>1. disk' = [disk EXCEPT !.seen = @ \cup {Message(d)}]
      BY DEF MarkUpdate
    <2> QED
      BY <1>2, <2>1, Types DEF DiskType
  <1>4. PICK s \in Steps : s = "route"
    BY DEF Steps
  <1>5. daemons' = GoesTo(d, s)
    BY <1>4 DEF MarkUpdate
  <1> QED
    BY <1>1, <1>2, <1>3, <1>4, <1>5, GoesToTo

\* A message is answered.
LEMMA AnswersTo ==
    ASSUME TypeInv, UNCHANGED <<chat, socket, tuis>>, NEW d \in Daemons, NEW o, At(d, o),
           disk' \in DiskType, Answers(d)
    PROVE  /\ TypeInv'
           /\ history'.got = history.got /\ history'.twins = history.twins
           /\ history'.settled = history.settled \cup {daemons[d].next}
           /\ \E n \in Daemon : /\ Routing(d, n) /\ n.outbound = daemons[d].outbound
                                /\ n.poll = "check"
  <1>1. Message(d) = daemons[d].next /\ Message(d) \in Updates
    BY PollsAt
  <1>2. /\ history' \in HistoryType
        /\ history'.got = history.got /\ history'.twins = history.twins
        /\ history'.settled = history.settled \cup {daemons[d].next}
    <2>1. history' = [history EXCEPT !.settled = @ \cup {Message(d)}]
      BY DEF Answers
    <2> QED
      BY <1>1, <2>1, Types DEF HistoryType
  <1>3. daemons' = GoesOn(d)
    BY DEF Answers
  <1> QED
    BY <1>2, <1>3, GoesOnTo

\* A step that ends the message of d with an answer.
Answered(d) ==
    /\ TypeInv' /\ UNCHANGED chat /\ Runs(d)
    /\ daemons[d].poll \in {"route", "lookup", "push"}
    /\ history'.got = history.got /\ history'.twins = history.twins
    /\ history'.settled = history.settled \cup {daemons[d].next}
    /\ disk'.seen = disk.seen
    /\ \A u \in Updates : \/ disk'.rows[u] = disk.rows[u]
                          \/ /\ disk.rows[u].status = "pending"
                             /\ disk'.rows[u].status = "cancelled"
                             /\ disk'.rows[u].to = disk.rows[u].to
    /\ \E n \in Daemon : /\ Routing(d, n) /\ n.outbound = daemons[d].outbound
                         /\ n.poll = "check"

LEMMA SelectInstanceTo ==
    ASSUME TypeInv, NEW d \in Daemons, SelectInstance(d)
    PROVE  Answered(d)
  <1> DEFINE live == {daemons[d].address[t] : t \in Clients(d)}
  <1>1. live \in SUBSET Addresses
    BY HandledAt DEF Clients, Registry
  <1>2. At(d, "route") /\ Sent(d).kind = "select" /\ Answers(d)
    BY DEF SelectInstance
  <1>3. Runs(d) /\ daemons[d].poll = "route" /\ Sent(d).to \in Addresses
    BY <1>2, PollsAt DEF Input
  <1>4. disk' \in DiskType /\ disk'.seen = disk.seen /\ disk'.rows = disk.rows
    <2>1. CASE Sent(d).to > Cardinality(live)
      <3>1. disk' = disk
        BY <2>1 DEF SelectInstance
      <3> QED
        BY <3>1, Types
    <2>2. CASE ~(Sent(d).to > Cardinality(live))
      <3>1. Cardinality(live) \in Nat
        <4>1. IsFiniteSet(Addresses)
          BY Bounds, Types, FS_Interval DEF Addresses
        <4> HIDE DEF live
        <4>2. IsFiniteSet(live)
          BY <1>1, <4>1, FS_Subset
        <4> QED
          BY <4>2, FS_CardinalityType
      <3>2. PICK k \in Nat : k = Cardinality(live)
        BY <3>1
      <3>3. Sent(d).to \in Nat
        BY <1>3, Bounds, Types DEF Addresses
      <3>4. Sent(d).to <= Cardinality(live)
        BY <2>2, <3>2, <3>3
      <3>5. PICK a \in Addresses : a = InOrder(live)[Sent(d).to]
        <4> HIDE DEF live
        <4> QED
          BY <1>1, <1>3, <3>4, Selectable, Types
      <3>6. disk' = [disk EXCEPT !.selected = a]
        BY <2>2, <3>5 DEF SelectInstance
      <3> QED
        BY <3>6, Types DEF DiskType
    <2> QED
      BY <2>1, <2>2
  <1>5. UNCHANGED <<chat, socket, tuis>>
    BY DEF SelectInstance
  <1> QED
    BY <1>2, <1>3, <1>4, <1>5, AnswersTo DEF Answered

LEMMA CancelPendingTo ==
    ASSUME TypeInv, NEW d \in Daemons, CancelPending(d)
    PROVE  Answered(d)
  <1>1. At(d, "route") /\ Answers(d) /\ Runs(d) /\ daemons[d].poll = "route"
    BY PollsAt DEF CancelPending
  <1>2. PICK us \in SUBSET Updates : us = PendingForAddress(Sent(d).to)
    BY DEF PendingForAddress
  <1>3. ASSUME NEW u \in Updates
        PROVE  /\ disk.rows[u] \in Row
               /\ [disk.rows[u] EXCEPT !.status = "cancelled"] \in Row
               /\ [disk.rows[u] EXCEPT !.status = "cancelled"].status = "cancelled"
               /\ [disk.rows[u] EXCEPT !.status = "cancelled"].to = disk.rows[u].to
    <2>1. PICK old \in Row : old = disk.rows[u]
      BY Types DEF DiskType
    <2>2. PICK to \in Addresses \cup {Nobody} : to = old.to
      BY DEF Row
    <2>3. PICK row : row = [status |-> "cancelled", to |-> to]
      OBVIOUS
    <2>4. [old EXCEPT !.status = "cancelled"] = row
      BY <2>2, <2>3 DEF Row
    <2>5. row \in Row /\ row.status = "cancelled" /\ row.to = to
      BY <2>3 DEF Row
    <2> QED
      BY <2>1, <2>2, <2>4, <2>5
  <1>4. PICK rows \in [Updates -> Row] :
           rows = [u \in Updates |-> IF u \in us THEN [disk.rows[u] EXCEPT !.status = "cancelled"]
                                     ELSE disk.rows[u]]
    BY <1>3
  <1>5. disk' = [disk EXCEPT !.rows = rows]
    BY <1>2, <1>4, Types DEF CancelPending, DiskType
  <1>6. disk' \in DiskType /\ disk'.rows = rows /\ disk'.seen = disk.seen
    BY <1>5, Types DEF DiskType
  <1>7. ASSUME NEW u \in Updates
        PROVE  \/ disk'.rows[u] = disk.rows[u]
               \/ /\ disk.rows[u].status = "pending"
                  /\ disk'.rows[u].status = "cancelled"
                  /\ disk'.rows[u].to = disk.rows[u].to
    <2>1. CASE u \in us
      <3>1. disk.rows[u].status = "pending"
        BY <1>2, <2>1 DEF PendingForAddress
      <3>2. disk'.rows[u] = [disk.rows[u] EXCEPT !.status = "cancelled"]
        BY <1>4, <1>6, <2>1
      <3> QED
        BY <1>3, <3>1, <3>2
    <2>2. CASE u \notin us
      BY <1>4, <1>6, <2>2
    <2> QED
      BY <2>1, <2>2
  <1>8. UNCHANGED <<chat, socket, tuis>>
    BY DEF CancelPending
  <1> QED
    BY <1>1, <1>6, <1>7, <1>8, AnswersTo DEF Answered

\* The message goes on to a further step of its way.
Routed(d) ==
    /\ TypeInv' /\ UNCHANGED <<chat, disk, history>> /\ Runs(d)
    /\ daemons[d].poll \in {"route", "lookup", "push"}
    /\ \E n \in Daemon : /\ Routing(d, n) /\ n.outbound = daemons[d].outbound
                         /\ n.poll \in {"lookup", "push", "queue"} /\ n.next = daemons[d].next

LEMMA RoutesTo ==
    ASSUME TypeInv, UNCHANGED <<chat, disk, socket, tuis, history>>, NEW d \in Daemons,
           NEW o \in {"route", "lookup", "push"}, At(d, o),
           NEW s \in Steps, s \in {"lookup", "push", "queue"}, NEW a \in Addresses,
           NEW target \in Tuis \cup {Nobody},
           target # Nobody => daemons[d].address[target] # Nobody,
           daemons' = [daemons EXCEPT ![d] = Polled(daemons[d], daemons[d].next, daemons[d].last,
                                                    s, a, target, daemons[d].outbound)]
    PROVE  Routed(d)
  <1>1. PICK c \in Daemon : c = daemons[d]
    BY DaemonAt
  <1> DEFINE n == Polled(daemons[d], c.next, c.last, s, a, target, c.outbound)
  <1>2. Becomes(d, n, c.next, s, c.outbound)
    <2>1. /\ c.next \in Positions /\ c.last \in Lasts /\ c.outbound \in Outbounds /\ Runs(d)
          /\ c.next <= c.last
      BY <1>1, PollsAt, PolledAt
    <2>2. \A t \in Tuis : daemons[d].address[t] = Nobody => c.outbound[t] = <<>>
      BY <1>1, PolledAt
    <2>3. a # Nobody /\ a \in Addresses \cup {Nobody}
      BY Types
    <2> QED
      BY <2>1, <2>2, <2>3, PolledOK
  <1>3. daemons' = [daemons EXCEPT ![d] = n]
    BY <1>1
  <1> HIDE DEF n
  <1>4. /\ Runs(d) /\ chat'.sends = chat.sends /\ disk' \in DiskType /\ history' \in HistoryType
        /\ chat' \in [sends : {r.sends : r \in Scenarios}, confirmed : 0..Len(chat.sends)]
        /\ daemons[d].poll = o
    BY PollsAt, Types
  <1>5. TypeInv'
    BY <1>2, <1>3, <1>4, PollTo DEF Becomes
  <1> QED
    BY <1>1, <1>2, <1>3, <1>4, <1>5 DEF Routed, Routing, Becomes

LEMMA RoutePlainTo ==
    ASSUME TypeInv, NEW d \in Daemons, RoutePlain(d)
    PROVE  Routed(d) \/ Answered(d)
  <1>1. /\ At(d, "route") /\ Runs(d) /\ daemons[d].poll = "route"
        /\ UNCHANGED <<chat, disk, socket, tuis>>
    BY PollsAt DEF RoutePlain
  <1>2. CASE disk.selected = Nobody \/ LookUp(d, disk.selected) = {}
    <2>1. Answers(d)
      BY <1>2 DEF RoutePlain
    <2> QED
      BY <1>1, <2>1, AnswersTo, Types DEF Answered
  <1>3. CASE ~(disk.selected = Nobody \/ LookUp(d, disk.selected) = {})
    <2>1. PICK c \in Daemon : c = daemons[d]
      BY DaemonAt
    <2>2. PICK a \in Addresses : a = disk.selected
      BY <1>3, Types DEF DiskType
    <2>3. PICK s \in Steps : s = "lookup"
      BY DEF Steps
    <2>4. UNCHANGED history
      BY <1>3 DEF RoutePlain
    <2>5. /\ c.target \in Tuis \cup {Nobody}
          /\ c.target # Nobody => daemons[d].address[c.target] # Nobody
      BY <2>1, PolledAt
    <2>6. daemons' = [daemons EXCEPT ![d] = Polled(daemons[d], daemons[d].next, daemons[d].last,
                                                   s, a, c.target, daemons[d].outbound)]
      <3>1. [c EXCEPT !.poll = s, !.to = a] = Polled(c, c.next, c.last, s, a, c.target, c.outbound)
        BY DEF Daemon, Polled
      <3>2. daemons' = [daemons EXCEPT ![d] = [c EXCEPT !.poll = s, !.to = a]]
        BY <1>3, <2>1, <2>2, <2>3 DEF RoutePlain
      <3> QED
        BY <2>1, <3>1, <3>2
    <2>7. Routed(d)
      BY <1>1, <2>3, <2>4, <2>5, <2>6, RoutesTo
    <2> QED
      BY <2>7
  <1> QED
    BY <1>2, <1>3

LEMMA RouteAddressedTo ==
    ASSUME TypeInv, NEW d \in Daemons, RouteAddressed(d)
    PROVE  Routed(d) \/ Answered(d)
  <1>1. PICK o \in {"route", "lookup", "push"} :
           /\ At(d, o) /\ (o = "lookup" \/ (o = "route" /\ Sent(d).kind = "text"))
    BY DEF RouteAddressed
  <1>2. /\ Runs(d) /\ daemons[d].poll = o /\ Sent(d) \in Input
        /\ UNCHANGED <<chat, disk, socket, tuis>>
    BY <1>1, PollsAt DEF RouteAddressed
  <1>3. PICK c \in Daemon : c = daemons[d] /\ DaemonOK(c)
    BY DaemonAt
  <1>4. PICK a \in Addresses : a = IF daemons[d].poll = "lookup" THEN daemons[d].to ELSE Sent(d).to
    <2>1. CASE o = "lookup"
      <3>1. c.to \in Addresses
        BY <1>2, <1>3, <2>1 DEF Daemon, DaemonOK
      <3> QED
        BY <1>2, <1>3, <2>1, <3>1
    <2>2. CASE o = "route"
      <3>1. Sent(d).kind = "text"
        BY <1>1, <2>2
      <3>2. Sent(d).to \in Addresses
        BY <1>2, <3>1 DEF Input
      <3> QED
        BY <1>2, <2>2, <3>2
    <2> QED
      BY <1>1, <2>1, <2>2
  <1>5. ASSUME NEW s \in {"push", "queue"}, NEW target \in Tuis \cup {Nobody},
               target # Nobody => c.address[target] # Nobody,
               daemons' = [daemons EXCEPT ![d] = [c EXCEPT !.poll = s, !.to = a,
                                                           !.target = target]],
               UNCHANGED history
        PROVE  Routed(d)
    <2>1. PICK step \in Steps : step = s
      BY DEF Steps
    <2>2. [c EXCEPT !.poll = s, !.to = a, !.target = target]
          = Polled(c, c.next, c.last, step, a, target, c.outbound)
      BY <2>1 DEF Daemon, Polled
    <2>3. PICK m : m = [daemons EXCEPT ![d] = Polled(daemons[d], daemons[d].next, daemons[d].last,
                                                     step, a, target, daemons[d].outbound)]
      OBVIOUS
    <2>4. daemons' = m
      BY <1>3, <1>5, <2>2, <2>3
    <2> HIDE <1>5
    <2>5. /\ target # Nobody => daemons[d].address[target] # Nobody
          /\ step \in {"lookup", "push", "queue"} /\ UNCHANGED <<chat, disk, socket, tuis, history>>
      BY <1>2, <1>3, <1>5, <2>1
    <2> QED
      BY <1>1, <2>3, <2>4, <2>5, RoutesTo
  <1>6. CASE \E t \in LookUp(d, a) :
                /\ daemons' = [daemons EXCEPT ![d].poll = "push", ![d].to = a, ![d].target = t]
                /\ UNCHANGED history
    <2>1. PICK t \in LookUp(d, a) :
             /\ daemons' = [daemons EXCEPT ![d].poll = "push", ![d].to = a, ![d].target = t]
             /\ UNCHANGED history
      BY <1>6
    <2>2. t \in Tuis /\ c.address[t] # Nobody
      BY <1>3, Types DEF LookUp
    <2>3. daemons' = [daemons EXCEPT ![d] = [c EXCEPT !.poll = "push", !.to = a, !.target = t]]
      BY <1>3, <2>1
    <2>4. Routed(d)
      BY <1>5, <2>1, <2>2, <2>3
    <2> QED
      BY <2>4
  <1>7. CASE /\ daemons' = [daemons EXCEPT ![d].poll = "queue", ![d].to = a]
             /\ UNCHANGED history
    <2>1. PICK target \in Tuis \cup {Nobody} :
             target = c.target /\ (target # Nobody => c.address[target] # Nobody)
      BY <1>3, PolledAt
    <2>2. [c EXCEPT !.poll = "queue", !.to = a]
          = [c EXCEPT !.poll = "queue", !.to = a, !.target = target]
      BY <2>1 DEF Daemon
    <2>3. daemons' = [daemons EXCEPT ![d] = [c EXCEPT !.poll = "queue", !.to = a,
                                                      !.target = target]]
      BY <1>3, <1>7, <2>2
    <2>4. Routed(d)
      BY <1>5, <1>7, <2>1, <2>3
    <2> QED
      BY <2>4
  <1>8. CASE Answers(d)
    <2>1. Answered(d)
      BY <1>1, <1>2, <1>8, AnswersTo, Types DEF Answered
    <2> QED
      BY <2>1
  <1> QED
    BY <1>4, <1>6, <1>7, <1>8, Zenon DEF RouteAddressed
\* The channel of t takes the message of d.
Taken(d, t) ==
    /\ TypeInv' /\ UNCHANGED <<chat, disk, history>> /\ Runs(d)
    /\ daemons[d].poll = "push" /\ daemons[d].next \in Updates
    /\ daemons[d].outbound[t] \in Seq(Updates)
    /\ \E n \in Daemon :
          /\ Routing(d, n) /\ n.poll = "check"
          /\ n.outbound[t] = Append(daemons[d].outbound[t], daemons[d].next)
          /\ \A s \in Tuis : s # t => n.outbound[s] = daemons[d].outbound[s]

LEMMA PushTo ==
    ASSUME TypeInv, NEW d \in Daemons, Push(d)
    PROVE  Routed(d) \/ Answered(d) \/ \E t \in Tuis : Taken(d, t)
  <1>1. PICK c \in Daemon : c = daemons[d] /\ DaemonOK(c)
    BY DaemonAt
  <1>2. /\ At(d, "push") /\ Runs(d) /\ c.poll = "push" /\ c.next \in Updates
        /\ Message(d) = c.next /\ c.next + 1 \in Positions
        /\ UNCHANGED <<chat, disk, socket, tuis>>
    BY <1>1, PollsAt DEF Push
  <1>3. CASE c.target = Nobody
    <2>1. CASE Answers(d)
      BY <1>1, <1>2, <2>1, AnswersTo, Types DEF Answered
    <2>2. CASE daemons' = GoesTo(d, "queue") /\ UNCHANGED history
      <3>1. PICK s \in Steps : s = "queue"
        BY DEF Steps
      <3>2. daemons' = GoesTo(d, s) /\ UNCHANGED history
        BY <2>2, <3>1
      <3> QED
        BY <1>1, <1>2, <3>1, <3>2, GoesToTo, Types DEF Routed
    <2> QED
      BY <1>1, <1>3, <2>1, <2>2 DEF Push, Answers
  <1>4. CASE c.target # Nobody
    <2>1. PICK t \in Tuis : t = c.target /\ c.address[t] # Nobody
      BY <1>1, <1>4, PolledAt
    <2>2. UNCHANGED history
      BY <1>1, <1>4 DEF Push
    <2>3. CASE Full(d, t)
      <3>1. PICK s \in Steps : s = "queue"
        BY DEF Steps
      <3>2. daemons' = GoesTo(d, s)
        BY <1>1, <1>4, <2>1, <2>3, <3>1 DEF Push
      <3> QED
        BY <1>1, <1>2, <2>2, <3>1, <3>2, GoesToTo, Types DEF Routed
    <2>4. CASE ~Full(d, t)
      <3>1. /\ c.outbound \in Outbounds /\ c.outbound[t] \in Queue
            /\ c.outbound[t] \in Seq(Updates) /\ Len(c.outbound[t]) <= Cap
            /\ Len(c.outbound[t]) # Cap
        <4>1. c.outbound \in Outbounds
          BY <1>1, PolledAt
        <4>2. c.outbound[t] \in Queue
          BY <4>1 DEF Outbounds
        <4>3. Len(c.outbound[t]) # Cap
          BY <1>1, <2>4 DEF Full
        <4> QED
          BY <4>1, <4>2, <4>3, Queues, Types
      <3>2. PICK q \in Queue : q = Append(c.outbound[t], c.next)
        <4>1. Append(c.outbound[t], c.next) \in Seq(Updates)
          BY <1>2, <3>1
        <4>2. Len(Append(c.outbound[t], c.next)) = Len(c.outbound[t]) + 1
          BY <1>2, <3>1
        <4>3. Len(c.outbound[t]) + 1 <= Cap
          <5>1. Len(c.outbound[t]) \in Nat /\ Cap \in Nat
            BY <3>1, Bounds, Types
          <5> QED
            BY <3>1, <5>1
        <4> QED
          BY <4>1, <4>2, <4>3, Queues, Types
      <3>3. PICK m \in Outbounds : m = [c.outbound EXCEPT ![t] = q]
        BY <3>1 DEF Outbounds
      <3>4. m[t] = q /\ \A s \in Tuis : s # t => m[s] = c.outbound[s]
        BY <3>1, <3>3 DEF Outbounds
      <3>5. PICK step \in Steps : step = "check"
        BY DEF Steps
      <3> DEFINE n == Polled(daemons[d], c.next + 1, c.last, step, Nobody, Nobody, m)
      <3>6. Becomes(d, n, c.next + 1, step, m)
        <4>1. \A s \in Tuis : daemons[d].address[s] = Nobody => m[s] = <<>>
          BY <1>1, <2>1, <3>4, PolledAt
        <4>2. c.last \in Lasts
          BY <1>1, PolledAt
        <4> QED
          BY <1>2, <3>5, <4>1, <4>2, PolledOK
      <3>7. daemons' = [daemons EXCEPT ![d] = n]
        <4>1. daemons' = [GoesOn(d) EXCEPT ![d].outbound[t] = Append(@, c.next)]
          BY <1>1, <1>2, <1>4, <2>1, <2>4 DEF Push
        <4>2. PICK k \in Daemon :
                 /\ k = Polled(c, c.next + 1, c.last, step, Nobody, Nobody, c.outbound)
                 /\ k.outbound = c.outbound
          <5> DEFINE k == Polled(daemons[d], c.next + 1, c.last, step, Nobody, Nobody, c.outbound)
          <5>1. /\ c.last \in Lasts /\ c.next + 1 \in Positions /\ c.outbound \in Outbounds
                /\ \A s \in Tuis : daemons[d].address[s] = Nobody => c.outbound[s] = <<>>
            BY <1>1, <1>2, PolledAt
          <5>2. Becomes(d, k, c.next + 1, step, c.outbound)
            BY <1>2, <3>5, <5>1, PolledOK
          <5> HIDE DEF k
          <5>3. k \in Daemon /\ k.outbound = c.outbound
            BY <5>2 DEF Becomes
          <5> QED
            BY <1>1, <5>3 DEF k
        <4>3. GoesOn(d) = [daemons EXCEPT ![d] = k]
          BY <1>1, <3>5, <4>2, GoesIs
        <4>4. d \in DOMAIN daemons
          BY Types DEF TypeOK
        <4>5. daemons' = [daemons EXCEPT ![d] = [k EXCEPT !.outbound[t] = Append(@, c.next)]]
          BY <4>1, <4>3, <4>4
        <4>6. [k EXCEPT !.outbound[t] = Append(@, c.next)] = [k EXCEPT !.outbound = m]
          BY <3>2, <3>3, <4>2 DEF Daemon
        <4>7. [k EXCEPT !.outbound = m]
              = Polled(c, c.next + 1, c.last, step, Nobody, Nobody, m)
          BY <4>2 DEF Polled, Daemon
        <4> QED
          BY <1>1, <4>5, <4>6, <4>7
      <3> HIDE DEF n
      <3>8. TypeInv'
        <4>1. /\ disk' \in DiskType /\ history' \in HistoryType /\ chat'.sends = chat.sends
              /\ chat' \in [sends : {s.sends : s \in Scenarios}, confirmed : 0..Len(chat.sends)]
          BY <1>2, <2>2, Types
        <4> QED
          BY <1>2, <3>6, <3>7, <4>1, PollTo DEF Becomes
      <3>9. Taken(d, t)
        BY <1>1, <1>2, <2>2, <3>1, <3>2, <3>4, <3>5, <3>6, <3>7, <3>8 DEF Taken, Routing, Becomes
      <3> QED
        BY <3>9
    <2> QED
      BY <2>3, <2>4
  <1> QED
    BY <1>3, <1>4

LEMMA EnqueueTo ==
    ASSUME TypeInv, NEW d \in Daemons, Enqueue(d)
    PROVE  /\ TypeInv' /\ UNCHANGED <<chat, history>> /\ Runs(d)
           /\ daemons[d].poll = "queue" /\ daemons[d].next \in Updates
           /\ disk'.seen = disk.seen /\ disk'.rows[daemons[d].next].status = "pending"
           /\ \A u \in Updates : u # daemons[d].next => disk'.rows[u] = disk.rows[u]
           /\ \E n \in Daemon : /\ Routing(d, n) /\ n.outbound = daemons[d].outbound
                                /\ n.poll = "check"
  <1>1. UNCHANGED <<chat, socket, tuis, history>> /\ history' \in HistoryType
    BY Types DEF Enqueue
  <1>2. /\ At(d, "queue") /\ Runs(d) /\ daemons[d].poll = "queue"
        /\ Message(d) = daemons[d].next /\ daemons[d].next \in Updates
    BY PollsAt DEF Enqueue
  <1>3. PICK row \in Row : row = [status |-> "pending", to |-> daemons[d].to]
    <2>1. daemons[d].to \in Addresses \cup {Nobody}
      BY PolledAt
    <2> QED
      BY <2>1 DEF Row
  <1>4. row.status = "pending"
    BY <1>3
  <1>5. PICK rows \in [Updates -> Row] : rows = [disk.rows EXCEPT ![daemons[d].next] = row]
    BY <1>2, Types DEF DiskType
  <1>6. /\ rows[daemons[d].next] = row
        /\ \A u \in Updates : u # daemons[d].next => rows[u] = disk.rows[u]
    BY <1>2, <1>5, Types DEF DiskType
  <1>7. disk' = [disk EXCEPT !.rows = rows]
    BY <1>2, <1>3, <1>5, Types DEF Enqueue, DiskType
  <1>8. disk' \in DiskType /\ disk'.rows = rows /\ disk'.seen = disk.seen
    BY <1>7, Types DEF DiskType
  <1>9. daemons' = GoesOn(d)
    BY DEF Enqueue
  <1> QED
    BY <1>1, <1>2, <1>4, <1>6, <1>8, <1>9, GoesOnTo
-----------------------------------------------------------------------------
(* The steps by what they do to the messages: what is on its way is        *)
(* left there or moves on.                                                 *)

\* No message moves.
Calms(d) ==
    /\ TypeInv' /\ chat'.sends = chat.sends
    /\ disk'.rows = disk.rows /\ disk'.seen = disk.seen
    /\ history'.got = history.got /\ history'.settled = history.settled
    /\ \E n \in Daemon :
          LET c == daemons[d]
          IN  /\ daemons' = [daemons EXCEPT ![d] = n]
              /\ n.outbound = c.outbound /\ n.flush = c.flush
              /\ \A t \in Tuis : n.flush[t] # <<>> => n.address[t] = c.address[t]
              /\ n.poll \in Routes <=> c.poll \in Routes
              /\ n.poll \in Routes => n.next = c.next
              /\ n.poll = "mark" => n.next \notin disk.seen
                                       \/ (c.poll = "mark" /\ n.next = c.next)

\* The handler reads the rows of its client's address.
Reads(d, t) ==
    /\ TypeInv' /\ UNCHANGED <<chat, disk, history>> /\ Runs(d)
    /\ \E n \in Daemon :
          /\ Handling(d, t, n)
          /\ n.address[t] = daemons[d].address[t] /\ n.outbound[t] = daemons[d].outbound[t]
          /\ IsInjective(n.flush[t])
          /\ \A i \in DOMAIN n.flush[t] :
                n.flush[t][i] \in PendingForAddress(daemons[d].address[t])

\* The TUI receives the first message of its channel.
Receives(d, t) ==
    /\ TypeInv' /\ UNCHANGED <<chat, disk>> /\ Runs(d)
    /\ history'.settled = history.settled
    /\ daemons[d].outbound[t] # <<>> /\ daemons[d].outbound[t] \in Seq(Updates)
    /\ \E u \in Updates, n \in Daemon :
          /\ u = Head(daemons[d].outbound[t])
          /\ Handling(d, t, n)
          /\ n.address[t] = daemons[d].address[t] /\ n.flush[t] = daemons[d].flush[t]
          /\ n.outbound[t] = Tail(daemons[d].outbound[t])
          /\ \A v \in Updates : v # u => history'.got[v] = history.got[v]
          /\ history'.got[u] = IF history.got[u] = 2 THEN 2 ELSE history.got[u] + 1

\* The handler marks the first row it has read, and pushes the message if it can.
Pushes(d, t) ==
    /\ TypeInv' /\ UNCHANGED chat /\ Runs(d)
    /\ history'.got = history.got /\ disk'.seen = disk.seen
    /\ daemons[d].flush[t] # <<>> /\ daemons[d].flush[t] \in Seq(Updates)
    /\ daemons[d].outbound[t] \in Seq(Updates)
    /\ \E u \in Updates, n \in Daemon :
          /\ u = Head(daemons[d].flush[t])
          /\ disk'.rows[u].status = "delivered"
          /\ \A v \in Updates : v # u => disk'.rows[v] = disk.rows[v]
          /\ Handling(d, t, n)
          /\ n.address[t] = daemons[d].address[t]
          /\ n.flush[t] = Tail(daemons[d].flush[t])
          /\ \/ /\ n.outbound[t] = daemons[d].outbound[t]
                /\ history'.settled = history.settled \cup {u}
             \/ /\ n.outbound[t] = Append(daemons[d].outbound[t], u)
                /\ history'.settled = history.settled

\* The client of t is gone, with what its channel held.
Leaves(d, t) ==
    /\ TypeInv' /\ UNCHANGED <<chat, disk>> /\ Runs(d)
    /\ history'.got = history.got
    /\ history'.settled = history.settled \cup Range(daemons[d].outbound[t])
    /\ \E n \in Daemon : Handling(d, t, n) /\ n.flush[t] = <<>> /\ n.outbound[t] = <<>>

\* The message is marked.
Marks(d) ==
    /\ TypeInv' /\ UNCHANGED <<chat, history>> /\ Runs(d)
    /\ daemons[d].poll = "mark" /\ daemons[d].next \in Updates
    /\ disk'.seen = disk.seen \cup {daemons[d].next} /\ disk'.rows = disk.rows
    /\ \E n \in Daemon :
          /\ Routing(d, n) /\ n.outbound = daemons[d].outbound
          /\ n.poll = "route" /\ n.next = daemons[d].next

\* The message gets a row that waits.
Waits(d) ==
    /\ TypeInv' /\ UNCHANGED <<chat, history>> /\ Runs(d)
    /\ daemons[d].poll = "queue" /\ daemons[d].next \in Updates
    /\ disk'.seen = disk.seen /\ disk'.rows[daemons[d].next].status = "pending"
    /\ \A u \in Updates : u # daemons[d].next => disk'.rows[u] = disk.rows[u]
    /\ \E n \in Daemon : /\ Routing(d, n) /\ n.outbound = daemons[d].outbound
                         /\ n.poll = "check"

Moves(d) ==
    \/ Calms(d) \/ Vanishes(d) \/ Marks(d) \/ Answered(d) \/ Waits(d)
    \/ \E t \in Tuis : Reads(d, t) \/ Receives(d, t) \/ Pushes(d, t) \/ Leaves(d, t)
                          \/ Taken(d, t)

LEMMA QuietCalms ==
    ASSUME TypeInv, NEW d \in Daemons, Quiet(d)
    PROVE  Calms(d)
  <1>1. PICK n \in Daemon : daemons' = [daemons EXCEPT ![d] = n] /\ Calm(daemons[d], n)
    BY DEF Quiet
  <1>2. \/ n.poll # "mark" \/ (daemons[d].poll = "mark" /\ n.next = daemons[d].next)
    BY <1>1 DEF Calm
  <1> QED
    BY <1>1, <1>2 DEF Calms, Quiet, Calm, SameClients, Routes

LEMMA StillCalms ==
    ASSUME TypeInv, TypeInv', chat'.sends = chat.sends, UNCHANGED <<disk, daemons>>,
           history'.got = history.got, history'.settled = history.settled
    PROVE  \E d \in Daemons : Calms(d)
  <1>1. PICK d \in Daemons : TRUE
    BY CountAssumption DEF Daemons
  <1>2. daemons' = [daemons EXCEPT ![d] = daemons[d]] /\ daemons[d] \in Daemon
    BY DEF TypeInv, TypeOK
  <1> QED
    BY <1>2 DEF Calms

LEMMA RoutedCalms ==
    ASSUME TypeInv, NEW d \in Daemons, Routed(d)
    PROVE  Calms(d)
  BY DEF Routed, Routing, Calms, Routes

LEMMA ClientMoves ==
    ASSUME TypeInv, NEW t \in Tuis, StartTui(t) \/ QuitTui(t) \/ Client(t)
    PROVE  \E d \in Daemons : Calms(d)
  <1>1. CASE StartTui(t)
    BY <1>1, StartTuiTo, StillCalms DEF StartTui
  <1>2. CASE QuitTui(t)
    BY <1>2, QuitTuiTo, StillCalms DEF QuitTui
  <1>3. CASE Disconnected(t)
    BY <1>3, DisconnectedTo, StillCalms DEF Disconnected
  <1>4. CASE Dial(t)
    <2>1. PICK d \in Daemons, n \in Daemon :
             /\ daemons' = [daemons EXCEPT ![d] = n]
             /\ SamePoll(daemons[d], n) /\ n.phase = daemons[d].phase
             /\ n.address = daemons[d].address /\ n.flush = daemons[d].flush
             /\ n.outbound = daemons[d].outbound
      BY <1>4, DialTo
    <2>2. TypeInv' /\ UNCHANGED <<chat, disk, history>>
      BY <1>4, DialTo DEF Dial
    <2>3. Calms(d)
      BY <2>1, <2>2 DEF Calms, SamePoll
    <2> QED
      BY <2>3
  <1>5. CASE Spawn(t)
    BY <1>5, SpawnTo, QuietCalms
  <1> QED
    BY <1>1, <1>2, <1>3, <1>4, <1>5 DEF Client

LEMMA HandlerMoves ==
    ASSUME TypeInv, NEW d \in Daemons, NEW t \in Tuis, Handler(d, t)
    PROVE  Moves(d)
  <1>1. CASE Register(d, t)
    <2>1. PICK n \in Daemon :
             /\ Handling(d, t, n)
             /\ n.flush[t] = <<>> /\ n.outbound[t] = <<>>
             /\ daemons[d].flush[t] = <<>> /\ daemons[d].outbound[t] = <<>>
      BY <1>1, RegisterTo
    <2>2. PICK c \in Daemon : c = daemons[d]
      BY DaemonAt
    <2>3. n.flush = c.flush /\ n.outbound = c.outbound
      <3>1. \A s \in Tuis : n.flush[s] = c.flush[s] /\ n.outbound[s] = c.outbound[s]
        BY <2>1, <2>2 DEF Handling
      <3> QED
        BY <3>1 DEF Daemon
    <2>4. \A s \in Tuis : n.flush[s] # <<>> => n.address[s] = c.address[s]
      BY <2>1, <2>2 DEF Handling
    <2>5. \/ n.poll # "mark" \/ (c.poll = "mark" /\ n.next = c.next)
      BY <2>1, <2>2 DEF Handling
    <2>6. /\ TypeInv' /\ UNCHANGED <<chat, history>>
          /\ disk'.rows = disk.rows /\ disk'.seen = disk.seen
      BY <1>1, RegisterTo
    <2>7. Calms(d)
      BY <2>1, <2>2, <2>3, <2>4, <2>5, <2>6 DEF Calms, Handling
    <2> QED
      BY <2>7 DEF Moves
  <1>2. CASE ReadPending(d, t)
    <2>1. Reads(d, t)
      BY <1>2, ReadPendingTo DEF Reads
    <2> QED
      BY <2>1 DEF Moves
  <1>3. CASE FlushOne(d, t)
    <2>1. Pushes(d, t)
      BY <1>3, FlushOneTo DEF Pushes
    <2> QED
      BY <2>1 DEF Moves
  <1>4. CASE Deliver(d, t)
    <2>1. Receives(d, t)
      BY <1>4, DeliverTo DEF Receives
    <2> QED
      BY <2>1 DEF Moves
  <1>5. CASE EndHandler(d, t)
    <2>1. Leaves(d, t)
      BY <1>5, EndHandlerTo DEF Leaves
    <2> QED
      BY <2>1 DEF Moves
  <1> QED
    BY <1>1, <1>2, <1>3, <1>4, <1>5 DEF Handler

LEMMA DaemonMoves ==
    ASSUME TypeInv, NEW d \in Daemons,
           Main(d) \/ TimerFires(d) \/ PollLoop(d) \/ Terminate(d) \/ Crash(d)
    PROVE  Moves(d)
  <1>1. CASE Probe(d) \/ Clear(d) \/ Bind(d) \/ Shutdown(d) \/ TimerFires(d) \/ Terminate(d)
    <2>1. Quiet(d)
      BY <1>1, ProbeTo, ClearTo, BindTo, ShutdownTo, TimerFiresTo, TerminateTo
    <2> QED
      BY <2>1, QuietCalms DEF Moves
  <1>2. CASE Exit(d) \/ Crash(d)
    BY <1>2, ExitTo, CrashTo DEF Moves
  <1>3. CASE Fetch(d) \/ CheckUpdate(d)
    <2>1. PICK n \in Daemon :
             /\ Routing(d, n) /\ n.outbound = daemons[d].outbound
             /\ n.poll = "check" \/ (n.poll = "mark" /\ n.next \notin disk.seen)
      BY <1>3, FetchTo, CheckUpdateTo
    <2>2. TypeInv' /\ UNCHANGED <<disk, history>> /\ chat'.sends = chat.sends
      BY <1>3, FetchTo, CheckUpdateTo
    <2>3. daemons[d].poll = "check"
      BY <1>3, FetchTo, CheckUpdateTo
    <2>4. Calms(d)
      BY <2>1, <2>2, <2>3 DEF Calms, Routing, Routes
    <2> QED
      BY <2>4 DEF Moves
  <1>4. CASE MarkUpdate(d)
    BY <1>4, MarkUpdateTo DEF Moves, Marks
  <1>5. CASE Enqueue(d)
    BY <1>5, EnqueueTo DEF Moves, Waits
  <1>6. CASE SelectInstance(d) \/ CancelPending(d)
    BY <1>6, SelectInstanceTo, CancelPendingTo DEF Moves
  <1>7. CASE RoutePlain(d) \/ RouteAddressed(d)
    BY <1>7, RoutePlainTo, RouteAddressedTo, RoutedCalms DEF Moves
  <1>8. CASE Push(d)
    BY <1>8, PushTo, RoutedCalms DEF Moves
  <1> QED
    BY <1>1, <1>2, <1>3, <1>4, <1>5, <1>6, <1>7, <1>8 DEF Main, PollLoop

\* Every step.
LEMMA StepMoves ==
    ASSUME TypeInv, [Next]_vars
    PROVE  \E d \in Daemons : Moves(d)
  <1>1. CASE UNCHANGED vars
    <2>1. TypeInv'
      <3>1. PICK d \in Daemons : TRUE
        BY CountAssumption DEF Daemons
      <3>2. UNCHANGED <<chat, disk, socket, daemons, tuis, history>>
        BY <1>1 DEF vars
      <3>3. PICK c \in Daemon :
               c = daemons[d] /\ DaemonOK(c) /\ daemons' = [daemons EXCEPT ![d] = c]
        BY <3>2, DaemonAt, Types DEF TypeOK
      <3>4. disk' \in DiskType /\ history' \in HistoryType
        BY <3>2, Types
      <3>5. socket' \in [exists : BOOLEAN, by : Daemons \cup {Nobody}]
        BY <3>2, Types
      <3> QED
        BY <3>2, <3>3, <3>4, <3>5, DaemonAlone
    <2> QED
      BY <1>1, <2>1, StillCalms DEF vars, Moves
  <1>2. ASSUME NEW t \in Tuis, StartTui(t) \/ QuitTui(t) \/ Client(t)
        PROVE  \E d \in Daemons : Moves(d)
    BY <1>2, ClientMoves DEF Moves
  <1>3. ASSUME NEW d \in Daemons,
               Main(d) \/ TimerFires(d) \/ PollLoop(d) \/ Terminate(d) \/ Crash(d)
        PROVE  \E e \in Daemons : Moves(e)
    BY <1>3, DaemonMoves
  <1>4. ASSUME NEW d \in Daemons, NEW t \in Tuis, Handler(d, t)
        PROVE  \E e \in Daemons : Moves(e)
    BY <1>4, HandlerMoves
  <1> QED
    BY <1>1, <1>2, <1>3, <1>4 DEF Next
-----------------------------------------------------------------------------
(* Nothing vanishes: whatever leaves the place it was in is in another one *)
(* then, or is accounted for.                                              *)

HeldBy(c) ==
    (IF c.poll \in Routes THEN {c.next} ELSE {}) \cup UNION {Range(c.outbound[t]) : t \in Tuis}

\* After the step, message u is not lost if daemon d is n.
Kept(u, n) ==
    \/ history'.got[u] > 0 \/ u \in history'.settled
    \/ disk'.rows[u].status \in {"pending", "cancelled"}
    \/ u \in HeldBy(n)

LEMMA Remains ==
    ASSUME TypeInv, NothingVanishes, NEW d \in Daemons, NEW n,
           daemons' = [daemons EXCEPT ![d] = n],
           \A u \in disk'.seen : u \in disk.seen \/ u \in HeldBy(n),
           \A u \in disk.seen :
              \/ history.got[u] > 0 \/ u \in history.settled
              \/ disk.rows[u].status \in {"pending", "cancelled"}
              \/ u \in HeldBy(daemons[d])
              => Kept(u, n)
    PROVE  NothingVanishes'
  <1>1. daemons'[d] = n /\ \A e \in Daemons : e # d => daemons'[e] = daemons[e]
    BY DaemonAt
  <1>2. ASSUME NEW e \in Daemons
        PROVE  Held(e) = HeldBy(daemons[e]) /\ Held(e)' = HeldBy(daemons'[e])
    BY DEF Held, HeldBy, Routes
  <1>3. ASSUME NEW u \in disk'.seen
        PROVE  \/ history'.got[u] > 0 \/ u \in history'.settled
               \/ disk'.rows[u].status \in {"pending", "cancelled"}
               \/ \E e \in Daemons : u \in Held(e)'
    <2>1. CASE Kept(u, n)
      BY <2>1, <1>1, <1>2 DEF Kept
    <2>2. CASE u \in HeldBy(n)
      BY <2>2, <1>1, <1>2
    <2>3. ASSUME u \in disk.seen, NEW e \in Daemons, u \in Held(e), e # d
          PROVE  u \in Held(e)'
      BY <2>3, <1>1, <1>2
    <2> QED
      BY <2>1, <2>2, <2>3, <1>2 DEF NothingVanishes
  <1> QED
    BY <1>3 DEF NothingVanishes

\* What a queue holds after its first member is taken, or one more is put in.
LEMMA Ranges ==
    ASSUME NEW S, NEW s \in Seq(S)
    PROVE  /\ s # <<>> => Range(s) = {Head(s)} \cup Range(Tail(s))
           /\ \A x \in S : Range(Append(s, x)) = Range(s) \cup {x}
           /\ Range(<<>>) = {}
  <1>1. ASSUME s # <<>>
        PROVE  Range(s) = {Head(s)} \cup Range(Tail(s))
    <2>1. /\ Head(s) = s[1] /\ Len(s) \in Nat /\ Len(s) >= 1
          /\ Tail(s) \in Seq(S) /\ Len(Tail(s)) = Len(s) - 1
          /\ \A i \in 1..(Len(s) - 1) : Tail(s)[i] = s[i + 1]
      BY <1>1, TailOf
    <2>2. DOMAIN s = 1..Len(s) /\ DOMAIN Tail(s) = 1..(Len(s) - 1)
      BY <2>1
    <2>3. ASSUME NEW x \in Range(s)
          PROVE  x \in {Head(s)} \cup Range(Tail(s))
      <3>1. PICK i \in 1..Len(s) : x = s[i]
        BY <2>2 DEF Range
      <3>2. CASE i = 1
        BY <3>1, <3>2, <2>1
      <3>3. CASE i # 1
        <4>1. i - 1 \in 1..(Len(s) - 1) /\ (i - 1) + 1 = i
          BY <2>1, <3>1, <3>3
        <4>2. Tail(s)[i - 1] = x
          BY <2>1, <3>1, <4>1
        <4> QED
          BY <2>2, <4>1, <4>2 DEF Range
      <3> QED
        BY <3>2, <3>3
    <2>4. ASSUME NEW x \in Range(Tail(s))
          PROVE  x \in Range(s)
      <3>1. PICK i \in 1..(Len(s) - 1) : x = Tail(s)[i]
        BY <2>2 DEF Range
      <3>2. i + 1 \in 1..Len(s) /\ x = s[i + 1]
        BY <2>1, <3>1
      <3> QED
        BY <2>2, <3>2 DEF Range
    <2>5. Head(s) \in Range(s)
      <3>1. 1 \in DOMAIN s
        BY <2>1, <2>2
      <3> QED
        BY <2>1, <3>1 DEF Range
    <2> QED
      BY <2>3, <2>4, <2>5
  <1>2. ASSUME NEW x \in S
        PROVE  Range(Append(s, x)) = Range(s) \cup {x}
    <2>1. /\ Append(s, x) \in Seq(S) /\ Len(Append(s, x)) = Len(s) + 1 /\ Len(s) \in Nat
          /\ \A i \in 1..Len(s) : Append(s, x)[i] = s[i]
          /\ Append(s, x)[Len(s) + 1] = x
      BY AppendProperties
    <2>2. DOMAIN s = 1..Len(s) /\ DOMAIN Append(s, x) = 1..(Len(s) + 1)
      BY <2>1
    <2>3. \A y \in Range(s) : y \in Range(Append(s, x))
      BY <2>1, <2>2 DEF Range
    <2>4. x \in Range(Append(s, x))
      <3>1. Len(s) + 1 \in DOMAIN Append(s, x)
        BY <2>1, <2>2
      <3> QED
        BY <2>1, <3>1 DEF Range
    <2>5. ASSUME NEW y \in Range(Append(s, x))
          PROVE  y \in Range(s) \cup {x}
      <3>1. PICK i \in 1..(Len(s) + 1) : y = Append(s, x)[i]
        BY <2>2 DEF Range
      <3>2. i = Len(s) + 1 \/ i \in 1..Len(s)
        BY <2>1, <3>1
      <3> QED
        BY <2>1, <2>2, <3>1, <3>2 DEF Range
    <2> QED
      BY <2>3, <2>4, <2>5
  <1>3. Range(<<>>) = {}
    BY EmptySeq DEF Range
  <1> QED
    BY <1>1, <1>2, <1>3

\* What d holds once only the channel of t has changed.
LEMMA HeldAfter ==
    ASSUME NEW c, NEW n, NEW t \in Tuis, \A s \in Tuis : s # t => n.outbound[s] = c.outbound[s]
    PROVE  \A u : u \in UNION {Range(c.outbound[s]) : s \in Tuis} =>
                     u \in UNION {Range(n.outbound[s]) : s \in Tuis} \/ u \in Range(c.outbound[t])
  OBVIOUS
\* The poll loop's steps, which leave the channels alone.
LEMMA RoutingRemains ==
    ASSUME TypeInv, NothingVanishes, NEW d \in Daemons,
           Calms(d) \/ Vanishes(d) \/ Marks(d) \/ Answered(d) \/ Waits(d)
    PROVE  NothingVanishes'
  <1>1. CASE Calms(d)
    <2>1. PICK n \in Daemon :
             /\ daemons' = [daemons EXCEPT ![d] = n] /\ n.outbound = daemons[d].outbound
             /\ n.poll \in Routes <=> daemons[d].poll \in Routes
             /\ n.poll \in Routes => n.next = daemons[d].next
      BY <1>1 DEF Calms
    <2>2. HeldBy(n) = HeldBy(daemons[d])
      BY <2>1 DEF HeldBy
    <2>3. disk'.seen = disk.seen /\ \A u \in disk.seen :
              \/ history.got[u] > 0 \/ u \in history.settled
              \/ disk.rows[u].status \in {"pending", "cancelled"}
              \/ u \in HeldBy(daemons[d])
              => Kept(u, n)
      BY <1>1, <2>2 DEF Calms, Kept
    <2> QED
      BY <2>1, <2>3, Remains
  <1>2. CASE Vanishes(d)
    <2>1. HeldBy(daemons[d]) = Held(d)
      BY DEF Held, HeldBy, Routes
    <2>2. disk'.seen = disk.seen /\ \A u \in disk.seen :
              \/ history.got[u] > 0 \/ u \in history.settled
              \/ disk.rows[u].status \in {"pending", "cancelled"}
              \/ u \in HeldBy(daemons[d])
              => Kept(u, Down)
      BY <1>2, <2>1 DEF Vanishes, Kept
    <2>3. daemons' = [daemons EXCEPT ![d] = Down]
      BY <1>2 DEF Vanishes
    <2> QED
      BY <2>2, <2>3, Remains
  <1>3. CASE Marks(d)
    <2>1. PICK n \in Daemon :
             /\ Routing(d, n) /\ n.outbound = daemons[d].outbound
             /\ n.poll = "route" /\ n.next = daemons[d].next
      BY <1>3 DEF Marks
    <2>2. daemons[d].poll = "mark" /\ disk'.seen = disk.seen \cup {daemons[d].next}
      BY <1>3 DEF Marks
    <2>3. HeldBy(n) = HeldBy(daemons[d]) \cup {daemons[d].next}
      BY <2>1, <2>2 DEF HeldBy, Routes
    <2>4. \A u \in disk.seen :
              \/ history.got[u] > 0 \/ u \in history.settled
              \/ disk.rows[u].status \in {"pending", "cancelled"}
              \/ u \in HeldBy(daemons[d])
              => Kept(u, n)
      BY <1>3, <2>3 DEF Marks, Kept
    <2>5. daemons' = [daemons EXCEPT ![d] = n]
      BY <2>1 DEF Routing
    <2> QED
      BY <2>2, <2>3, <2>4, <2>5, Remains
  <1>4. CASE Answered(d)
    <2>1. PICK n \in Daemon :
             Routing(d, n) /\ n.outbound = daemons[d].outbound /\ n.poll = "check"
      BY <1>4 DEF Answered
    <2>2. \A u \in HeldBy(daemons[d]) : u \in HeldBy(n) \/ u = daemons[d].next
      BY <2>1 DEF HeldBy
    <2>3. /\ disk'.seen = disk.seen /\ history'.got = history.got
          /\ history'.settled = history.settled \cup {daemons[d].next}
          /\ disk.seen \subseteq Updates
      BY <1>4, Types DEF Answered, DiskType
    <2>4. \A u \in disk.seen : disk.rows[u].status \in {"pending", "cancelled"}
                                  => disk'.rows[u].status \in {"pending", "cancelled"}
      BY <1>4, <2>3 DEF Answered
    <2>5. \A u \in disk.seen :
              \/ history.got[u] > 0 \/ u \in history.settled
              \/ disk.rows[u].status \in {"pending", "cancelled"}
              \/ u \in HeldBy(daemons[d])
              => Kept(u, n)
      BY <2>2, <2>3, <2>4 DEF Kept
    <2>6. daemons' = [daemons EXCEPT ![d] = n]
      BY <2>1 DEF Routing
    <2> QED
      BY <2>3, <2>5, <2>6, Remains
  <1>5. CASE Waits(d)
    <2>1. PICK n \in Daemon :
             Routing(d, n) /\ n.outbound = daemons[d].outbound /\ n.poll = "check"
      BY <1>5 DEF Waits
    <2>2. \A u \in HeldBy(daemons[d]) : u \in HeldBy(n) \/ u = daemons[d].next
      BY <2>1 DEF HeldBy
    <2>3. /\ disk'.seen = disk.seen /\ UNCHANGED history /\ disk.seen \subseteq Updates
          /\ disk'.rows[daemons[d].next].status = "pending"
          /\ \A u \in Updates : u # daemons[d].next => disk'.rows[u] = disk.rows[u]
      BY <1>5, Types DEF Waits, DiskType
    <2>4. \A u \in disk.seen :
              \/ history.got[u] > 0 \/ u \in history.settled
              \/ disk.rows[u].status \in {"pending", "cancelled"}
              \/ u \in HeldBy(daemons[d])
              => Kept(u, n)
      BY <2>2, <2>3 DEF Kept
    <2>5. daemons' = [daemons EXCEPT ![d] = n]
      BY <2>1 DEF Routing
    <2> QED
      BY <2>3, <2>4, <2>5, Remains
  <1> QED
    BY <1>1, <1>2, <1>3, <1>4, <1>5

\* The steps that change a channel.
LEMMA ChannelsRemain ==
    ASSUME TypeInv, NothingVanishes, NEW d \in Daemons, NEW t \in Tuis,
           Reads(d, t) \/ Receives(d, t) \/ Pushes(d, t) \/ Leaves(d, t) \/ Taken(d, t)
    PROVE  NothingVanishes'
  <1>1. disk.seen \subseteq Updates /\ \A u \in Updates : history.got[u] \in 0..2
    BY Types DEF DiskType, HistoryType
  <1>2. ASSUME NEW n, Handling(d, t, n)
        PROVE  /\ daemons' = [daemons EXCEPT ![d] = n]
               /\ \A u : u \in HeldBy(daemons[d]) =>
                            u \in HeldBy(n) \/ u \in Range(daemons[d].outbound[t])
               /\ \A u : u \in Range(n.outbound[t]) => u \in HeldBy(n)
    BY <1>2, HeldAfter DEF Handling, HeldBy
  <1>3. CASE Reads(d, t)
    <2>1. PICK n \in Daemon : Handling(d, t, n) /\ n.outbound[t] = daemons[d].outbound[t]
      BY <1>3 DEF Reads
    <2>2. UNCHANGED <<disk, history>>
      BY <1>3 DEF Reads
    <2> QED
      BY <1>2, <2>1, <2>2, Remains DEF Kept
  <1>4. CASE Receives(d, t)
    <2>1. PICK u \in Updates, n \in Daemon :
             /\ u = Head(daemons[d].outbound[t]) /\ Handling(d, t, n)
             /\ n.outbound[t] = Tail(daemons[d].outbound[t])
             /\ \A v \in Updates : v # u => history'.got[v] = history.got[v]
             /\ history'.got[u] = IF history.got[u] = 2 THEN 2 ELSE history.got[u] + 1
      BY <1>4 DEF Receives
    <2>2. Range(daemons[d].outbound[t]) = {u} \cup Range(n.outbound[t])
      BY <1>4, <2>1, Ranges DEF Receives
    <2>3. history'.got[u] > 0
      BY <1>1, <2>1
    <2>4. UNCHANGED disk /\ history'.settled = history.settled
      BY <1>4 DEF Receives
    <2>5. \A v \in disk.seen : history.got[v] > 0 => history'.got[v] > 0
      BY <1>1, <2>1, <2>3
    <2>6. \A v \in disk.seen : v \in HeldBy(daemons[d]) => v = u \/ v \in HeldBy(n)
      BY <1>2, <2>1, <2>2
    <2> QED
      BY <1>2, <2>1, <2>3, <2>4, <2>5, <2>6, Remains DEF Kept
  <1>5. CASE Pushes(d, t)
    <2>1. PICK u \in Updates, n \in Daemon :
             /\ disk'.rows[u].status = "delivered"
             /\ \A v \in Updates : v # u => disk'.rows[v] = disk.rows[v]
             /\ Handling(d, t, n)
             /\ \/ /\ n.outbound[t] = daemons[d].outbound[t]
                   /\ history'.settled = history.settled \cup {u}
                \/ /\ n.outbound[t] = Append(daemons[d].outbound[t], u)
                   /\ history'.settled = history.settled
      BY <1>5 DEF Pushes
    <2>2. /\ history'.got = history.got /\ disk'.seen = disk.seen
          /\ daemons[d].outbound[t] \in Seq(Updates)
      BY <1>5 DEF Pushes
    <2> DEFINE more == Append(daemons[d].outbound[t], u)
    <2>a. Range(more) = Range(daemons[d].outbound[t]) \cup {u}
      <3>1. PICK s \in Seq(Updates) : s = daemons[d].outbound[t]
        BY <2>2
      <3>2. Range(Append(s, u)) = Range(s) \cup {u}
        BY Ranges
      <3> QED
        BY <3>1, <3>2
    <2> HIDE DEF more
    <2>b. \/ n.outbound[t] = daemons[d].outbound[t] /\ u \in history'.settled
          \/ n.outbound[t] = more
      BY <2>1 DEF more
    <2>3. \A v : v \in Range(daemons[d].outbound[t]) => v \in Range(n.outbound[t])
      BY <2>a, <2>b
    <2>4. u \in history'.settled \/ u \in Range(n.outbound[t])
      BY <2>a, <2>b
    <2>5. u \in history'.settled \/ u \in HeldBy(n)
      BY <1>2, <2>1, <2>4
    <2>6. \A v \in disk.seen : v \in HeldBy(daemons[d]) => v \in HeldBy(n)
      BY <1>2, <2>1, <2>3
    <2>7. history.settled \subseteq history'.settled
      BY <2>1
    <2>8. \A v \in disk.seen : v # u => disk'.rows[v] = disk.rows[v]
      BY <1>1, <2>1
    <2>9. \A v \in disk.seen :
              \/ history.got[v] > 0 \/ v \in history.settled
              \/ disk.rows[v].status \in {"pending", "cancelled"}
              \/ v \in HeldBy(daemons[d])
              => Kept(v, n)
      BY <2>2, <2>5, <2>6, <2>7, <2>8 DEF Kept
    <2> QED
      BY <1>2, <2>1, <2>2, <2>9, Remains
  <1>6. CASE Leaves(d, t)
    <2>1. PICK n \in Daemon : Handling(d, t, n)
      BY <1>6 DEF Leaves
    <2>2. /\ UNCHANGED disk /\ history'.got = history.got
          /\ history'.settled = history.settled \cup Range(daemons[d].outbound[t])
      BY <1>6 DEF Leaves
    <2> QED
      BY <1>2, <2>1, <2>2, Remains DEF Kept
  <1>7. CASE Taken(d, t)
    <2>1. PICK n \in Daemon :
             /\ Routing(d, n) /\ n.poll = "check"
             /\ n.outbound[t] = Append(daemons[d].outbound[t], daemons[d].next)
             /\ \A s \in Tuis : s # t => n.outbound[s] = daemons[d].outbound[s]
      BY <1>7 DEF Taken
    <2>2. /\ UNCHANGED <<disk, history>> /\ daemons[d].next \in Updates
          /\ daemons[d].outbound[t] \in Seq(Updates)
      BY <1>7 DEF Taken
    <2>3. Range(n.outbound[t]) = Range(daemons[d].outbound[t]) \cup {daemons[d].next}
      <3>1. PICK s \in Seq(Updates), u \in Updates :
               s = daemons[d].outbound[t] /\ u = daemons[d].next
        BY <2>2
      <3>2. Range(Append(s, u)) = Range(s) \cup {u}
        BY Ranges
      <3> QED
        BY <2>1, <3>1, <3>2
    <2>4. ASSUME NEW u \in HeldBy(daemons[d])
          PROVE  u \in HeldBy(n)
      <3>1. u \in Range(n.outbound[t]) => u \in HeldBy(n)
        BY DEF HeldBy
      <3>2. CASE u = daemons[d].next
        BY <2>3, <3>1, <3>2
      <3>3. CASE u # daemons[d].next
        <4>1. PICK s \in Tuis : u \in Range(daemons[d].outbound[s])
          BY <3>3 DEF HeldBy
        <4>2. u \in Range(n.outbound[s])
          BY <2>1, <2>3, <4>1
        <4> QED
          BY <4>2 DEF HeldBy
      <3> QED
        BY <3>2, <3>3
    <2>5. daemons' = [daemons EXCEPT ![d] = n]
      BY <2>1 DEF Routing
    <2> QED
      BY <2>2, <2>4, <2>5, Remains DEF Kept
  <1> QED
    BY <1>3, <1>4, <1>5, <1>6, <1>7
-----------------------------------------------------------------------------
(* While twins is not set, one daemon serves.                              *)

\* No daemon begins to serve.
NoneServes == \A e \in Daemons : Runs(e)' => Runs(e)

LEMMA StillServes ==
    ASSUME TypeInv, NEW d \in Daemons, NEW n, daemons' = [daemons EXCEPT ![d] = n],
           n.phase = daemons[d].phase \/ n.phase \notin {"serving", "closing"}
    PROVE  NoneServes
  <1>1. daemons'[d] = n /\ \A e \in Daemons : e # d => daemons'[e] = daemons[e]
    BY DaemonAt
  <1> QED
    BY <1>1 DEF NoneServes, Runs

LEMMA QuietServes ==
    ASSUME TypeInv, NEW d \in Daemons, Quiet(d),
           \/ daemons'[d].phase = daemons[d].phase
           \/ daemons'[d].phase \notin {"serving", "closing"}
           \/ Runs(d)
    PROVE  NoneServes
  <1>1. PICK n \in Daemon : daemons' = [daemons EXCEPT ![d] = n]
    BY DEF Quiet
  <1>2. \A e \in Daemons : e # d => daemons'[e] = daemons[e]
    BY <1>1, DaemonAt
  <1> QED
    BY <1>2 DEF NoneServes, Runs

LEMMA ClientServes ==
    ASSUME TypeInv, NEW t \in Tuis, StartTui(t) \/ QuitTui(t) \/ Client(t)
    PROVE  history'.twins = history.twins /\ NoneServes
  <1>1. CASE StartTui(t) \/ QuitTui(t) \/ Disconnected(t)
    BY <1>1, QuitTuiTo DEF StartTui, QuitTui, Disconnected, NoneServes, Runs
  <1>2. CASE Dial(t)
    <2>1. PICK d \in Daemons, n \in Daemon :
             daemons' = [daemons EXCEPT ![d] = n] /\ n.phase = daemons[d].phase
      BY <1>2, DialTo
    <2> QED
      BY <1>2, <2>1, StillServes DEF Dial
  <1>3. CASE Spawn(t)
    BY <1>3, SpawnTo, QuietServes
  <1> QED
    BY <1>1, <1>2, <1>3 DEF Client

LEMMA MainServes ==
    ASSUME TypeInv, NEW d \in Daemons, Main(d) \/ TimerFires(d) \/ Terminate(d) \/ Crash(d)
    PROVE  /\ history.twins => history'.twins
           /\ \/ NoneServes
              \/ /\ \A e \in Daemons : e # d /\ Runs(e)' => Runs(e)
                 /\ (\E e \in Daemons \ {d} : Runs(e)) => history'.twins
  <1>1. CASE Probe(d) \/ Clear(d) \/ TimerFires(d)
    <2>1. Quiet(d) /\ history' = history
      BY <1>1, ProbeTo, ClearTo, TimerFiresTo
    <2>2. \/ daemons'[d].phase = daemons[d].phase
          \/ daemons'[d].phase \notin {"serving", "closing"}
      BY <1>1, ProbeTo, ClearTo, TimerFiresTo
    <2> QED
      BY <2>1, <2>2, QuietServes
  <1>2. CASE Shutdown(d) \/ Terminate(d)
    <2>1. Quiet(d) /\ Runs(d) /\ history'.twins = history.twins
      BY <1>2, ShutdownTo, TerminateTo
    <2> QED
      BY <2>1, QuietServes
  <1>3. CASE Exit(d) \/ Crash(d)
    <2>1. Vanishes(d)
      BY <1>3, ExitTo, CrashTo
    <2>2. daemons' = [daemons EXCEPT ![d] = Down] /\ history'.twins = history.twins
      BY <2>1 DEF Vanishes
    <2> QED
      BY <2>2, StillServes, DownOK, Types
  <1>4. CASE Bind(d)
    <2>1. Quiet(d)
      BY <1>4, BindTo
    <2>2. PICK n \in Daemon : daemons' = [daemons EXCEPT ![d] = n]
      BY <2>1 DEF Quiet
    <2>3. \A e \in Daemons : e # d => daemons'[e] = daemons[e]
      BY <2>2, DaemonAt
    <2>4. CASE daemons'[d].phase = "off" /\ history' = history
      BY <2>1, <2>4, QuietServes
    <2>5. CASE /\ daemons'[d].phase = "serving"
               /\ history.twins => history'.twins
               /\ (\E e \in Daemons \ {d} : Runs(e)) => history'.twins
      BY <2>3, <2>5 DEF Runs
    <2> QED
      BY <1>4, <2>4, <2>5, BindTo
  <1> QED
    BY <1>1, <1>2, <1>3, <1>4 DEF Main

LEMMA PollServes ==
    ASSUME TypeInv, NEW d \in Daemons, PollLoop(d)
    PROVE  history'.twins = history.twins /\ NoneServes
  <1>1. ASSUME NEW n \in Daemon, Routing(d, n)
        PROVE  NoneServes
    BY <1>1, StillServes DEF Routing
  <1>2. CASE Fetch(d) \/ CheckUpdate(d) \/ MarkUpdate(d) \/ Enqueue(d)
    <2>1. \E n \in Daemon : Routing(d, n)
      BY <1>2, FetchTo, CheckUpdateTo, MarkUpdateTo, EnqueueTo
    <2>2. UNCHANGED history
      BY <1>2, FetchTo, CheckUpdateTo, MarkUpdateTo, EnqueueTo
    <2> QED
      BY <1>1, <2>1, <2>2
  <1>3. CASE SelectInstance(d) \/ CancelPending(d) \/ RoutePlain(d) \/ RouteAddressed(d) \/ Push(d)
    <2>1. Answered(d) \/ Routed(d) \/ \E t \in Tuis : Taken(d, t)
      BY <1>3, SelectInstanceTo, CancelPendingTo, RoutePlainTo, RouteAddressedTo, PushTo
    <2>2. \E n \in Daemon : Routing(d, n)
      BY <2>1 DEF Answered, Routed, Taken
    <2>3. history'.twins = history.twins
      BY <2>1 DEF Answered, Routed, Taken
    <2> QED
      BY <1>1, <2>2, <2>3
  <1> QED
    BY <1>2, <1>3 DEF PollLoop

LEMMA HandlerServes ==
    ASSUME TypeInv, NEW d \in Daemons, NEW t \in Tuis, Handler(d, t)
    PROVE  history'.twins = history.twins /\ NoneServes
  <1>1. \E n \in Daemon : Handling(d, t, n)
    BY RegisterTo, ReadPendingTo, DeliverTo, FlushOneTo, EndHandlerTo DEF Handler
  <1>2. history'.twins = history.twins
    BY RegisterTo, ReadPendingTo, DeliverTo, FlushOneTo, EndHandlerTo DEF Handler
  <1> QED
    BY <1>1, <1>2, StillServes DEF Handling

\* That two daemons served is remembered, and one more serves only if no other
\* does, or that is noted.
LEMMA Serves ==
    ASSUME TypeInv, SingleInv, [Next]_vars
    PROVE  (history.twins => history'.twins) /\ SingleInv'
  <1>1. ASSUME history.twins => history'.twins, NoneServes
        PROVE  SingleInv'
    BY <1>1 DEF SingleInv, NoneServes
  <1>2. CASE UNCHANGED vars
    BY <1>2 DEF vars, SingleInv, Runs
  <1>3. ASSUME NEW t \in Tuis, StartTui(t) \/ QuitTui(t) \/ Client(t)
        PROVE  (history.twins => history'.twins) /\ SingleInv'
    BY <1>1, <1>3, ClientServes
  <1>4. ASSUME NEW d \in Daemons, Main(d) \/ TimerFires(d) \/ Terminate(d) \/ Crash(d)
        PROVE  (history.twins => history'.twins) /\ SingleInv'
    <2>1. history.twins => history'.twins
      BY <1>4, MainServes
    <2>2. CASE NoneServes
      BY <1>1, <2>1, <2>2
    <2>3. CASE /\ \A e \in Daemons : e # d /\ Runs(e)' => Runs(e)
               /\ (\E e \in Daemons \ {d} : Runs(e)) => history'.twins
      BY <2>1, <2>3 DEF SingleInv
    <2> QED
      BY <1>4, <2>1, <2>2, <2>3, MainServes
  <1>5. ASSUME NEW d \in Daemons, PollLoop(d)
        PROVE  (history.twins => history'.twins) /\ SingleInv'
    BY <1>1, <1>5, PollServes
  <1>6. ASSUME NEW d \in Daemons, NEW t \in Tuis, Handler(d, t)
        PROVE  (history.twins => history'.twins) /\ SingleInv'
    BY <1>1, <1>6, HandlerServes
  <1> QED
    BY <1>2, <1>3, <1>4, <1>5, <1>6 DEF Next
-----------------------------------------------------------------------------
(* While one daemon serves, a message is in one place.                     *)

LEMMA NothingHeld ==
    ASSUME NEW c, NEW k, NEW h, c.poll = "check",
           \A t \in Tuis : c.outbound[t] = <<>> /\ c.flush[t] = <<>>
    PROVE  HeldOnce(c, k, h)
  <1>1. DOMAIN <<>> = {} /\ Range(<<>>) = {} /\ IsInjective(<<>>)
    BY EmptySeq DEF Range, IsInjective
  <1>2. c.poll # "mark" /\ c.poll \notin Routes
    BY DEF Routes
  <1> QED
    BY <1>1, <1>2 DEF HeldOnce

\* A daemon that does not serve holds nothing.
LEMMA IdleHolds ==
    ASSUME TypeInv, NEW d \in Daemons, ~Runs(d), NEW k, NEW h
    PROVE  HeldOnce(daemons[d], k, h)
  <1>1. Idle(daemons[d]) /\ SameClients(daemons[d], Down)
    BY Idles DEF Runs
  <1>2. \A t \in Tuis : daemons[d].outbound[t] = <<>> /\ daemons[d].flush[t] = <<>>
    BY <1>1, DownOK, Types DEF SameClients
  <1> QED
    BY <1>1, <1>2, NothingHeld DEF Idle

\* A step of the daemon that serves.
LEMMA OnceKept ==
    ASSUME TypeInv, SingleInv, OnceInv, history.twins => history'.twins,
           chat'.sends = chat.sends, NEW d \in Daemons, Runs(d),
           NEW n, daemons' = [daemons EXCEPT ![d] = n],
           ~history.twins => /\ \A u \in Updates : RowOK(u, disk', history')
                             /\ HeldOnce(n, disk', history')
    PROVE  OnceInv'
  <1>1. daemons'[d] = n /\ \A e \in Daemons : e # d => daemons'[e] = daemons[e]
    BY DaemonAt
  <1> SUFFICES ASSUME ~history.twins
               PROVE  /\ \A u \in Updates : RowOK(u, disk', history')
                      /\ \A e \in Daemons : HeldOnce(daemons'[e], disk', history')
    BY SameChat DEF OnceInv
  <1>2. ASSUME NEW e \in Daemons
        PROVE  HeldOnce(daemons'[e], disk', history')
    <2>1. CASE e = d
      BY <1>1, <2>1
    <2>2. CASE e # d
      BY <1>1, <2>2, IdleHolds DEF SingleInv
    <2> QED
      BY <2>1, <2>2
  <1> QED
    BY <1>2

\* No row and no message moves.
LEMMA SameHolds ==
    ASSUME NEW c, NEW n, NEW k, NEW h, NEW k2, NEW h2, HeldOnce(c, k, h),
           k2.rows = k.rows, k2.seen = k.seen, h2.got = h.got,
           n.outbound = c.outbound, n.flush = c.flush,
           n.poll \in Routes <=> c.poll \in Routes,
           n.poll \in Routes => n.next = c.next,
           n.poll # "mark" \/ n.next \notin k.seen \/ (c.poll = "mark" /\ n.next = c.next),
           \A t \in Tuis : n.flush[t] # <<>> => n.address[t] = c.address[t]
    PROVE  HeldOnce(n, k2, h2)
  <1>1. n.poll = "mark" => n.next \notin k2.seen
    BY DEF HeldOnce
  <1>2. n.poll \in Routes =>
           Unrouted(n.next, k2, h2) /\ \A t \in Tuis : n.next \notin Range(n.outbound[t])
    BY DEF HeldOnce, Unrouted
  <1>3. ASSUME NEW t \in Tuis
        PROVE  /\ \A u \in Range(n.outbound[t]) : Pushed(u, k2, h2)
               /\ \A u \in Range(n.flush[t]) : Unpushed(u, n.address[t], k2, h2)
               /\ IsInjective(n.outbound[t]) /\ IsInjective(n.flush[t])
    <2>1. n.flush[t] = <<>> => Range(n.flush[t]) = {}
      BY EmptySeq DEF Range
    <2> QED
      BY <2>1 DEF HeldOnce, Pushed, Unpushed
  <1>4. \A s, t \in Tuis : s # t => Range(n.outbound[s]) \cap Range(n.outbound[t]) = {}
    BY DEF HeldOnce
  <1> QED
    BY <1>1, <1>2, <1>3, <1>4 DEF HeldOnce

LEMMA CalmsOnce ==
    ASSUME TypeInv, OnceInv, history.twins => history'.twins, NEW d \in Daemons,
           Calms(d) \/ Vanishes(d)
    PROVE  OnceInv'
  <1> DEFINE becomes(n) == /\ daemons' = [daemons EXCEPT ![d] = n]
                           /\ ~history.twins => HeldOnce(n, disk', history')
  <1>1. PICK n \in Daemon : becomes(n)
    <2>1. CASE Calms(d)
      <3>1. PICK n \in Daemon :
               LET c == daemons[d]
               IN  /\ daemons' = [daemons EXCEPT ![d] = n]
                   /\ n.outbound = c.outbound /\ n.flush = c.flush
                   /\ \A t \in Tuis : n.flush[t] # <<>> => n.address[t] = c.address[t]
                   /\ n.poll \in Routes <=> c.poll \in Routes
                   /\ n.poll \in Routes => n.next = c.next
                   /\ n.poll = "mark" => n.next \notin disk.seen
                                            \/ (c.poll = "mark" /\ n.next = c.next)
        BY <2>1 DEF Calms
      <3>2. /\ disk'.rows = disk.rows /\ disk'.seen = disk.seen /\ history'.got = history.got
        BY <2>1 DEF Calms
      <3>3. ASSUME ~history.twins
            PROVE  HeldOnce(n, disk', history')
        <4>1. HeldOnce(daemons[d], disk, history)
          BY <3>3 DEF OnceInv
        <4>2. \A t \in Tuis : n.flush[t] # <<>> => n.address[t] = daemons[d].address[t]
          BY <3>1
        <4>3. \/ n.poll # "mark" \/ n.next \notin disk.seen
              \/ (daemons[d].poll = "mark" /\ n.next = daemons[d].next)
          BY <3>1
        <4> QED
          BY <3>1, <3>2, <4>1, <4>2, <4>3, SameHolds
      <3>4. daemons' = [daemons EXCEPT ![d] = n]
        BY <3>1
      <3>5. becomes(n)
        BY <3>3, <3>4
      <3> HIDE DEF becomes
      <3> QED
        BY <3>5
    <2>2. CASE Vanishes(d)
      <3>1. Down \in Daemon
        BY DownOK, Types
      <3>2. becomes(Down)
        BY <2>2, DownOK, NothingHeld, Types DEF Vanishes
      <3> HIDE DEF becomes
      <3> QED
        BY <3>1, <3>2
    <2> QED
      BY <2>1, <2>2
  <1>2. /\ disk'.rows = disk.rows /\ disk'.seen = disk.seen /\ history'.got = history.got
        /\ chat'.sends = chat.sends
    BY DEF Calms, Vanishes
  <1>3. daemons'[d] = n /\ \A e \in Daemons : e # d => daemons'[e] = daemons[e]
    BY <1>1, DaemonAt
  <1> SUFFICES ASSUME ~history.twins
               PROVE  /\ \A u \in Updates : RowOK(u, disk', history')
                      /\ \A e \in Daemons : HeldOnce(daemons'[e], disk', history')
    BY <1>2, SameChat DEF OnceInv
  <1>4. \A u \in Updates : RowOK(u, disk', history')
    BY <1>2 DEF OnceInv, RowOK
  <1>5. ASSUME NEW e \in Daemons, e # d
        PROVE  HeldOnce(daemons'[e], disk', history')
    <2>1. HeldOnce(daemons[e], disk, history)
      BY DEF OnceInv
    <2> QED
      BY <1>2, <1>3, <1>5, <2>1, SameHolds
  <1> QED
    BY <1>1, <1>3, <1>4, <1>5
LEMMA Contents ==
    ASSUME TypeInv, NEW d \in Daemons, NEW t \in Tuis
    PROVE  /\ daemons[d].outbound[t] \in Seq(Updates) /\ daemons[d].flush[t] \in Seq(Updates)
           /\ Range(daemons[d].outbound[t]) \subseteq Updates
           /\ Range(daemons[d].flush[t]) \subseteq Updates
           /\ daemons[d].flush[t] # <<>> => daemons[d].address[t] # Nobody
           /\ \A s \in Tuis : daemons[d].address[s] = daemons[d].address[t]
                                 /\ daemons[d].address[s] # Nobody => s = t
  <1>1. PICK c \in Daemon : c = daemons[d] /\ DaemonOK(c)
    BY DaemonAt
  <1>2. c.outbound[t] \in Queue /\ c.flush[t] \in Seq(Updates)
    BY DEF Daemon
  <1>3. c.outbound[t] \in Seq(Updates)
    BY <1>2, Queues, Types
  <1>4. \A s \in Seq(Updates) : Range(s) \subseteq Updates
    BY DEF Range
  <1>5. c.flush[t] # <<>> => c.address[t] # Nobody
    BY <1>1 DEF DaemonOK
  <1>6. \A s \in Tuis : c.address[s] = c.address[t] /\ c.address[s] # Nobody => s = t
    BY <1>1 DEF DaemonOK
  <1> QED
    BY <1>1, <1>2, <1>3, <1>4, <1>5, <1>6

\* One member less, or one more, and each still at most once.
LEMMA Once ==
    ASSUME NEW S, NEW s \in Seq(S), IsInjective(s)
    PROVE  /\ s # <<>> => /\ IsInjective(Tail(s))
                          /\ Range(Tail(s)) = Range(s) \ {Head(s)} /\ Head(s) \in Range(s)
           /\ \A x \in S \ Range(s) : IsInjective(Append(s, x))
  <1>1. ASSUME s # <<>>
        PROVE  /\ IsInjective(Tail(s))
               /\ Range(Tail(s)) = Range(s) \ {Head(s)} /\ Head(s) \in Range(s)
    <2>1. /\ Head(s) = s[1] /\ Len(s) \in Nat /\ Len(s) >= 1
          /\ Tail(s) \in Seq(S) /\ Len(Tail(s)) = Len(s) - 1
          /\ \A i \in 1..(Len(s) - 1) : Tail(s)[i] = s[i + 1]
      BY <1>1, TailOf
    <2>2. DOMAIN s = 1..Len(s) /\ DOMAIN Tail(s) = 1..(Len(s) - 1)
      BY <2>1
    <2>3. ASSUME NEW i \in DOMAIN Tail(s), NEW j \in DOMAIN Tail(s), Tail(s)[i] = Tail(s)[j]
          PROVE  i = j
      <3>1. i + 1 \in DOMAIN s /\ j + 1 \in DOMAIN s /\ s[i + 1] = s[j + 1]
        BY <2>1, <2>2, <2>3
      <3>2. i + 1 = j + 1
        BY <3>1 DEF IsInjective
      <3> QED
        BY <2>2, <3>2
    <2>4. IsInjective(Tail(s))
      BY <2>3 DEF IsInjective
    <2>5. Head(s) \notin Range(Tail(s))
      <3>1. ASSUME NEW i \in DOMAIN Tail(s), Tail(s)[i] = Head(s)
            PROVE  FALSE
        <4>1. i + 1 \in DOMAIN s /\ 1 \in DOMAIN s /\ s[i + 1] = s[1]
          BY <2>1, <2>2, <3>1
        <4>2. i + 1 = 1
          BY <4>1 DEF IsInjective
        <4> QED
          BY <2>2, <4>2
      <3> QED
        BY <3>1 DEF Range
    <2> QED
      BY <1>1, <2>4, <2>5, Ranges
  <1>2. ASSUME NEW x \in S \ Range(s)
        PROVE  IsInjective(Append(s, x))
    <2>1. /\ Append(s, x) \in Seq(S) /\ Len(Append(s, x)) = Len(s) + 1 /\ Len(s) \in Nat
          /\ \A i \in 1..Len(s) : Append(s, x)[i] = s[i]
          /\ Append(s, x)[Len(s) + 1] = x
      BY AppendProperties
    <2>2. DOMAIN s = 1..Len(s) /\ DOMAIN Append(s, x) = 1..(Len(s) + 1)
      BY <2>1
    <2>3. \A i \in 1..Len(s) : s[i] # x
      BY <2>2 DEF Range
    <2>4. ASSUME NEW i \in 1..(Len(s) + 1), NEW j \in 1..(Len(s) + 1),
                 Append(s, x)[i] = Append(s, x)[j]
          PROVE  i = j
      <3>1. i = Len(s) + 1 \/ i \in 1..Len(s)
        BY <2>1
      <3>2. j = Len(s) + 1 \/ j \in 1..Len(s)
        BY <2>1
      <3>3. CASE i = Len(s) + 1 /\ j = Len(s) + 1
        BY <3>3
      <3>4. CASE i = Len(s) + 1 /\ j \in 1..Len(s)
        BY <2>1, <2>3, <2>4, <3>4
      <3>5. CASE i \in 1..Len(s) /\ j = Len(s) + 1
        BY <2>1, <2>3, <2>4, <3>5
      <3>6. CASE i \in 1..Len(s) /\ j \in 1..Len(s)
        BY <2>1, <2>2, <2>4, <3>6 DEF IsInjective
      <3> QED
        BY <3>1, <3>2, <3>3, <3>4, <3>5, <3>6
    <2> QED
      BY <2>2, <2>4 DEF IsInjective
  <1> QED
    BY <1>1, <1>2

LEMMA MarksOnce ==
    ASSUME TypeInv, SingleInv, OnceInv, history.twins => history'.twins, NEW d \in Daemons,
           Marks(d)
    PROVE  OnceInv'
  <1>1. PICK n \in Daemon :
           /\ Routing(d, n) /\ n.outbound = daemons[d].outbound
           /\ n.poll = "route" /\ n.next = daemons[d].next
    BY DEF Marks
  <1>2. PICK c \in Daemon, u \in Updates :
           c = daemons[d] /\ u = c.next /\ c.poll = "mark"
    BY DaemonAt DEF Marks
  <1>3. /\ disk'.seen = disk.seen \cup {u} /\ disk'.rows = disk.rows
        /\ UNCHANGED <<chat, history>> /\ Runs(d)
    BY <1>2 DEF Marks
  <1>4. ASSUME ~history.twins
        PROVE  /\ \A v \in Updates : RowOK(v, disk', history')
               /\ HeldOnce(n, disk', history')
    <2>1. HeldOnce(c, disk, history) /\ \A v \in Updates : RowOK(v, disk, history)
      BY <1>2, <1>4 DEF OnceInv
    <2>2. u \notin disk.seen
      BY <1>2, <2>1 DEF HeldOnce
    <2>3. Unrouted(u, disk', history')
      BY <1>3, <2>1, <2>2 DEF RowOK, Unrouted
    <2>4. ASSUME NEW v \in Updates
          PROVE  RowOK(v, disk', history')
      BY <1>3, <2>1 DEF RowOK
    <2>5. \A t \in Tuis : \A v \in Range(c.outbound[t]) : v # u /\ Pushed(v, disk', history')
      BY <1>3, <2>1, <2>2 DEF HeldOnce, Pushed
    <2>6. \A t \in Tuis : \A v \in Range(c.flush[t]) : Unpushed(v, c.address[t], disk', history')
      BY <1>3, <2>1 DEF HeldOnce, Unpushed
    <2>7. /\ n.outbound = c.outbound /\ n.flush = c.flush /\ n.address = c.address
          /\ n.poll = "route" /\ n.next = u
      BY <1>1, <1>2 DEF Routing
    <2>8. HeldOnce(n, disk', history')
      BY <2>1, <2>3, <2>5, <2>6, <2>7 DEF HeldOnce
    <2> QED
      BY <2>4, <2>8
  <1>5. daemons' = [daemons EXCEPT ![d] = n]
    BY <1>1 DEF Routing
  <1> QED
    BY <1>3, <1>4, <1>5, OnceKept

LEMMA AnsweredOnce ==
    ASSUME TypeInv, SingleInv, OnceInv, history.twins => history'.twins, NEW d \in Daemons,
           Answered(d)
    PROVE  OnceInv'
  <1>1. PICK n \in Daemon :
           Routing(d, n) /\ n.outbound = daemons[d].outbound /\ n.poll = "check"
    BY DEF Answered
  <1>2. PICK c \in Daemon : c = daemons[d]
    BY DaemonAt
  <1>3. /\ disk'.seen = disk.seen /\ history'.got = history.got /\ UNCHANGED chat /\ Runs(d)
        /\ \A u \in Updates : \/ disk'.rows[u] = disk.rows[u]
                              \/ /\ disk.rows[u].status = "pending"
                                 /\ disk'.rows[u].status = "cancelled"
                                 /\ disk'.rows[u].to = disk.rows[u].to
    BY DEF Answered
  <1>4. ASSUME ~history.twins
        PROVE  /\ \A v \in Updates : RowOK(v, disk', history')
               /\ HeldOnce(n, disk', history')
    <2>1. HeldOnce(c, disk, history) /\ \A v \in Updates : RowOK(v, disk, history)
      BY <1>2, <1>4 DEF OnceInv
    <2>2. ASSUME NEW v \in Updates
          PROVE  RowOK(v, disk', history')
      BY <1>3, <2>1 DEF RowOK
    <2>3. \A t \in Tuis : /\ Range(c.outbound[t]) \subseteq Updates
                       /\ Range(c.flush[t]) \subseteq Updates
      BY <1>2, Contents
    <2>4. ASSUME NEW t \in Tuis, NEW v \in Range(c.outbound[t])
          PROVE  Pushed(v, disk', history')
      BY <1>3, <2>1, <2>3 DEF HeldOnce, Pushed
    <2>5. ASSUME NEW t \in Tuis, NEW v \in Range(c.flush[t])
          PROVE  Unpushed(v, c.address[t], disk', history')
      BY <1>3, <2>1, <2>3 DEF HeldOnce, Unpushed
    <2>6. /\ n.outbound = c.outbound /\ n.flush = c.flush /\ n.address = c.address
          /\ n.poll # "mark" /\ n.poll \notin Routes
      BY <1>1, <1>2 DEF Routing, Routes
    <2>7. HeldOnce(n, disk', history')
      BY <2>1, <2>4, <2>5, <2>6 DEF HeldOnce
    <2> QED
      BY <2>2, <2>7
  <1>5. daemons' = [daemons EXCEPT ![d] = n]
    BY <1>1 DEF Routing
  <1> QED
    BY <1>3, <1>4, <1>5, OnceKept

LEMMA WaitsOnce ==
    ASSUME TypeInv, SingleInv, OnceInv, history.twins => history'.twins, NEW d \in Daemons,
           Waits(d)
    PROVE  OnceInv'
  <1>1. PICK n \in Daemon :
           Routing(d, n) /\ n.outbound = daemons[d].outbound /\ n.poll = "check"
    BY DEF Waits
  <1>2. PICK c \in Daemon, u \in Updates :
           c = daemons[d] /\ u = c.next /\ c.poll = "queue"
    BY DaemonAt DEF Waits
  <1>3. /\ disk'.seen = disk.seen /\ UNCHANGED <<chat, history>> /\ Runs(d)
        /\ disk'.rows[u].status = "pending"
        /\ \A v \in Updates : v # u => disk'.rows[v] = disk.rows[v]
    BY <1>2 DEF Waits
  <1>4. ASSUME ~history.twins
        PROVE  /\ \A v \in Updates : RowOK(v, disk', history')
               /\ HeldOnce(n, disk', history')
    <2>1. HeldOnce(c, disk, history) /\ \A v \in Updates : RowOK(v, disk, history)
      BY <1>2, <1>4 DEF OnceInv
    <2>2. Unrouted(u, disk, history) /\ \A t \in Tuis : u \notin Range(c.outbound[t])
      BY <1>2, <2>1 DEF HeldOnce, Routes
    <2>3. ASSUME NEW v \in Updates
          PROVE  RowOK(v, disk', history')
      BY <1>3, <2>1, <2>2 DEF RowOK, Unrouted
    <2>4. \A t \in Tuis : /\ Range(c.outbound[t]) \subseteq Updates
                       /\ Range(c.flush[t]) \subseteq Updates
      BY <1>2, Contents
    <2>5. ASSUME NEW t \in Tuis, NEW v \in Range(c.outbound[t])
          PROVE  Pushed(v, disk', history')
      BY <1>3, <2>1, <2>2, <2>4 DEF HeldOnce, Pushed
    <2>6. ASSUME NEW t \in Tuis, NEW v \in Range(c.flush[t])
          PROVE  Unpushed(v, c.address[t], disk', history')
      <3>1. v # u
        BY <2>1, <2>2 DEF HeldOnce, Unpushed, Unrouted
      <3> QED
        BY <1>3, <2>1, <2>4, <3>1 DEF HeldOnce, Unpushed
    <2>7. /\ n.outbound = c.outbound /\ n.flush = c.flush /\ n.address = c.address
          /\ n.poll # "mark" /\ n.poll \notin Routes
      BY <1>1, <1>2 DEF Routing, Routes
    <2>8. HeldOnce(n, disk', history')
      BY <2>1, <2>5, <2>6, <2>7 DEF HeldOnce
    <2> QED
      BY <2>3, <2>8
  <1>5. daemons' = [daemons EXCEPT ![d] = n]
    BY <1>1 DEF Routing
  <1> QED
    BY <1>3, <1>4, <1>5, OnceKept
\* What the clients but t hold is as before.
LEMMA HoldsAt ==
    ASSUME NEW c, NEW n, NEW k, NEW h, NEW k2, NEW h2, NEW t \in Tuis, HeldOnce(c, k, h),
           \A s \in Tuis : s # t => n.outbound[s] = c.outbound[s] /\ n.flush[s] = c.flush[s],
           n.poll = "mark" => n.next \notin k2.seen,
           n.poll \in Routes =>
              Unrouted(n.next, k2, h2) /\ \A s \in Tuis : n.next \notin Range(n.outbound[s]),
           \A s \in Tuis : \A u \in Range(n.outbound[s]) : Pushed(u, k2, h2),
           \A s \in Tuis : \A u \in Range(n.flush[s]) : Unpushed(u, n.address[s], k2, h2),
           IsInjective(n.outbound[t]), IsInjective(n.flush[t]),
           \A s \in Tuis : s # t => Range(c.outbound[s]) \cap Range(n.outbound[t]) = {}
    PROVE  HeldOnce(n, k2, h2)
  <1>1. ASSUME NEW s \in Tuis
        PROVE  IsInjective(n.outbound[s]) /\ IsInjective(n.flush[s])
    BY DEF HeldOnce
  <1>2. ASSUME NEW r \in Tuis, NEW s \in Tuis, r # s
        PROVE  Range(n.outbound[r]) \cap Range(n.outbound[s]) = {}
    BY <1>2 DEF HeldOnce
  <1> QED
    BY <1>1, <1>2 DEF HeldOnce

LEMMA TakenOnce ==
    ASSUME TypeInv, SingleInv, OnceInv, history.twins => history'.twins, NEW d \in Daemons,
           NEW t \in Tuis, Taken(d, t)
    PROVE  OnceInv'
  <1>1. PICK c \in Daemon, u \in Updates :
           c = daemons[d] /\ u = c.next /\ c.poll = "push"
    BY DaemonAt DEF Taken
  <1>2. PICK n \in Daemon :
           /\ Routing(d, n) /\ n.poll = "check"
           /\ n.outbound[t] = Append(c.outbound[t], u)
           /\ \A s \in Tuis : s # t => n.outbound[s] = c.outbound[s]
    BY <1>1 DEF Taken
  <1>3. UNCHANGED <<chat, disk, history>> /\ Runs(d) /\ c.outbound[t] \in Seq(Updates)
    BY <1>1 DEF Taken
  <1>4. ASSUME ~history.twins
        PROVE  /\ \A v \in Updates : RowOK(v, disk', history')
               /\ HeldOnce(n, disk', history')
    <2>1. HeldOnce(c, disk, history) /\ \A v \in Updates : RowOK(v, disk, history)
      BY <1>1, <1>4 DEF OnceInv
    <2>2. Unrouted(u, disk, history) /\ \A s \in Tuis : u \notin Range(c.outbound[s])
      BY <1>1, <2>1 DEF HeldOnce, Routes
    <2>3. Pushed(u, disk, history)
      BY <2>2 DEF Unrouted, Pushed
    <2>4. /\ Range(n.outbound[t]) = Range(c.outbound[t]) \cup {u} /\ IsInjective(n.outbound[t])
      <3>1. PICK s \in Seq(Updates) : s = c.outbound[t]
        BY <1>3
      <3>2. u \in Updates \ Range(s) /\ IsInjective(s)
        BY <2>1, <2>2, <3>1 DEF HeldOnce
      <3>3. Range(Append(s, u)) = Range(s) \cup {u} /\ IsInjective(Append(s, u))
        BY <3>2, Ranges, Once
      <3> QED
        BY <1>2, <3>1, <3>3
    <2>5. \A s \in Tuis : \A v \in Range(n.outbound[s]) : Pushed(v, disk, history)
      BY <1>2, <2>1, <2>3, <2>4 DEF HeldOnce
    <2>6. \A s \in Tuis : s # t => Range(c.outbound[s]) \cap Range(n.outbound[t]) = {}
      BY <2>1, <2>2, <2>4 DEF HeldOnce
    <2>7. n.flush = c.flush /\ n.address = c.address /\ n.poll # "mark" /\ n.poll \notin Routes
      BY <1>1, <1>2 DEF Routing, Routes
    <2>8. \A s \in Tuis : \A v \in Range(n.flush[s]) : Unpushed(v, n.address[s], disk, history)
      BY <2>1, <2>7 DEF HeldOnce
    <2>9. IsInjective(n.flush[t])
      BY <2>1, <2>7 DEF HeldOnce
    <2>10. HeldOnce(n, disk, history)
      BY <1>2, <2>1, <2>4, <2>5, <2>6, <2>7, <2>8, <2>9, HoldsAt
    <2> QED
      BY <1>3, <2>1, <2>10
  <1>5. daemons' = [daemons EXCEPT ![d] = n]
    BY <1>2 DEF Routing
  <1> QED
    BY <1>3, <1>4, <1>5, OnceKept

LEMMA ReadsOnce ==
    ASSUME TypeInv, SingleInv, OnceInv, history.twins => history'.twins, NEW d \in Daemons,
           NEW t \in Tuis, Reads(d, t)
    PROVE  OnceInv'
  <1>1. PICK c \in Daemon : c = daemons[d]
    BY DaemonAt
  <1>2. PICK n \in Daemon :
           /\ Handling(d, t, n)
           /\ n.address[t] = c.address[t] /\ n.outbound[t] = c.outbound[t]
           /\ IsInjective(n.flush[t])
           /\ \A i \in DOMAIN n.flush[t] : n.flush[t][i] \in PendingForAddress(c.address[t])
    BY <1>1 DEF Reads
  <1>3. UNCHANGED <<chat, disk, history>> /\ Runs(d)
    BY DEF Reads
  <1>4. /\ n.poll = c.poll /\ n.next = c.next
        /\ \A s \in Tuis : n.address[s] = c.address[s] /\ n.outbound[s] = c.outbound[s]
        /\ \A s \in Tuis : s # t => n.flush[s] = c.flush[s]
    BY <1>1, <1>2 DEF Handling
  <1>5. ASSUME ~history.twins
        PROVE  /\ \A v \in Updates : RowOK(v, disk', history')
               /\ HeldOnce(n, disk', history')
    <2>1. HeldOnce(c, disk, history) /\ \A v \in Updates : RowOK(v, disk, history)
      BY <1>1, <1>5 DEF OnceInv
    <2>2. ASSUME NEW v \in Range(n.flush[t])
          PROVE  Unpushed(v, c.address[t], disk, history)
      <3>1. v \in PendingForAddress(c.address[t])
        BY <1>2 DEF Range
      <3>2. v \in Updates /\ disk.rows[v] = [status |-> "pending", to |-> c.address[t]]
        BY <3>1 DEF PendingForAddress
      <3>3. disk.rows[v].status = "pending" /\ disk.rows[v].to = c.address[t]
        BY <3>2
      <3> QED
        BY <2>1, <3>2, <3>3 DEF Unpushed, RowOK
    <2>3. \A s \in Tuis : \A v \in Range(n.flush[s]) : Unpushed(v, n.address[s], disk, history)
      BY <1>4, <2>1, <2>2 DEF HeldOnce
    <2>4. n.poll \in Routes =>
             Unrouted(n.next, disk, history) /\ \A s \in Tuis : n.next \notin Range(n.outbound[s])
      BY <1>4, <2>1 DEF HeldOnce
    <2>5. n.poll = "mark" => n.next \notin disk.seen
      BY <1>4, <2>1 DEF HeldOnce
    <2>6. /\ IsInjective(n.outbound[t])
          /\ \A s \in Tuis : s # t => Range(c.outbound[s]) \cap Range(n.outbound[t]) = {}
          /\ \A s \in Tuis : \A v \in Range(n.outbound[s]) : Pushed(v, disk, history)
      BY <1>4, <2>1 DEF HeldOnce
    <2>7. /\ \A s \in Tuis : s # t => n.outbound[s] = c.outbound[s] /\ n.flush[s] = c.flush[s]
          /\ IsInjective(n.flush[t])
      BY <1>2, <1>4
    <2>8. HeldOnce(n, disk, history)
      BY <2>1, <2>3, <2>4, <2>5, <2>6, <2>7, HoldsAt
    <2> QED
      BY <1>3, <2>1, <2>8
  <1>6. daemons' = [daemons EXCEPT ![d] = n]
    BY <1>2 DEF Handling
  <1> QED
    BY <1>3, <1>5, <1>6, OnceKept

LEMMA LeavesOnce ==
    ASSUME TypeInv, SingleInv, OnceInv, history.twins => history'.twins, NEW d \in Daemons,
           NEW t \in Tuis, Leaves(d, t)
    PROVE  OnceInv'
  <1>1. PICK c \in Daemon : c = daemons[d]
    BY DaemonAt
  <1>2. PICK n \in Daemon : Handling(d, t, n) /\ n.flush[t] = <<>> /\ n.outbound[t] = <<>>
    BY DEF Leaves
  <1>3. UNCHANGED <<chat, disk>> /\ Runs(d) /\ history'.got = history.got
    BY DEF Leaves
  <1>4. /\ n.poll = c.poll /\ n.next = c.next
        /\ \A s \in Tuis : s # t => /\ n.address[s] = c.address[s]
                                    /\ n.outbound[s] = c.outbound[s] /\ n.flush[s] = c.flush[s]
    BY <1>1, <1>2 DEF Handling
  <1>5. Range(<<>>) = {} /\ IsInjective(<<>>)
    BY EmptySeq DEF Range, IsInjective
  <1>6. ASSUME ~history.twins
        PROVE  /\ \A v \in Updates : RowOK(v, disk', history')
               /\ HeldOnce(n, disk', history')
    <2>1. HeldOnce(c, disk, history) /\ \A v \in Updates : RowOK(v, disk, history)
      BY <1>1, <1>6 DEF OnceInv
    <2>2. ASSUME NEW s \in Tuis, NEW v \in Range(n.flush[s])
          PROVE  Unpushed(v, n.address[s], disk', history')
      BY <1>2, <1>3, <1>4, <1>5, <2>1 DEF HeldOnce, Unpushed
    <2>3. ASSUME NEW s \in Tuis, NEW v \in Range(n.outbound[s])
          PROVE  Pushed(v, disk', history')
      BY <1>2, <1>3, <1>4, <1>5, <2>1 DEF HeldOnce, Pushed
    <2>4. n.poll \in Routes =>
             /\ Unrouted(n.next, disk', history')
             /\ \A s \in Tuis : n.next \notin Range(n.outbound[s])
      BY <1>2, <1>3, <1>4, <1>5, <2>1 DEF HeldOnce, Unrouted
    <2>5. n.poll = "mark" => n.next \notin disk'.seen
      BY <1>3, <1>4, <2>1 DEF HeldOnce
    <2>6. /\ \A s \in Tuis : s # t => n.outbound[s] = c.outbound[s] /\ n.flush[s] = c.flush[s]
          /\ IsInjective(n.outbound[t]) /\ IsInjective(n.flush[t])
          /\ \A s \in Tuis : s # t => Range(c.outbound[s]) \cap Range(n.outbound[t]) = {}
      BY <1>2, <1>4, <1>5
    <2>7. HeldOnce(n, disk', history')
      BY <2>1, <2>2, <2>3, <2>4, <2>5, <2>6, HoldsAt
    <2>8. \A v \in Updates : RowOK(v, disk', history')
      BY <1>3, <2>1 DEF RowOK
    <2> QED
      BY <2>7, <2>8
  <1>7. daemons' = [daemons EXCEPT ![d] = n]
    BY <1>2 DEF Handling
  <1> QED
    BY <1>3, <1>6, <1>7, OnceKept
LEMMA ReceivesOnce ==
    ASSUME TypeInv, SingleInv, OnceInv, history.twins => history'.twins, NEW d \in Daemons,
           NEW t \in Tuis, Receives(d, t)
    PROVE  OnceInv'
  <1>1. PICK c \in Daemon : c = daemons[d]
    BY DaemonAt
  <1>2. PICK q \in Seq(Updates) : q = c.outbound[t] /\ q # <<>>
    BY <1>1 DEF Receives
  <1>3. PICK u \in Updates, n \in Daemon :
           /\ u = Head(q) /\ Handling(d, t, n)
           /\ n.address[t] = c.address[t] /\ n.flush[t] = c.flush[t]
           /\ n.outbound[t] = Tail(q)
           /\ \A v \in Updates : v # u => history'.got[v] = history.got[v]
           /\ history'.got[u] = IF history.got[u] = 2 THEN 2 ELSE history.got[u] + 1
    BY <1>1, <1>2 DEF Receives
  <1>4. UNCHANGED <<chat, disk>> /\ Runs(d)
    BY DEF Receives
  <1>5. /\ n.poll = c.poll /\ n.next = c.next
        /\ \A s \in Tuis : n.address[s] = c.address[s] /\ n.flush[s] = c.flush[s]
        /\ \A s \in Tuis : s # t => n.outbound[s] = c.outbound[s]
    BY <1>1, <1>3 DEF Handling
  <1>6. ASSUME ~history.twins
        PROVE  /\ \A v \in Updates : RowOK(v, disk', history')
               /\ HeldOnce(n, disk', history')
    <2>1. HeldOnce(c, disk, history) /\ \A v \in Updates : RowOK(v, disk, history)
      BY <1>1, <1>6 DEF OnceInv
    <2>2. /\ IsInjective(n.outbound[t]) /\ Range(n.outbound[t]) = Range(q) \ {u}
          /\ u \in Range(q)
      <3>1. IsInjective(q)
        BY <1>2, <2>1 DEF HeldOnce
      <3>2. IsInjective(Tail(q)) /\ Range(Tail(q)) = Range(q) \ {Head(q)} /\ Head(q) \in Range(q)
        BY <1>2, <3>1, Once
      <3> QED
        BY <1>3, <3>2
    <2>3. Pushed(u, disk, history)
      BY <1>2, <2>1, <2>2 DEF HeldOnce
    <2>4. history'.got[u] = 1
      BY <1>3, <2>3 DEF Pushed
    <2>5. ASSUME NEW v \in Updates
          PROVE  RowOK(v, disk', history')
      <3>1. CASE v = u
        BY <1>4, <2>3, <2>4, <3>1 DEF RowOK, Pushed
      <3>2. CASE v # u
        BY <1>3, <1>4, <2>1, <3>2 DEF RowOK
      <3> QED
        BY <3>1, <3>2
    <2>6. \A s \in Tuis : /\ Range(c.outbound[s]) \subseteq Updates
                       /\ Range(c.flush[s]) \subseteq Updates
      BY <1>1, Contents
    <2>7. ASSUME NEW s \in Tuis, NEW v \in Range(n.outbound[s])
          PROVE  Pushed(v, disk', history')
      <3>1. v # u /\ v \in Range(c.outbound[s])
        BY <1>2, <1>5, <2>1, <2>2 DEF HeldOnce
      <3>2. Pushed(v, disk, history) /\ history'.got[v] = history.got[v]
        BY <1>3, <2>1, <2>6, <3>1 DEF HeldOnce
      <3> QED
        BY <1>4, <3>2 DEF Pushed
    <2>8. ASSUME NEW s \in Tuis, NEW v \in Range(n.flush[s])
          PROVE  Unpushed(v, n.address[s], disk', history')
      <3>1. Unpushed(v, n.address[s], disk, history) /\ v \in Updates
        BY <1>5, <2>1, <2>6 DEF HeldOnce
      <3>2. v # u
        BY <2>3, <3>1 DEF Pushed, Unpushed
      <3> QED
        BY <1>3, <1>4, <3>1, <3>2 DEF Unpushed
    <2>9. ASSUME n.poll \in Routes
          PROVE  /\ Unrouted(n.next, disk', history')
                 /\ \A s \in Tuis : n.next \notin Range(n.outbound[s])
      <3>1. Unrouted(n.next, disk, history) /\ \A s \in Tuis : n.next \notin Range(c.outbound[s])
        BY <1>5, <2>1, <2>9 DEF HeldOnce
      <3>2. n.next # u
        BY <1>2, <2>2, <3>1
      <3>3. n.next \in Updates
        <4>1. daemons[d].poll # "check"
          BY <1>1, <1>5, <2>9 DEF Routes
        <4> QED
          BY <1>1, <1>5, <4>1, Holds
      <3>4. \A s \in Tuis : n.next \notin Range(n.outbound[s])
        BY <1>2, <1>5, <2>2, <3>1
      <3> QED
        BY <1>3, <1>4, <3>1, <3>2, <3>3, <3>4 DEF Unrouted
    <2>10. n.poll = "mark" => n.next \notin disk'.seen
      BY <1>4, <1>5, <2>1 DEF HeldOnce
    <2>11. /\ \A s \in Tuis : s # t => n.outbound[s] = c.outbound[s] /\ n.flush[s] = c.flush[s]
           /\ IsInjective(n.flush[t])
           /\ \A s \in Tuis : s # t => Range(c.outbound[s]) \cap Range(n.outbound[t]) = {}
      BY <1>2, <1>5, <2>1, <2>2 DEF HeldOnce
    <2>12. HeldOnce(n, disk', history')
      BY <2>1, <2>2, <2>7, <2>8, <2>9, <2>10, <2>11, HoldsAt
    <2> QED
      BY <2>5, <2>12
  <1>7. daemons' = [daemons EXCEPT ![d] = n]
    BY <1>3 DEF Handling
  <1> QED
    BY <1>4, <1>6, <1>7, OnceKept

LEMMA PushesOnce ==
    ASSUME TypeInv, SingleInv, OnceInv, history.twins => history'.twins, NEW d \in Daemons,
           NEW t \in Tuis, Pushes(d, t)
    PROVE  OnceInv'
  <1>1. PICK c \in Daemon : c = daemons[d]
    BY DaemonAt
  <1>2. PICK f \in Seq(Updates) : f = c.flush[t] /\ f # <<>>
    BY <1>1 DEF Pushes
  <1>3. PICK q \in Seq(Updates) : q = c.outbound[t]
    BY <1>1 DEF Pushes
  <1>4. PICK u \in Updates, n \in Daemon :
           /\ u = Head(f) /\ Handling(d, t, n)
           /\ disk'.rows[u].status = "delivered"
           /\ \A v \in Updates : v # u => disk'.rows[v] = disk.rows[v]
           /\ n.address[t] = c.address[t] /\ n.flush[t] = Tail(f)
           /\ n.outbound[t] = q \/ n.outbound[t] = Append(q, u)
    BY <1>1, <1>2, <1>3 DEF Pushes
  <1>5. /\ UNCHANGED chat /\ Runs(d) /\ history'.got = history.got /\ disk'.seen = disk.seen
    BY DEF Pushes
  <1>6. /\ n.poll = c.poll /\ n.next = c.next
        /\ \A s \in Tuis : n.address[s] = c.address[s]
        /\ \A s \in Tuis : s # t => n.outbound[s] = c.outbound[s] /\ n.flush[s] = c.flush[s]
    BY <1>1, <1>4 DEF Handling
  <1>7. ASSUME ~history.twins
        PROVE  /\ \A v \in Updates : RowOK(v, disk', history')
               /\ HeldOnce(n, disk', history')
    <2>1. HeldOnce(c, disk, history) /\ \A v \in Updates : RowOK(v, disk, history)
      BY <1>1, <1>7 DEF OnceInv
    <2>2. /\ IsInjective(n.flush[t]) /\ Range(n.flush[t]) = Range(f) \ {u} /\ u \in Range(f)
      <3>1. IsInjective(f)
        BY <1>2, <2>1 DEF HeldOnce
      <3>2. IsInjective(Tail(f)) /\ Range(Tail(f)) = Range(f) \ {Head(f)} /\ Head(f) \in Range(f)
        BY <1>2, <3>1, Once
      <3> QED
        BY <1>4, <3>2
    <2>3. Unpushed(u, c.address[t], disk, history)
      BY <1>2, <2>1, <2>2 DEF HeldOnce
    <2>4. u \in disk.seen /\ Pushed(u, disk', history')
      BY <1>4, <1>5, <2>1, <2>3 DEF RowOK, Unpushed, Pushed
    <2>5. \A s \in Tuis : u \notin Range(c.outbound[s])
      BY <2>1, <2>3 DEF HeldOnce, Pushed, Unpushed
    <2>6. /\ IsInjective(n.outbound[t]) /\ Range(n.outbound[t]) \subseteq Range(q) \cup {u}
      <3>1. IsInjective(q) /\ u \in Updates \ Range(q)
        BY <1>3, <2>1, <2>5 DEF HeldOnce
      <3>2. Range(Append(q, u)) = Range(q) \cup {u} /\ IsInjective(Append(q, u))
        BY <3>1, Ranges, Once
      <3> QED
        BY <1>4, <3>1, <3>2
    <2>7. \A s \in Tuis : /\ Range(c.outbound[s]) \subseteq Updates
                       /\ Range(c.flush[s]) \subseteq Updates
      BY <1>1, Contents
    <2>8. ASSUME NEW v \in Updates
          PROVE  RowOK(v, disk', history')
      <3>1. CASE v = u
        BY <1>4, <1>5, <2>3, <2>4, <3>1 DEF RowOK, Unpushed
      <3>2. CASE v # u
        BY <1>4, <1>5, <2>1, <3>2 DEF RowOK
      <3> QED
        BY <3>1, <3>2
    <2>9. ASSUME NEW s \in Tuis, NEW v \in Range(n.outbound[s])
          PROVE  Pushed(v, disk', history')
      <3>1. CASE v = u
        BY <2>4, <3>1
      <3>2. CASE v # u
        <4>1. v \in Range(c.outbound[s])
          BY <1>3, <1>6, <2>6, <3>2
        <4>2. Pushed(v, disk, history) /\ v \in Updates
          BY <2>1, <2>7, <4>1 DEF HeldOnce
        <4> QED
          BY <1>4, <1>5, <3>2, <4>2 DEF Pushed
      <3> QED
        BY <3>1, <3>2
    <2>10. ASSUME NEW s \in Tuis, NEW v \in Range(n.flush[s])
           PROVE  Unpushed(v, n.address[s], disk', history')
      <3>1. v \in Range(c.flush[s])
        BY <1>2, <1>6, <2>2
      <3>2. Unpushed(v, c.address[s], disk, history) /\ v \in Updates
        BY <2>1, <2>7, <3>1 DEF HeldOnce
      <3>3. v # u
        <4>1. CASE s = t
          BY <2>2, <4>1
        <4>2. CASE s # t
          <5>1. c.address[t] # Nobody /\ (c.address[s] = c.address[t] => s = t)
            BY <1>1, <1>2, Contents
          <5> QED
            BY <2>3, <3>2, <4>2, <5>1 DEF Unpushed
        <4> QED
          BY <4>1, <4>2
      <3> QED
        BY <1>4, <1>5, <1>6, <3>2, <3>3 DEF Unpushed
    <2>11. ASSUME n.poll \in Routes
           PROVE  /\ Unrouted(n.next, disk', history')
                  /\ \A s \in Tuis : n.next \notin Range(n.outbound[s])
      <3>1. Unrouted(n.next, disk, history) /\ \A s \in Tuis : n.next \notin Range(c.outbound[s])
        BY <1>6, <2>1, <2>11 DEF HeldOnce
      <3>2. n.next # u
        BY <2>3, <3>1 DEF Unrouted, Unpushed
      <3>3. n.next \in Updates
        <4>1. daemons[d].poll # "check"
          BY <1>1, <1>6, <2>11 DEF Routes
        <4> QED
          BY <1>1, <1>6, <4>1, Holds
      <3>4. \A s \in Tuis : n.next \notin Range(n.outbound[s])
        BY <1>3, <1>6, <2>6, <3>1, <3>2
      <3> QED
        BY <1>4, <1>5, <3>1, <3>2, <3>3, <3>4 DEF Unrouted
    <2>12. n.poll = "mark" => n.next \notin disk'.seen
      BY <1>5, <1>6, <2>1 DEF HeldOnce
    <2>13. \A s \in Tuis : s # t => Range(c.outbound[s]) \cap Range(n.outbound[t]) = {}
      BY <1>3, <2>1, <2>5, <2>6 DEF HeldOnce
    <2>14. /\ \A s \in Tuis : s # t => n.outbound[s] = c.outbound[s] /\ n.flush[s] = c.flush[s]
           /\ IsInjective(n.outbound[t]) /\ IsInjective(n.flush[t])
      BY <1>6, <2>2, <2>6
    <2>15. HeldOnce(n, disk', history')
      BY <2>1, <2>9, <2>10, <2>11, <2>12, <2>13, <2>14, HoldsAt
    <2> QED
      BY <2>8, <2>15
  <1>8. daemons' = [daemons EXCEPT ![d] = n]
    BY <1>4 DEF Handling
  <1> QED
    BY <1>5, <1>7, <1>8, OnceKept

-----------------------------------------------------------------------------
(* The theorems.                                                           *)

LEMMA Initial ==
    ASSUME Init
    PROVE  IInv
  <1>1. PICK scenario \in Scenarios :
           /\ chat = [sends |-> scenario.sends, confirmed |-> 0]
           /\ tuis = [t \in Tuis |-> [state |-> IF t <= scenario.tuis THEN "new" ELSE "gone",
                                      at |-> Nobody]]
           /\ history = [got |-> [u \in Updates |-> 0], settled |-> {},
                         ends |-> scenario.ends, twins |-> FALSE]
    BY DEF Init
  <1>2. /\ disk = [seen |-> {}, rows |-> [u \in Updates |-> [status |-> "none", to |-> Nobody]],
                   known |-> {}, selected |-> Nobody]
        /\ socket = NoFile /\ daemons = [d \in Daemons |-> Down]
    BY DEF Init
  <1>3. /\ scenario.sends \in Seq(Input) /\ scenario.ends \in Nat
        /\ Len(chat.sends) \in Nat /\ chat.sends = scenario.sends
    BY <1>1, ScenariosAssumption
  <1>4. /\ Down \in Daemon /\ DaemonOK(Down) /\ Down.phase = "off" /\ Down.poll = "check"
        /\ \A t \in Tuis : /\ Down.hand[t] = "none" /\ Down.address[t] = Nobody
                           /\ Down.flush[t] = <<>> /\ Down.outbound[t] = <<>>
    <2>1. <<>> \in Seq(Updates) /\ <<>> \in Queue
      <3>1. <<>> \in Seq(Updates) /\ <<>> \in [1..0 -> Updates] /\ 0 \in 0..Cap
        BY EmptySeq, CapAssumption
      <3> QED
        BY <3>1 DEF Queue
    <2>2. 1 \in 1..(Len(chat.sends) + 1) /\ 0 \in 0..Len(chat.sends)
      BY <1>3
    <2>3. Down \in Daemon
      BY <2>1, <2>2 DEF Down, Daemon
    <2> QED
      BY <2>3 DEF Down, DaemonOK, Nobody
  <1>5. TypeOK
    <2>1. chat \in [sends : {s.sends : s \in Scenarios}, confirmed : 0..Len(chat.sends)]
      BY <1>1, <1>3
    <2>2. [u \in Updates |-> [status |-> "none", to |-> Nobody]] \in [Updates -> Row]
      BY DEF Row
    <2>3. disk \in [seen : SUBSET Updates, rows : [Updates -> Row], known : SUBSET Addresses,
                    selected : Addresses \cup {Nobody}]
      BY <1>2, <2>2
    <2>4. tuis \in [Tuis -> [state : {"new", "searching", "waiting", "connected", "gone"},
                             at : Daemons \cup {Nobody}]]
      BY <1>1
    <2>5. history \in [got : [Updates -> 0..2], settled : SUBSET Updates,
                       ends : Nat, twins : BOOLEAN]
      BY <1>1, <1>3
    <2>6. socket \in [exists : BOOLEAN, by : Daemons \cup {Nobody}]
      BY <1>2 DEF NoFile
    <2>7. daemons \in [Daemons -> Daemon]
      BY <1>2, <1>4
    <2> QED
      BY <2>1, <2>3, <2>4, <2>5, <2>6, <2>7 DEF TypeOK
  <1>6. TypeInv
    BY <1>1, <1>2, <1>4, <1>5 DEF TypeInv, Listening, NoFile
  <1>7. SingleInv
    BY <1>2, <1>4 DEF SingleInv, Runs
  <1>8. OnceInv
    <2>1. \A d \in Daemons : HeldOnce(daemons[d], disk, history)
      BY <1>2, <1>4, NothingHeld
    <2>2. \A u \in Updates : RowOK(u, disk, history)
      BY <1>1, <1>2 DEF RowOK
    <2> QED
      BY <2>1, <2>2 DEF OnceInv
  <1>9. NothingVanishes
    BY <1>2 DEF NothingVanishes
  <1> QED
    BY <1>6, <1>7, <1>8, <1>9 DEF IInv

LEMMA Step ==
    ASSUME IInv, [Next]_vars
    PROVE  IInv'
  <1>1. PICK d \in Daemons : Moves(d)
    BY StepMoves DEF IInv
  <1>2. (history.twins => history'.twins) /\ SingleInv'
    BY Serves DEF IInv
  <1>3. TypeInv'
    BY <1>1 DEF Moves, Calms, Vanishes, Marks, Answered, Waits, Reads, Receives, Pushes, Leaves,
                Taken
  <1>4. NothingVanishes'
    BY <1>1, RoutingRemains, ChannelsRemain DEF IInv, Moves
  <1>5. OnceInv'
    BY <1>1, <1>2, CalmsOnce, MarksOnce, AnsweredOnce, WaitsOnce, ReadsOnce, ReceivesOnce,
       PushesOnce, LeavesOnce, TakenOnce DEF IInv, Moves
  <1> QED
    BY <1>2, <1>3, <1>4, <1>5 DEF IInv

THEOREM Invariance == Spec => []IInv
  BY Initial, Step, PTL DEF Spec

\* Every variable keeps its type, and every cell of the daemons' memory fits the
\* step its goroutine is in.
THEOREM TypeCorrect == Spec => []TypeOK
  <1>1. IInv => TypeOK
    BY DEF IInv, TypeInv
  <1> QED
    BY <1>1, Invariance, PTL

\* No message reaches TUIs twice while one daemon serves: processUpdate and
\* flushPending write marks and rows before what they stand for.
THEOREM NoneTwice == Spec => []NeverTwice
  <1>1. IInv => NeverTwice
    BY DEF IInv, OnceInv, RowOK, NeverTwice
  <1> QED
    BY <1>1, Invariance, PTL

\* A marked message is delivered, answered or cancelled, waits in a row or in a
\* daemon's memory, or went down with one, whatever daemons and TUIs do and even
\* when two daemons serve.
THEOREM NoneVanishes == Spec => []NothingVanishes
  <1>1. IInv => NothingVanishes
    BY DEF IInv
  <1> QED
    BY <1>1, Invariance, PTL
=============================================================================
