------------------------ MODULE CodexAdapter_proofs ------------------------
(***************************************************************************)
(* What the end of a turn proves to the Execute that awaits it, for every  *)
(* number of concurrent calls, connections and attempts.                   *)
(*                                                                         *)
(* Only one call at a time has the turn slot, and on a thread of which no  *)
(* call was cancelled everything a connection still runs or announces is   *)
(* of that call's last turn (TurnInv): a turn leaves nothing behind,       *)
(* since the call that gives up on it closes the connection first.         *)
(***************************************************************************)
EXTENDS CodexAdapter, SequenceTheorems, TLAPS

\* Steps at which a call has the slot, uses a connection, and has a turn there.
InSlot == {"turn", "start", "sent", "wait", "drop", "recover", "reopen"}
OnConn == {"start", "sent", "wait"}
InTurn == {"sent", "wait", "drop"}

\* A call r by c, when slot is who has the turn slot.
CallIs(r, slot, c) ==
    /\ r.at = "idle" => r.thread = Nobody
    /\ r.at # "idle" => r.thread # Nobody
    /\ r.at \in InSlot => slot = c
    /\ r.at \in OnConn => r.conn # Nobody
    /\ r.at = "sent" => r.sent # Nobody
    /\ r.done => r.at \in OnConn
    /\ r.cancel = "asked" => r.at # "idle" /\ r.cancelled
    /\ r.outcome # "none" => r.at = "over"

\* Connection k is s: who handles what it announces awaits it, and what is closed
\* and handled by nobody is forgotten.
ConnIs(s, k, cs, rpc, starting) ==
    /\ s.handler # Nobody => cs[s.handler].at \in OnConn /\ cs[s.handler].conn = k
    /\ (s.state = "closed" /\ s.handler = Nobody) => s = NoServer
    /\ s.state # "closed" => k \in {rpc, starting}
    /\ k = starting =>
          s.handler = Nobody /\ s.events = <<>> /\ s.running = NoServer.running

CallOK(c) == CallIs(calls[c], adapter.slot, c)
ConnOK(k) == ConnIs(server[k], k, calls, adapter.rpc, adapter.starting)

LinkInv ==
    /\ TypeOK
    /\ \A c \in Calls : CallOK(c)
    /\ \A k \in Conns : ConnOK(k)
    /\ adapter.starting # Nobody => adapter.rpc = Nobody

\* No call on thread t was cancelled.
Undisturbed(t, cs) == \A c \in Calls : cs[c].thread = t => ~cs[c].cancelled

\* What connection s still says of thread t is of turn v, and the last of it is
\* that v ended.
Says(s, t, v, ended) ==
    /\ s.running[t] \in {NoTurn, v}
    /\ \A i \in 1..Len(s.events) : s.events[i].thread = t =>
          /\ s.events[i].turn = v
          /\ s.events[i].kind = "ended" =>
                /\ v \in ended /\ s.running[t] = NoTurn
                /\ \A j \in 1..Len(s.events) : j > i => s.events[j].thread # t

Silent(s, t) ==
    s.running[t] = NoTurn /\ \A i \in 1..Len(s.events) : s.events[i].thread # t

\* Call r awaits the end of its turn on connection k, or is about to drop that.
Awaits(r, k) ==
    /\ r.at \in InTurn /\ ~r.done
    /\ r.at # "drop" => r.sent = k

TurnOf(r, c) == [call |-> c, attempt |-> r.attempt]

\* What connection s, the k-th, says of thread t is awaited by a call on t.
Heard(s, k, t, cs, ended) ==
    \/ Silent(s, t)
    \/ \E c \in Calls : /\ cs[c].thread = t /\ Awaits(cs[c], k)
                        /\ Says(s, t, TurnOf(cs[c], c), ended)

TurnInv ==
    \A t \in Threads : Undisturbed(t, calls) =>
        /\ \A k \in Conns : Heard(server[k], k, t, calls, history.ended)
        /\ \A c \in Calls : (Thread(c) = t /\ calls[c].done)
                               => calls[c].at # "start" /\ Turn(c) \in history.ended

IInv == LinkInv /\ TurnInv /\ AnswersOwnTurn

-----------------------------------------------------------------------------
(* Types                                                                   *)

Steps == {"idle", "open", "slot", "turn", "start", "sent", "wait", "drop",
          "recover", "reopen", "over"}
Outcomes == {"none", "completed", "failed", "cancelled"}
Someone == Calls \cup {Nobody}
Somewhere == Conns \cup {Nobody}
Perhaps == Turns \cup {NoTurn}

AdapterState == [rpc : Somewhere, starting : Somewhere, sessions : SUBSET Threads,
                 active : [Threads -> Perhaps], cancels : [Threads -> Someone],
                 slot : Someone]
CallState == [at : Steps, thread : Threads \cup {Nobody}, fresh : BOOLEAN, conn : Somewhere,
              sent : Somewhere, done : BOOLEAN, attempt : 0..Attempts - 1,
              continues : 0..ContinueLimit, cancelled : BOOLEAN,
              cancel : {"none", "asked", "done"}, outcome : Outcomes]
HistoryState == [faults : Nat, ended : SUBSET Turns, begun : SUBSET Calls]

LEMMA Typed ==
    TypeOK <=> /\ adapter \in AdapterState /\ server \in [Conns -> Connection]
               /\ calls \in [Calls -> CallState] /\ history \in HistoryState
BY DEF TypeOK, AdapterState, CallState, HistoryState, Steps, Outcomes, Someone, Somewhere,
       Perhaps

LEMMA Names ==
    /\ Nobody \notin Calls /\ Nobody \notin Conns /\ NoTurn \notin Turns
    /\ Threads = Calls /\ 0 \in 0..Attempts - 1 /\ 0 \in 0..ContinueLimit
    /\ Calls \subseteq Nat /\ Conns \subseteq Nat
    /\ Nobody \in Someone /\ Nobody \in Somewhere /\ NoTurn \in Perhaps
BY BoundsAssumption, LimitsAssumption DEF Nobody, Calls, Conns, Threads, NoTurn, Turns,
   Someone, Somewhere, Perhaps

\* A connection nobody uses is one.
LEMMA NoServerType ==
    /\ NoServer \in Connection /\ NoServer.running \in [Threads -> Perhaps]
    /\ NoServer.state = "closed" /\ NoServer.handler = Nobody /\ NoServer.events = <<>>
    /\ \A t \in Threads : NoServer.running[t] = NoTurn
<1>1. <<>> \in Seq(Notification)
  BY EmptySeq
<1> QED
  BY <1>1, Names DEF NoServer, Connection, Someone, Perhaps

\* What a connection has.
LEMMA Parts ==
    ASSUME NEW s \in Connection
    PROVE  /\ s.state \in {"up", "dead", "closed"} /\ s.owner \in Someone
           /\ s.handler \in Someone /\ s.events \in Seq(Notification)
           /\ s.running \in [Threads -> Perhaps]
           /\ \A t \in Threads : s.running[t] \in Perhaps
BY DEF Connection, Someone, Perhaps

LEMMA ClosedType ==
    ASSUME NEW s \in Connection
    PROVE  /\ Closed(s) \in Connection /\ Closed(s).running = NoServer.running
           /\ Closed(s).state = "closed" /\ Closed(s).handler = s.handler
           /\ Closed(s).events \in {s.events, <<>>}
           /\ s.handler = Nobody => Closed(s) = NoServer
BY Parts, NoServerType DEF Closed, Connection, Someone, Perhaps

LEMMA DroppedType ==
    ASSUME NEW s \in Connection
    PROVE  LET n == [s EXCEPT !.handler = Nobody]
           IN  /\ n \in Connection /\ n.running = s.running /\ n.state = s.state
               /\ n.handler = Nobody /\ n.events = s.events
BY Parts, NoServerType DEF Connection, Someone, Perhaps

\* One connection after its handler left: as it was, forgotten, or without him.
LEMMA UnhandledType ==
    ASSUME NEW sv \in [Conns -> Connection], NEW c \in Calls
    PROVE  /\ Unhandled(sv, c) \in [Conns -> Connection]
           /\ \A k \in Conns :
                 \/ sv[k].handler # c /\ Unhandled(sv, c)[k] = sv[k]
                 \/ /\ sv[k].handler = c /\ sv[k].state = "closed"
                    /\ Unhandled(sv, c)[k] = NoServer
                 \/ /\ sv[k].handler = c /\ sv[k].state # "closed"
                    /\ Unhandled(sv, c)[k] = [sv[k] EXCEPT !.handler = Nobody]
<1> DEFINE e(k) == IF sv[k].handler # c THEN sv[k]
                   ELSE IF sv[k].state = "closed" THEN NoServer
                   ELSE [sv[k] EXCEPT !.handler = Nobody]
<1>1. Unhandled(sv, c) = [k \in Conns |-> e(k)]
  BY DEF Unhandled
<1>2. ASSUME NEW k \in Conns
      PROVE  /\ \/ sv[k].handler # c /\ e(k) = sv[k]
                \/ sv[k].handler = c /\ sv[k].state = "closed" /\ e(k) = NoServer
                \/ /\ sv[k].handler = c /\ sv[k].state # "closed"
                   /\ e(k) = [sv[k] EXCEPT !.handler = Nobody]
             /\ e(k) \in Connection
  <2>1. sv[k] \in Connection
    OBVIOUS
  <2>2. [sv[k] EXCEPT !.handler = Nobody] \in Connection
    BY <2>1, DroppedType
  <2>3. CASE sv[k].handler # c
    BY <2>1, <2>3
  <2>4. CASE sv[k].handler = c /\ sv[k].state = "closed"
    BY <2>4, NoServerType
  <2>5. CASE sv[k].handler = c /\ sv[k].state # "closed"
    BY <2>2, <2>5
  <2> QED
    BY <2>3, <2>4, <2>5
<1> HIDE DEF e
<1> QED
  BY <1>1, <1>2

LEMMA EndsTurnType ==
    ASSUME NEW s \in Connection, NEW t \in Threads, s.running[t] # NoTurn
    PROVE  LET n == EndsTurn(s, t)
               e == [thread |-> t, kind |-> "ended", turn |-> s.running[t]]
           IN  /\ n \in Connection /\ n.state = s.state /\ n.handler = s.handler
               /\ n.owner = s.owner /\ e \in Notification
               /\ n.events = Append(s.events, e)
               /\ n.running = [s.running EXCEPT ![t] = NoTurn]
<1> DEFINE e == [thread |-> t, kind |-> "ended", turn |-> s.running[t]]
<1>1. e \in Notification
  BY Parts DEF Notification, Perhaps
<1>2. Append(s.events, e) \in Seq(Notification)
  BY <1>1, Parts
<1>3. [s.running EXCEPT ![t] = NoTurn] \in [Threads -> Perhaps]
  BY Parts, Names
<1> QED
  BY <1>1, <1>2, <1>3, Parts DEF EndsTurn, Connection, Someone, Perhaps

LEMMA ClearedServerType ==
    ASSUME server \in [Conns -> Connection], adapter \in AdapterState
    PROVE  /\ ClearedServer \in [Conns -> Connection]
           /\ \A k \in Conns : ClearedServer[k] =
                 IF k = adapter.rpc THEN Closed(server[k]) ELSE server[k]
BY ClosedType, Names DEF ClearedServer, AdapterState, Somewhere

\* An interruption touches the adapter's connection, and only the turn of thread t.
LEMMA InterruptedType ==
    ASSUME server \in [Conns -> Connection], adapter \in AdapterState, NEW t \in Threads
    PROVE  /\ Interrupted(t) \in [Conns -> Connection]
           /\ \A k \in Conns :
                 \/ Interrupted(t)[k] = server[k]
                 \/ /\ k = adapter.rpc /\ server[k].state = "up"
                    /\ server[k].running[t] # NoTurn
                    /\ Interrupted(t)[k] = EndsTurn(server[k], t)
BY EndsTurnType, Names DEF Interrupted, AdapterState, Somewhere, Up

LEMMA ClearedType ==
    ASSUME adapter \in AdapterState, NEW b \in BOOLEAN
    PROVE  /\ Cleared(b) \in AdapterState
           /\ Cleared(b).rpc = Nobody /\ Cleared(b).starting = adapter.starting
           /\ Cleared(b).slot = adapter.slot
BY Names DEF Cleared, AdapterState

-----------------------------------------------------------------------------
(* How a call goes on                                                      *)

Others(c) == \A d \in Calls : d # c => calls'[d] = calls[d]

\* Call c goes to step at; who cancels it, its thread and the others stay.
Becomes(c, at, conn, sent, done, attempt, outcome) ==
    /\ calls' \in [Calls -> CallState] /\ Others(c)
    /\ calls'[c].at = at /\ calls'[c].conn = conn /\ calls'[c].sent = sent
    /\ calls'[c].done = done /\ calls'[c].attempt = attempt
    /\ calls'[c].outcome = outcome
    /\ calls'[c].thread = calls[c].thread /\ calls'[c].fresh = calls[c].fresh
    /\ calls'[c].cancelled = calls[c].cancelled /\ calls'[c].cancel = calls[c].cancel

\* Only its step changes.
Walks(c, at) == Becomes(c, at, calls[c].conn, calls[c].sent, calls[c].done,
                        calls[c].attempt, calls[c].outcome)
Ends(c, outcome) == Becomes(c, "over", Nobody, Nobody, FALSE, calls[c].attempt, outcome)
Retries(c) == Becomes(c, "recover", Nobody, Nobody, calls[c].done,
                      calls[c].attempt + 1, calls[c].outcome)
Breaks(c) == Becomes(c, "drop", Nobody, Nobody, FALSE, calls[c].attempt, calls[c].outcome)

LEMMA GoesTo ==
    ASSUME calls \in [Calls -> CallState], NEW c \in Calls, NEW at \in Steps, Goes(c, at)
    PROVE  Walks(c, at)
<1>1. PICK r \in CallState : r = calls[c]
  OBVIOUS
<1>2. calls' = [calls EXCEPT ![c] = [r EXCEPT !.at = at]]
  BY <1>1 DEF Goes
<1>3. [r EXCEPT !.at = at] \in CallState
  BY DEF CallState
<1> QED
  BY <1>1, <1>2, <1>3 DEF Walks, Becomes, Others, CallState

LEMMA ReturnsTo ==
    ASSUME calls \in [Calls -> CallState], NEW c \in Calls, NEW outcome \in Outcomes,
           NEW sv \in [Conns -> Connection], NEW ad \in AdapterState, Thread(c) \in Threads,
           Returns(c, outcome, sv, ad)
    PROVE  /\ Ends(c, outcome) /\ server' = sv /\ adapter' \in AdapterState
           /\ adapter'.rpc = ad.rpc /\ adapter'.starting = ad.starting
           /\ adapter'.slot = IF ad.slot = c THEN Nobody ELSE ad.slot
<1>1. PICK r \in CallState : r = calls[c]
  OBVIOUS
<1> DEFINE n == [r EXCEPT !.at = "over", !.outcome = outcome, !.conn = Nobody,
                          !.sent = Nobody, !.done = FALSE]
<1>2. calls' = [calls EXCEPT ![c] = n]
  BY <1>1 DEF Returns
<1>3. n \in CallState
  BY Names DEF CallState, Steps
<1>4. Ends(c, outcome)
  BY <1>1, <1>2, <1>3 DEF Ends, Becomes, Others, CallState
<1>5. /\ adapter' \in AdapterState /\ adapter'.rpc = ad.rpc /\ adapter'.starting = ad.starting
      /\ adapter'.slot = IF ad.slot = c THEN Nobody ELSE ad.slot
  <2>1. PICK s \in Someone : s = IF ad.slot = c THEN Nobody ELSE ad.slot
    BY Names DEF AdapterState
  <2>2. PICK f \in [Threads -> Someone] :
           f = [ad.cancels EXCEPT ![Thread(c)] = IF At(c, "open") THEN @ ELSE Nobody]
    BY Names DEF AdapterState
  <2>3. adapter' = [ad EXCEPT !.slot = s, !.cancels = f]
    BY <2>1, <2>2 DEF Returns, AdapterState
  <2> QED
    BY <2>1, <2>3 DEF AdapterState
<1> QED
  BY <1>4, <1>5 DEF Returns

\* An entry for the thread of c.
LEMMA Entered ==
    ASSUME NEW ad \in AdapterState, NEW t \in Threads
    PROVE  LET n == [ad EXCEPT !.sessions = @ \cup {t}]
           IN  n \in AdapterState /\ n.rpc = ad.rpc /\ n.starting = ad.starting /\ n.slot = ad.slot
BY DEF AdapterState

LEMMA FailsTo ==
    ASSUME calls \in [Calls -> CallState], adapter \in AdapterState, NEW c \in Calls,
           NEW sv \in [Conns -> Connection], Thread(c) \in Threads, Fails(c, sv)
    PROVE  /\ \E o \in {"cancelled", "failed"} : Ends(c, o)
           /\ server' = sv /\ adapter' \in AdapterState
           /\ adapter'.rpc = adapter.rpc /\ adapter'.starting = adapter.starting
           /\ adapter'.slot = IF adapter.slot = c THEN Nobody ELSE adapter.slot
<1> DEFINE n == [adapter EXCEPT !.sessions = @ \cup {Thread(c)}]
           o == IF calls[c].cancelled THEN "cancelled" ELSE "failed"
<1>1. n \in AdapterState /\ n.rpc = adapter.rpc /\ n.starting = adapter.starting /\ n.slot = adapter.slot
  BY Entered
<1>2. o \in {"cancelled", "failed"} /\ o \in Outcomes
  BY DEF Outcomes
<1>3. Returns(c, o, sv, n)
  BY DEF Fails
<1> HIDE DEF n, o
<1>4. /\ Ends(c, o) /\ server' = sv /\ adapter' \in AdapterState
      /\ adapter'.rpc = n.rpc /\ adapter'.starting = n.starting
      /\ adapter'.slot = IF n.slot = c THEN Nobody ELSE n.slot
  BY <1>1, <1>2, <1>3, ReturnsTo
<1> QED
  BY <1>1, <1>2, <1>4

LEMMA TriesAgainTo ==
    ASSUME calls \in [Calls -> CallState], NEW c \in Calls,
           NEW sv \in [Conns -> Connection], NEW ad \in AdapterState, Thread(c) \in Threads,
           TriesAgain(c, sv, ad)
    PROVE  /\ server' = sv /\ adapter' \in AdapterState
           /\ adapter'.rpc = ad.rpc /\ adapter'.starting = ad.starting
           /\ \/ Retries(c) /\ adapter'.slot = ad.slot
              \/ Ends(c, "failed") /\ adapter'.slot = IF ad.slot = c THEN Nobody ELSE ad.slot
<1>1. CASE calls[c].attempt + 1 < Attempts
  <2>1. PICK r \in CallState : r = calls[c]
    OBVIOUS
  <2> DEFINE n == [r EXCEPT !.at = "recover", !.attempt = @ + 1, !.conn = Nobody, !.sent = Nobody]
  <2>2. calls' = [calls EXCEPT ![c] = n] /\ adapter' = ad /\ server' = sv
    BY <1>1, <2>1 DEF TriesAgain
  <2>3. r.attempt + 1 \in 0..Attempts - 1
    BY <1>1, <2>1, LimitsAssumption DEF CallState
  <2>4. n \in CallState
    BY <2>3, Names DEF CallState, Steps
  <2>5. Retries(c)
    BY <2>1, <2>2, <2>4 DEF Retries, Becomes, Others, CallState
  <2> QED
    BY <2>2, <2>5
<1>2. CASE ~(calls[c].attempt + 1 < Attempts)
  <2> DEFINE n == [ad EXCEPT !.sessions = @ \cup {Thread(c)}]
  <2>1. n \in AdapterState /\ n.rpc = ad.rpc /\ n.starting = ad.starting /\ n.slot = ad.slot
    BY Entered
  <2>2. Returns(c, "failed", sv, n)
    BY <1>2 DEF TriesAgain
  <2> HIDE DEF n
  <2>3. "failed" \in Outcomes
    BY DEF Outcomes
  <2>4. /\ Ends(c, "failed") /\ server' = sv /\ adapter' \in AdapterState
        /\ adapter'.rpc = n.rpc /\ adapter'.starting = n.starting
        /\ adapter'.slot = IF n.slot = c THEN Nobody ELSE n.slot
    BY <2>1, <2>2, <2>3, ReturnsTo
  <2> QED
    BY <2>1, <2>4
<1> QED
  BY <1>1, <1>2

LEMMA LostTo ==
    ASSUME calls \in [Calls -> CallState], NEW c \in Calls, server \in [Conns -> Connection],
           NEW ad \in AdapterState, Thread(c) \in Threads, Lost(c, ad)
    PROVE  /\ server' = Unhandled(server, c) /\ adapter' \in AdapterState
           /\ adapter'.rpc = ad.rpc /\ adapter'.starting = ad.starting
           /\ \/ ~calls[c].cancelled /\ Breaks(c) /\ adapter'.slot = ad.slot
              \/ /\ calls[c].cancelled /\ Ends(c, "cancelled")
                 /\ adapter'.slot = IF ad.slot = c THEN Nobody ELSE ad.slot
<1>1. CASE ~calls[c].cancelled
  <2>1. PICK r \in CallState : r = calls[c]
    OBVIOUS
  <2> DEFINE n == [r EXCEPT !.at = "drop", !.conn = Nobody, !.sent = Nobody, !.done = FALSE]
  <2>2. calls' = [calls EXCEPT ![c] = n] /\ adapter' = ad /\ server' = Unhandled(server, c)
    BY <1>1, <2>1 DEF Lost
  <2>3. n \in CallState
    BY Names DEF CallState, Steps
  <2>4. Breaks(c)
    BY <2>1, <2>2, <2>3 DEF Breaks, Becomes, Others, CallState
  <2> QED
    BY <1>1, <2>2, <2>4
<1>2. CASE calls[c].cancelled
  <2> DEFINE n == [ad EXCEPT !.sessions = @ \cup {Thread(c)}]
             sv == Unhandled(server, c)
  <2>1. n \in AdapterState /\ n.rpc = ad.rpc /\ n.starting = ad.starting /\ n.slot = ad.slot
    BY Entered
  <2>2. Returns(c, "cancelled", sv, n)
    BY <1>2 DEF Lost
  <2>3. sv \in [Conns -> Connection]
    BY UnhandledType
  <2>4. "cancelled" \in Outcomes
    BY DEF Outcomes
  <2> HIDE DEF n, sv
  <2>5. /\ Ends(c, "cancelled") /\ server' = sv /\ adapter' \in AdapterState
        /\ adapter'.rpc = n.rpc /\ adapter'.starting = n.starting
        /\ adapter'.slot = IF n.slot = c THEN Nobody ELSE n.slot
    BY <2>1, <2>2, <2>3, <2>4, ReturnsTo
  <2> QED
    BY <1>2, <2>1, <2>5 DEF sv
<1> QED
  BY <1>1, <1>2

-----------------------------------------------------------------------------
(* What a connection says of a thread                                      *)

\* s1 says of thread t no more than s does.
Weaker(s1, s, t) ==
    /\ Silent(s, t) => Silent(s1, t)
    /\ \A v \in Turns, ended \in SUBSET Turns : Says(s, t, v, ended) => Says(s1, t, v, ended)

LEMMA Reflexive ==
    ASSUME NEW s, NEW t
    PROVE  Weaker(s, s, t)
BY DEF Weaker

\* The same, or fewer, announcements and no turn that did not run before.
LEMMA FewerIsWeaker ==
    ASSUME NEW s \in Connection, NEW s1 \in Connection, NEW t \in Threads,
           s1.running[t] \in {NoTurn, s.running[t]}, s1.events \in {<<>>, s.events}
    PROVE  Weaker(s1, s, t)
<1>1. s.events \in Seq(Notification) /\ s1.events \in Seq(Notification)
  BY Parts
<1>2. CASE s1.events = <<>>
  <2>1. Len(s1.events) = 0
    BY <1>2, EmptySeq
  <2> QED
    BY <2>1 DEF Weaker, Silent, Says
<1>3. CASE s1.events = s.events
  BY <1>3 DEF Weaker, Silent, Says
<1> QED
  BY <1>2, <1>3

LEMMA NoServerIsSilent ==
    ASSUME NEW t \in Threads
    PROVE  Silent(NoServer, t)
BY NoServerType, EmptySeq DEF Silent

LEMMA TailIsWeaker ==
    ASSUME NEW s \in Connection, NEW s1 \in Connection, NEW t \in Threads,
           s1.running[t] = s.running[t], s.events # <<>>, s1.events = Tail(s.events)
    PROVE  Weaker(s1, s, t)
<1> DEFINE q == s.events
           q1 == s1.events
<1>1. q \in Seq(Notification) /\ q1 \in Seq(Notification) /\ Len(q) \in Nat /\ Len(q1) \in Nat
  BY Parts, LenProperties
<1>2. Len(q1) = Len(q) - 1 /\ \A i \in 1..Len(q1) : i + 1 \in 1..Len(q) /\ q1[i] = q[i + 1]
  BY <1>1
<1> HIDE DEF q, q1
<1>3. Silent(s, t) => Silent(s1, t)
  BY <1>1, <1>2 DEF Silent, q, q1
<1>4. ASSUME NEW v \in Turns, NEW ended \in SUBSET Turns, Says(s, t, v, ended)
      PROVE  Says(s1, t, v, ended)
  <2>1. s1.running[t] \in {NoTurn, v}
    BY <1>4 DEF Says
  <2>2. ASSUME NEW i \in 1..Len(q1), q1[i].thread = t
        PROVE  /\ q1[i].turn = v
               /\ q1[i].kind = "ended" =>
                     /\ v \in ended /\ s1.running[t] = NoTurn
                     /\ \A j \in 1..Len(q1) : j > i => q1[j].thread # t
    <3>1. i + 1 \in 1..Len(q) /\ q1[i] = q[i + 1]
      BY <1>2, <2>2
    <3>2. /\ q[i + 1].turn = v
          /\ q[i + 1].kind = "ended" =>
                /\ v \in ended /\ s.running[t] = NoTurn
                /\ \A j \in 1..Len(q) : j > i + 1 => q[j].thread # t
      BY <1>4, <2>2, <3>1 DEF Says, q
    <3>3. ASSUME q[i + 1].kind = "ended", NEW j \in 1..Len(q1), j > i
          PROVE  q1[j].thread # t
      <4>1. j + 1 \in 1..Len(q) /\ q1[j] = q[j + 1] /\ j + 1 > i + 1
        BY <1>1, <1>2, <2>2, <3>3
      <4> QED
        BY <3>2, <3>3, <4>1
    <3> QED
      BY <3>1, <3>2, <3>3
  <2> QED
    BY <2>1, <2>2 DEF Says, q1
<1> QED
  BY <1>3, <1>4 DEF Weaker

\* An announcement about another thread.
LEMMA AppendIsWeaker ==
    ASSUME NEW s \in Connection, NEW s1 \in Connection, NEW t \in Threads,
           NEW n \in Notification, n.thread # t,
           s1.running[t] = s.running[t], s1.events = Append(s.events, n)
    PROVE  Weaker(s1, s, t)
<1> DEFINE q == s.events
           q1 == s1.events
<1>1. q \in Seq(Notification) /\ q1 \in Seq(Notification) /\ Len(q) \in Nat /\ Len(q1) \in Nat
  BY Parts, LenProperties
<1>2. /\ Len(q1) = Len(q) + 1 /\ q1[Len(q) + 1] = n
      /\ \A i \in 1..Len(q) : q1[i] = q[i]
  BY <1>1
<1>3. \A i \in 1..Len(q1) : q1[i].thread = t => i \in 1..Len(q) /\ q1[i] = q[i]
  BY <1>1, <1>2
<1> HIDE DEF q, q1
<1>4. Silent(s, t) => Silent(s1, t)
  BY <1>3 DEF Silent, q, q1
<1>5. ASSUME NEW v \in Turns, NEW ended \in SUBSET Turns, Says(s, t, v, ended)
      PROVE  Says(s1, t, v, ended)
  <2>1. s1.running[t] \in {NoTurn, v}
    BY <1>5 DEF Says
  <2>2. ASSUME NEW i \in 1..Len(q1), q1[i].thread = t
        PROVE  /\ q1[i].turn = v
               /\ q1[i].kind = "ended" =>
                     /\ v \in ended /\ s1.running[t] = NoTurn
                     /\ \A j \in 1..Len(q1) : j > i => q1[j].thread # t
    <3>1. i \in 1..Len(q) /\ q1[i] = q[i]
      BY <1>3, <2>2
    <3>2. /\ q[i].turn = v
          /\ q[i].kind = "ended" =>
                /\ v \in ended /\ s.running[t] = NoTurn
                /\ \A j \in 1..Len(q) : j > i => q[j].thread # t
      BY <1>5, <2>2, <3>1 DEF Says, q
    <3> QED
      BY <1>3, <3>1, <3>2
  <2> QED
    BY <2>1, <2>2 DEF Says, q1
<1> QED
  BY <1>4, <1>5 DEF Weaker

\* What a turn's start says of a thread nothing was said of.
LEMMA StartedIsSaid ==
    ASSUME NEW s \in Connection, NEW s1 \in Connection, NEW t \in Threads, NEW v \in Turns,
           NEW ended, Silent(s, t), s1.running[t] = v,
           s1.events = Append(s.events, [thread |-> t, kind |-> "started", turn |-> v])
    PROVE  Says(s1, t, v, ended)
<1> DEFINE q == s.events
           q1 == s1.events
           n == [thread |-> t, kind |-> "started", turn |-> v]
<1>1. q \in Seq(Notification) /\ n \in Notification
  BY Parts DEF Notification
<1>2. /\ Len(q1) = Len(q) + 1 /\ q1[Len(q) + 1] = n
      /\ \A i \in 1..Len(q) : q1[i] = q[i]
  BY <1>1
<1>3. \A i \in 1..Len(q1) : q1[i].thread = t => q1[i] = n
  BY <1>1, <1>2 DEF Silent
<1>4. n.turn = v /\ n.kind # "ended"
  OBVIOUS
<1> HIDE DEF q, q1, n
<1> QED
  BY <1>3, <1>4 DEF Says, q1

\* The end of the turn, when the turn was running: the last that is said of it.
LEMMA EndIsSaid ==
    ASSUME NEW s \in Connection, NEW s1 \in Connection, NEW t \in Threads, NEW v \in Turns,
           NEW ended, NEW more, v \in more, Says(s, t, v, ended), s.running[t] = v, s1.running[t] = NoTurn,
           s1.events = Append(s.events, [thread |-> t, kind |-> "ended", turn |-> v])
    PROVE  Says(s1, t, v, more)
<1> DEFINE q == s.events
           q1 == s1.events
           n == [thread |-> t, kind |-> "ended", turn |-> v]
<1>1. q \in Seq(Notification) /\ n \in Notification /\ Len(q) \in Nat
  BY Parts, LenProperties DEF Notification
<1>2. /\ Len(q1) = Len(q) + 1 /\ q1[Len(q) + 1] = n
      /\ \A i \in 1..Len(q) : q1[i] = q[i]
  BY <1>1
<1>3. n.turn = v
  OBVIOUS
<1> HIDE DEF q, q1, n
<1>4. \A i \in 1..Len(q) : q[i].thread = t => q[i].turn = v /\ q[i].kind # "ended"
  BY Names DEF Says, q
<1>5. ASSUME NEW i \in 1..Len(q1), q1[i].thread = t
      PROVE  /\ q1[i].turn = v
             /\ q1[i].kind = "ended" => \A j \in 1..Len(q1) : ~(j > i)
  <2>1. CASE i \in 1..Len(q)
    BY <1>2, <1>4, <1>5, <2>1
  <2>2. CASE i = Len(q) + 1
    BY <1>1, <1>2, <1>3, <2>2
  <2> QED
    BY <1>1, <1>2, <2>1, <2>2
<1> QED
  BY <1>5 DEF Says, q1

\* When the end of a turn is taken out of the queue, nothing is left of the thread.
LEMMA EndIsLast ==
    ASSUME NEW s \in Connection, NEW s1 \in Connection, NEW t \in Threads, NEW v, NEW ended,
           Says(s, t, v, ended), s.events # <<>>, Head(s.events).thread = t,
           Head(s.events).kind = "ended",
           s1.running[t] = s.running[t], s1.events = Tail(s.events)
    PROVE  Silent(s1, t) /\ v \in ended
<1> DEFINE q == s.events
           q1 == s1.events
<1>1. q \in Seq(Notification) /\ Len(q) \in Nat /\ Len(q) > 0
  BY Parts, LenProperties, EmptySeq
<1>2. /\ Len(q1) = Len(q) - 1 /\ \A i \in 1..Len(q1) : i + 1 \in 1..Len(q) /\ q1[i] = q[i + 1]
      /\ Head(q) = q[1]
  BY <1>1
<1> HIDE DEF q, q1
<1>3. 1 \in 1..Len(q) /\ q[1].thread = t /\ q[1].kind = "ended"
  BY <1>1, <1>2 DEF q
<1>4. /\ v \in ended /\ s.running[t] = NoTurn
      /\ \A j \in 1..Len(q) : j > 1 => q[j].thread # t
  BY <1>3 DEF Says, q
<1>5. \A i \in 1..Len(q1) : i + 1 > 1
  BY <1>1, <1>2
<1> QED
  BY <1>2, <1>4, <1>5 DEF Silent, q1

-----------------------------------------------------------------------------
(* Steps that say nothing new of a thread                                  *)

\* TurnInv and AnswersOwnTurn, of one thread.
TurnAt(t, sv, cs, ended) ==
    /\ \A k \in Conns : Heard(sv[k], k, t, cs, ended)
    /\ \A c \in Calls :
          (cs[c].thread = t /\ (cs[c].done \/ cs[c].outcome = "completed"))
             => cs[c].at # "start" /\ TurnOf(cs[c], c) \in ended

LEMMA TurnsAt ==
    ASSUME LinkInv
    PROVE  (TurnInv /\ AnswersOwnTurn)
              <=> \A t \in Threads : Undisturbed(t, calls) => TurnAt(t, server, calls, history.ended)
<1>1. ASSUME NEW c \in Calls, calls[c].outcome = "completed"
      PROVE  Thread(c) \in Threads /\ calls[c].at # "start"
  <2>1. calls[c].at = "over" /\ Thread(c) # Nobody
    BY <1>1 DEF LinkInv, CallOK, CallIs, Thread
  <2> QED
    BY <2>1, Typed DEF LinkInv, CallState, Thread
<1>2. \A c \in Calls : Turn(c) = TurnOf(calls[c], c) /\ Thread(c) = calls[c].thread
  BY DEF Turn, TurnOf, Thread
<1>3. AnswersOwnTurn <=>
         \A t \in Threads : Undisturbed(t, calls) =>
            \A c \in Calls : (calls[c].thread = t /\ calls[c].outcome = "completed")
                                => TurnOf(calls[c], c) \in history.ended
  BY <1>1, <1>2 DEF AnswersOwnTurn, Undisturbed
<1>4. \A c \in Calls : calls[c].outcome = "completed" => calls[c].at # "start"
  BY <1>1
<1> QED
  BY <1>2, <1>3, <1>4 DEF TurnInv, TurnAt

\* A call named its thread once, and nobody takes a cancellation back.
Monotone ==
    \A c \in Calls : /\ calls[c].thread # Nobody => calls'[c].thread = calls[c].thread
                     /\ calls[c].cancelled => calls'[c].cancelled

LEMMA StillUndisturbed ==
    ASSUME NEW t \in Threads, Monotone, Undisturbed(t, calls')
    PROVE  Undisturbed(t, calls)
BY Names DEF Monotone, Undisturbed

Quiet(t, sv) == \A k \in Conns : Silent(sv[k], t)

\* From r to n, a call on one thread learns nothing, and does not leave its turn
\* unless all is quiet.
CallCalm(n, r, quiet) ==
    /\ n.done => r.done
    /\ n.outcome = "completed" => (r.outcome = "completed" \/ r.done)
    /\ n.done \/ n.outcome = "completed" => (n.at = "start" => r.at = "start")
    /\ \A k \in Conns : (Awaits(r, k) /\ ~quiet) => Awaits(n, k)
    /\ (n.done \/ n.outcome = "completed" \/ \E k \in Conns : Awaits(r, k) /\ ~quiet)
          => n.thread = r.thread /\ n.attempt = r.attempt

Calm(t) ==
    /\ \A k \in Conns : Weaker(server'[k], server[k], t)
    /\ \A c \in Calls : (calls[c].thread = t \/ calls'[c].thread = t)
                           => CallCalm(calls'[c], calls[c], Quiet(t, server'))
    /\ history.ended \subseteq history'.ended

LEMMA TurnType ==
    ASSUME calls \in [Calls -> CallState], NEW c \in Calls
    PROVE  TurnOf(calls[c], c) \in Turns
BY DEF TurnOf, Turns, CallState

LEMMA MoreEnded ==
    ASSUME NEW s, NEW t, NEW v, NEW ended, NEW more, ended \subseteq more, Says(s, t, v, ended)
    PROVE  Says(s, t, v, more)
BY DEF Says

LEMMA CalmKeeps ==
    ASSUME LinkInv, NEW t \in Threads, Calm(t), TurnAt(t, server, calls, history.ended),
           TypeOK'
    PROVE  TurnAt(t, server', calls', history'.ended)
<1>1. /\ calls \in [Calls -> CallState] /\ history.ended \in SUBSET Turns
      /\ history'.ended \in SUBSET Turns
  BY Typed DEF LinkInv, HistoryState, TypeOK
<1>2. ASSUME NEW k \in Conns
      PROVE  Heard(server'[k], k, t, calls', history'.ended)
  <2>1. Heard(server[k], k, t, calls, history.ended) /\ Weaker(server'[k], server[k], t)
    BY DEF TurnAt, Calm
  <2>2. CASE Silent(server[k], t)
    BY <2>1, <2>2 DEF Heard, Weaker
  <2>3. CASE ~Silent(server[k], t)
    <3>1. PICK c \in Calls : /\ calls[c].thread = t /\ Awaits(calls[c], k)
                             /\ Says(server[k], t, TurnOf(calls[c], c), history.ended)
      BY <2>1, <2>3 DEF Heard
    <3>2. CallCalm(calls'[c], calls[c], Quiet(t, server'))
      BY <3>1 DEF Calm
    <3> SUFFICES ASSUME ~Quiet(t, server')
                 PROVE  Heard(server'[k], k, t, calls', history'.ended)
      BY DEF Quiet, Heard
    <3>3. /\ Awaits(calls'[c], k) /\ calls'[c].thread = t
          /\ TurnOf(calls'[c], c) = TurnOf(calls[c], c)
      BY <3>1, <3>2 DEF CallCalm, TurnOf
    <3>4. TurnOf(calls[c], c) \in Turns
      BY <1>1, TurnType
    <3>5. Says(server'[k], t, TurnOf(calls[c], c), history.ended)
      BY <1>1, <2>1, <3>1, <3>4 DEF Weaker
    <3>6. Says(server'[k], t, TurnOf(calls'[c], c), history'.ended)
      BY <3>3, <3>5, MoreEnded DEF Calm
    <3> QED
      BY <3>3, <3>6 DEF Heard
  <2> QED
    BY <2>2, <2>3
<1>3. ASSUME NEW c \in Calls, calls'[c].thread = t,
             calls'[c].done \/ calls'[c].outcome = "completed"
      PROVE  calls'[c].at # "start" /\ TurnOf(calls'[c], c) \in history'.ended
  <2>1. CallCalm(calls'[c], calls[c], Quiet(t, server'))
    BY <1>3 DEF Calm
  <2>2. /\ calls[c].thread = t /\ (calls[c].done \/ calls[c].outcome = "completed")
        /\ TurnOf(calls'[c], c) = TurnOf(calls[c], c)
        /\ calls'[c].at = "start" => calls[c].at = "start"
    BY <1>3, <2>1 DEF CallCalm, TurnOf
  <2>3. calls[c].at # "start" /\ TurnOf(calls[c], c) \in history.ended
    BY <2>2 DEF TurnAt
  <2> QED
    BY <2>2, <2>3 DEF Calm
<1> QED
  BY <1>2, <1>3 DEF TurnAt

-----------------------------------------------------------------------------
(* Who is where                                                            *)

LEMMA Linked ==
    ASSUME LinkInv
    PROVE  /\ adapter \in AdapterState /\ server \in [Conns -> Connection]
           /\ calls \in [Calls -> CallState] /\ history \in HistoryState
           /\ \A c \in Calls : CallIs(calls[c], adapter.slot, c)
           /\ \A k \in Conns : ConnIs(server[k], k, calls, adapter.rpc, adapter.starting)
           /\ adapter.starting # Nobody => adapter.rpc = Nobody
           /\ \A k \in Conns : server[k] \in Connection
           /\ \A c \in Calls : calls[c] \in CallState
BY Typed DEF LinkInv, CallOK, ConnOK

\* The four parts of the invariant after a step.
LEMMA Relinked ==
    ASSUME TypeOK', \A c \in Calls : CallIs(calls'[c], adapter'.slot, c),
           \A k \in Conns : ConnIs(server'[k], k, calls', adapter'.rpc, adapter'.starting),
           adapter'.starting # Nobody => adapter'.rpc = Nobody
    PROVE  LinkInv'
BY DEF LinkInv, CallOK, ConnOK

LEMMA Retyped ==
    ASSUME adapter' \in AdapterState, server' \in [Conns -> Connection],
           calls' \in [Calls -> CallState], history' \in HistoryState
    PROVE  TypeOK'
BY DEF TypeOK, AdapterState, CallState, HistoryState, Steps, Outcomes, Someone, Somewhere,
       Perhaps

\* The other calls, when the slot changes hands between c and nobody at most.
LEMMA OtherCalls ==
    ASSUME LinkInv, NEW c \in Calls, Others(c),
           adapter'.slot = adapter.slot \/ adapter.slot \in {Nobody, c},
           CallIs(calls'[c], adapter'.slot, c)
    PROVE  \A d \in Calls : CallIs(calls'[d], adapter'.slot, d)
<1>1. ASSUME NEW d \in Calls, d # c
      PROVE  CallIs(calls'[d], adapter'.slot, d)
  <2>1. calls'[d] = calls[d] /\ CallIs(calls[d], adapter.slot, d)
    BY <1>1, Linked DEF Others
  <2> QED
    BY <1>1, <2>1, Names DEF CallIs
<1> QED
  BY <1>1

\* A call that is not on a connection, or has not the slot, handles none.
LEMMA HandlerIsOn ==
    ASSUME LinkInv, NEW k \in Conns, server[k].handler # Nobody
    PROVE  /\ server[k].handler \in Calls
           /\ calls[server[k].handler].at \in OnConn
           /\ calls[server[k].handler].conn = k
           /\ adapter.slot = server[k].handler
<1>1. server[k].handler \in Calls
  BY Linked, Parts DEF Someone
<1> QED
  BY <1>1, Linked DEF ConnIs, CallIs, OnConn, InSlot

LEMMA ConnKept ==
    ASSUME NEW c \in Calls, Others(c), NEW k \in Conns, NEW s \in Connection, NEW rpc, NEW starting,
           ConnIs(s, k, calls, rpc, starting),
           s.handler # c \/ (calls'[c].at \in OnConn /\ calls'[c].conn = k)
    PROVE  ConnIs(s, k, calls', rpc, starting)
BY Parts DEF ConnIs, Others, Someone

\* No connection changes, and the call keeps what it handles.
LEMMA SameConns ==
    ASSUME LinkInv, NEW c \in Calls, Others(c), server' = server,
           adapter'.rpc = adapter.rpc, adapter'.starting = adapter.starting,
           calls[c].at \in OnConn => calls'[c].at \in OnConn /\ calls'[c].conn = calls[c].conn
    PROVE  \A k \in Conns : ConnIs(server'[k], k, calls', adapter'.rpc, adapter'.starting)
<1>1. ASSUME NEW k \in Conns
      PROVE  server[k].handler # c \/ (calls'[c].at \in OnConn /\ calls'[c].conn = k)
  BY Linked, Names DEF ConnIs
<1> QED
  BY <1>1, Linked, ConnKept

\* The call leaves the connections it handled.
LEMMA LeftConns ==
    ASSUME LinkInv, NEW c \in Calls, Others(c), NEW sv \in [Conns -> Connection],
           server' = Unhandled(sv, c),
           \A k \in Conns : ConnIs(sv[k], k, calls, adapter.rpc, adapter.starting),
           adapter'.rpc = adapter.rpc, adapter'.starting = adapter.starting
    PROVE  /\ server' \in [Conns -> Connection]
           /\ \A k \in Conns : ConnIs(server'[k], k, calls', adapter'.rpc, adapter'.starting)
<1>1. server' \in [Conns -> Connection]
  BY UnhandledType
<1>2. ASSUME NEW k \in Conns
      PROVE  ConnIs(server'[k], k, calls', adapter.rpc, adapter.starting)
  <2>1. CASE sv[k].handler # c /\ server'[k] = sv[k]
    BY <2>1, ConnKept
  <2>2. CASE server'[k] = NoServer
    BY <2>2, NoServerType DEF ConnIs
  <2>3. CASE /\ sv[k].handler = c /\ sv[k].state # "closed"
             /\ server'[k] = [sv[k] EXCEPT !.handler = Nobody]
    <3>1. /\ server'[k].handler = Nobody /\ server'[k].state = sv[k].state
          /\ server'[k].running = sv[k].running /\ server'[k].events = sv[k].events
      BY <2>3, DroppedType
    <3> QED
      BY <2>3, <3>1 DEF ConnIs
  <2> QED
    BY <2>1, <2>2, <2>3, UnhandledType
<1> QED
  BY <1>1, <1>2

LEMMA LeftIsWeaker ==
    ASSUME NEW c \in Calls, NEW sv \in [Conns -> Connection], NEW t \in Threads, NEW k \in Conns
    PROVE  Weaker(Unhandled(sv, c)[k], sv[k], t)
<1>1. Unhandled(sv, c)[k] \in Connection /\ sv[k] \in Connection
  BY UnhandledType
<1>2. /\ Unhandled(sv, c)[k].running[t] \in {NoTurn, sv[k].running[t]}
      /\ Unhandled(sv, c)[k].events \in {<<>>, sv[k].events}
  <2>1. CASE Unhandled(sv, c)[k] = sv[k]
    BY <2>1
  <2>2. CASE Unhandled(sv, c)[k] = NoServer
    BY <2>2, NoServerType
  <2>3. CASE Unhandled(sv, c)[k] = [sv[k] EXCEPT !.handler = Nobody]
    BY <1>1, <2>3, DroppedType
  <2> QED
    BY <2>1, <2>2, <2>3, UnhandledType
<1> QED
  BY <1>1, <1>2, FewerIsWeaker

\* The adapter's connection is closed, and the adapter has none.
LEMMA ClearedConns ==
    ASSUME LinkInv, server' = ClearedServer, adapter'.rpc = Nobody,
           adapter'.starting = adapter.starting
    PROVE  /\ server' \in [Conns -> Connection]
           /\ \A k \in Conns : ConnIs(server'[k], k, calls, adapter'.rpc, adapter'.starting)
           /\ \A k \in Conns : server'[k].handler = server[k].handler
<1>1. /\ server' \in [Conns -> Connection]
      /\ \A k \in Conns : server'[k] = IF k = adapter.rpc THEN Closed(server[k]) ELSE server[k]
  BY Linked, ClearedServerType
<1>2. ASSUME NEW k \in Conns
      PROVE  /\ ConnIs(server'[k], k, calls, Nobody, adapter.starting)
             /\ server'[k].handler = server[k].handler
  <2>1. server[k] \in Connection /\ ConnIs(server[k], k, calls, adapter.rpc, adapter.starting)
    BY Linked
  <2>2. CASE k = adapter.rpc
    <3>1. server'[k] = Closed(server[k]) /\ k # adapter.starting
      BY <1>1, <2>2, Linked, Names
    <3> QED
      BY <2>1, <3>1, ClosedType, NoServerType DEF ConnIs
  <2>3. CASE k # adapter.rpc
    BY <1>1, <2>1, <2>3 DEF ConnIs
  <2> QED
    BY <2>2, <2>3
<1> QED
  BY <1>1, <1>2

LEMMA ClearedIsWeaker ==
    ASSUME LinkInv, NEW t \in Threads, NEW k \in Conns
    PROVE  Weaker(ClearedServer[k], server[k], t)
<1>1. server[k] \in Connection /\ Closed(server[k]) \in Connection
  BY Linked, ClosedType
<1>2. /\ Closed(server[k]).running[t] \in {NoTurn, server[k].running[t]}
      /\ Closed(server[k]).events \in {<<>>, server[k].events}
  BY <1>1, ClosedType, NoServerType
<1>3. ClearedServer[k] \in {Closed(server[k]), server[k]}
  BY Linked, ClearedServerType
<1> QED
  BY <1>1, <1>2, <1>3, FewerIsWeaker, Reflexive

-----------------------------------------------------------------------------
(* Steps of a call that say nothing new                                    *)

\* The links hold after the step, and of no undisturbed thread is anything new said.
Holds ==
    /\ LinkInv' /\ Monotone
    /\ \A t \in Threads : Undisturbed(t, calls') => Calm(t)

LEMMA CallStep ==
    ASSUME LinkInv, NEW c \in Calls, Others(c), calls' \in [Calls -> CallState],
           adapter' \in AdapterState, server' \in [Conns -> Connection], history' = history,
           adapter'.slot = adapter.slot \/ adapter.slot \in {Nobody, c},
           CallIs(calls'[c], adapter'.slot, c),
           \A k \in Conns : ConnIs(server'[k], k, calls', adapter'.rpc, adapter'.starting),
           adapter'.starting # Nobody => adapter'.rpc = Nobody,
           calls[c].thread # Nobody => calls'[c].thread = calls[c].thread,
           calls[c].cancelled => calls'[c].cancelled,
           ~calls'[c].cancelled =>
              \A t \in Threads : CallCalm(calls'[c], calls[c], Quiet(t, server')),
           \A t \in Threads, k \in Conns : Undisturbed(t, calls') => Weaker(server'[k], server[k], t)
    PROVE  Holds
<1>1. TypeOK'
  BY Linked, Retyped
<1>2. \A d \in Calls : CallIs(calls'[d], adapter'.slot, d)
  BY OtherCalls
<1>3. LinkInv'
  BY <1>1, <1>2, Relinked
<1>4. Monotone
  BY DEF Monotone, Others
<1>5. ASSUME NEW t \in Threads, Undisturbed(t, calls')
      PROVE  Calm(t)
  <2>1. ASSUME NEW d \in Calls, calls[d].thread = t \/ calls'[d].thread = t
        PROVE  CallCalm(calls'[d], calls[d], Quiet(t, server'))
    <3>1. calls'[d].thread = t
      BY <1>4, <2>1, Names DEF Monotone
    <3>2. ~calls'[d].cancelled
      BY <1>5, <3>1 DEF Undisturbed
    <3>3. CASE d = c
      BY <3>2, <3>3
    <3>4. CASE d # c
      BY <3>4 DEF Others, CallCalm
    <3> QED
      BY <3>3, <3>4
  <2> QED
    BY <1>5, <2>1 DEF Calm
<1> QED
  BY <1>3, <1>4, <1>5 DEF Holds

\* A call that ends: when it was cancelled or had no turn it awaited, and when
\* its turn was done if it completes.
LEMMA EndStep ==
    ASSUME LinkInv, NEW c \in Calls, NEW outcome \in Outcomes, Ends(c, outcome), Thread(c) # Nobody,
           adapter' \in AdapterState, server' \in [Conns -> Connection], history' = history,
           adapter'.slot = IF adapter.slot = c THEN Nobody ELSE adapter.slot,
           \A k \in Conns : ConnIs(server'[k], k, calls', adapter'.rpc, adapter'.starting),
           adapter'.starting # Nobody => adapter'.rpc = Nobody,
           outcome = "completed" => calls[c].done,
           \/ calls[c].cancelled \/ calls[c].done \/ calls[c].at \notin InTurn
           \/ \A t \in Threads : Quiet(t, server'),
           \A t \in Threads, k \in Conns : Undisturbed(t, calls') => Weaker(server'[k], server[k], t)
    PROVE  Holds
<1>1. /\ calls' \in [Calls -> CallState] /\ Others(c)
      /\ calls'[c].at = "over" /\ calls'[c].done = FALSE /\ calls'[c].outcome = outcome
      /\ calls'[c].attempt = calls[c].attempt
      /\ calls'[c].thread = calls[c].thread
      /\ calls'[c].cancelled = calls[c].cancelled /\ calls'[c].cancel = calls[c].cancel
  BY DEF Ends, Becomes
<1>2. CallIs(calls[c], adapter.slot, c)
  BY Linked
<1>3. CallIs(calls'[c], adapter'.slot, c)
  BY <1>1, <1>2 DEF CallIs, InSlot, OnConn, Thread
<1>4. ~calls'[c].cancelled => \A t \in Threads : CallCalm(calls'[c], calls[c], Quiet(t, server'))
  BY <1>1 DEF CallCalm, Awaits
<1>5. adapter'.slot = adapter.slot \/ adapter.slot \in {Nobody, c}
  OBVIOUS
<1> QED
  BY <1>1, <1>3, <1>4, <1>5, CallStep

\* A call that goes on without a turn it awaited or, giving up on the connection, with it.
LEMMA GoStep ==
    ASSUME LinkInv, NEW c \in Calls, NEW at \in InSlot \cup {"slot"}, NEW conn, NEW sent, NEW done,
           NEW attempt, Becomes(c, at, conn, sent, done, attempt, calls[c].outcome),
           Thread(c) # Nobody, calls[c].at # "over",
           adapter' \in AdapterState, server' \in [Conns -> Connection], history' = history,
           adapter'.slot = adapter.slot \/ adapter.slot = Nobody,
           at # "slot" => adapter'.slot = c,
           at \in OnConn => conn # Nobody, at = "sent" => sent # Nobody,
           done => at \in OnConn \ {"start"} /\ calls[c].done /\ attempt = calls[c].attempt,
           \A k \in Conns : ConnIs(server'[k], k, calls', adapter'.rpc, adapter'.starting),
           adapter'.starting # Nobody => adapter'.rpc = Nobody,
           \/ calls[c].at \notin InTurn \/ (~done /\ \A t \in Threads : Quiet(t, server'))
           \/ calls[c].done /\ ~done
           \/ at = "drop" /\ ~done /\ attempt = calls[c].attempt
           \/ at = "wait" /\ sent = calls[c].sent /\ done = calls[c].done
                /\ attempt = calls[c].attempt /\ calls[c].at = "sent",
           \A t \in Threads, k \in Conns : Undisturbed(t, calls') => Weaker(server'[k], server[k], t)
    PROVE  Holds
<1>1. /\ calls' \in [Calls -> CallState] /\ Others(c)
      /\ calls'[c].at = at /\ calls'[c].done = done /\ calls'[c].outcome = calls[c].outcome
      /\ calls'[c].attempt = attempt /\ calls'[c].conn = conn /\ calls'[c].sent = sent
      /\ calls'[c].thread = calls[c].thread
      /\ calls'[c].cancelled = calls[c].cancelled /\ calls'[c].cancel = calls[c].cancel
  BY DEF Becomes
<1>2. CallIs(calls[c], adapter.slot, c)
  BY Linked
<1>3. calls'[c].outcome = "none"
  BY <1>1, <1>2 DEF CallIs
<1>4. CallIs(calls'[c], adapter'.slot, c)
  BY <1>1, <1>2, <1>3 DEF CallIs, InSlot, OnConn, Thread
<1>5. \A t \in Threads : CallCalm(calls'[c], calls[c], Quiet(t, server'))
  BY <1>1, <1>3 DEF CallCalm, Awaits, InTurn, OnConn
<1> QED
  BY <1>1, <1>4, <1>5, CallStep

\* Steps of no call.
LEMMA ServerStep ==
    ASSUME LinkInv, calls' = calls, adapter' \in AdapterState, history' \in HistoryState,
           server' \in [Conns -> Connection], history'.ended = history.ended,
           adapter'.slot = adapter.slot,
           \A k \in Conns : ConnIs(server'[k], k, calls', adapter'.rpc, adapter'.starting),
           adapter'.starting # Nobody => adapter'.rpc = Nobody,
           \A t \in Threads, k \in Conns : Weaker(server'[k], server[k], t)
    PROVE  Holds
<1>1. TypeOK'
  BY Linked, Retyped
<1>2. LinkInv'
  BY <1>1, Linked, Relinked
<1>3. \A c \in Calls, t \in Threads : CallCalm(calls'[c], calls[c], Quiet(t, server'))
  BY DEF CallCalm
<1> QED
  BY <1>2, <1>3 DEF Holds, Monotone, Calm

LEMMA HasThread ==
    ASSUME LinkInv, NEW c \in Calls, calls[c].at # "idle"
    PROVE  Thread(c) \in Threads /\ Thread(c) # Nobody
BY Linked DEF CallIs, CallState, Thread

-----------------------------------------------------------------------------
(* The actions of an Execute                                               *)

LEMMA SameServer ==
    ASSUME LinkInv, server' = server
    PROVE  /\ server' \in [Conns -> Connection]
           /\ \A t \in Threads, k \in Conns : Weaker(server'[k], server[k], t)
BY Linked, Reflexive

\* The idle call names a thread; nothing was awaited by it.
LEMMA CallHolds ==
    ASSUME LinkInv, NEW c \in Calls, NEW t \in Threads, NEW fresh \in BOOLEAN, Call(c, t, fresh)
    PROVE  Holds
<1>1. PICK r \in CallState : r = calls[c]
  BY Linked
<1> DEFINE n == [r EXCEPT !.at = "open", !.thread = t, !.fresh = fresh]
<1>2. /\ calls' = [calls EXCEPT ![c] = n] /\ r.at = "idle" /\ server' = server
      /\ adapter' = adapter /\ history' = history
  BY <1>1 DEF Call, At
<1>3. /\ n \in CallState /\ n.at = "open" /\ n.thread = t /\ n.done = r.done /\ n.cancel = r.cancel
      /\ n.cancelled = r.cancelled /\ n.outcome = r.outcome /\ n.conn = r.conn /\ n.sent = r.sent
  BY DEF CallState, Steps
<1> HIDE DEF n
<1>4. /\ calls' \in [Calls -> CallState] /\ Others(c) /\ calls'[c] = n /\ calls[c].thread = Nobody
  BY <1>1, <1>2, <1>3, Linked DEF Others, CallIs
<1>5. CallIs(r, adapter.slot, c)
  BY <1>1, Linked
<1>6. CallIs(n, adapter.slot, c)
  BY <1>2, <1>3, <1>5, Names DEF CallIs, InSlot, OnConn
<1>7. \A q : CallCalm(n, r, q)
  BY <1>2, <1>3, <1>5 DEF CallCalm, Awaits, CallIs, InTurn, OnConn
<1>8. \A k \in Conns : ConnIs(server'[k], k, calls', adapter'.rpc, adapter'.starting)
  BY <1>1, <1>2, <1>4, SameConns DEF OnConn
<1> QED
  BY <1>1, <1>2, <1>3, <1>4, <1>6, <1>7, <1>8, SameServer, CallStep, Linked

\* The new connection is the starting one, and nothing is announced there.
LEMMA SpawnHolds ==
    ASSUME LinkInv, NEW c \in Calls, Spawn(c)
    PROVE  Holds
<1>1. PICK k \in Conns : /\ server[k] = NoServer
                         /\ server' = [server EXCEPT ![k].state = "up", ![k].owner = c]
                         /\ adapter' = [adapter EXCEPT !.starting = k]
  BY DEF Spawn, Free
<1>2. /\ calls' = calls /\ history' = history /\ adapter.rpc = Nobody /\ adapter.starting = Nobody
  BY DEF Spawn, NeedsServer
<1> DEFINE n == [NoServer EXCEPT !.state = "up", !.owner = c]
<1>3. /\ n \in Connection /\ n.state = "up" /\ n.handler = Nobody /\ n.events = <<>>
      /\ n.running = NoServer.running
  BY NoServerType DEF Connection, Someone, Perhaps
<1>4. server' = [server EXCEPT ![k] = n]
  BY <1>1, Linked
<1> HIDE DEF n
<1>5. /\ adapter' \in AdapterState /\ adapter'.slot = adapter.slot /\ adapter'.rpc = Nobody
      /\ adapter'.starting = k
  BY <1>1, <1>2, Linked DEF AdapterState, Somewhere
<1>6. server' \in [Conns -> Connection]
  BY <1>3, <1>4, Linked
<1>7. ASSUME NEW j \in Conns
      PROVE  /\ ConnIs(server'[j], j, calls, Nobody, k)
             /\ \A t \in Threads : Weaker(server'[j], server[j], t)
  <2>1. CASE j = k
    <3>1. server'[j] = n /\ server[j] = NoServer
      BY <1>1, <1>4, <2>1, Linked
    <3>2. ConnIs(n, j, calls, Nobody, k)
      BY <1>3, <2>1 DEF ConnIs
    <3> QED
      BY <1>3, <3>1, <3>2, NoServerType, FewerIsWeaker
  <2>2. CASE j # k
    <3>1. server'[j] = server[j]
      BY <1>4, <2>2, Linked
    <3>2. ConnIs(server[j], j, calls, Nobody, Nobody)
      BY <1>2, Linked
    <3> QED
      BY <2>2, <3>1, <3>2, Reflexive, Names DEF ConnIs
  <2> QED
    BY <2>1, <2>2
<1>8. \A j \in Conns : ConnIs(server'[j], j, calls', adapter'.rpc, adapter'.starting)
  BY <1>2, <1>5, <1>7
<1> QED
  BY <1>2, <1>5, <1>6, <1>7, <1>8, ServerStep, Linked

LEMMA HandshakeHolds ==
    ASSUME LinkInv, NEW c \in Calls, Handshake(c)
    PROVE  Holds
<1>1. /\ adapter' = [adapter EXCEPT !.rpc = adapter.starting, !.starting = Nobody]
      /\ server' = server /\ calls' = calls /\ history' = history /\ adapter.rpc = Nobody
      /\ adapter.starting # Nobody
  BY Linked DEF Handshake, Starts
<1>2. /\ adapter' \in AdapterState /\ adapter'.slot = adapter.slot
      /\ adapter'.rpc = adapter.starting /\ adapter'.starting = Nobody
  BY <1>1, Linked, Names DEF AdapterState
<1>3. ASSUME NEW k \in Conns
      PROVE  ConnIs(server[k], k, calls, adapter.starting, Nobody)
  <2>1. ConnIs(server[k], k, calls, Nobody, adapter.starting)
    BY <1>1, Linked
  <2> QED
    BY <2>1, Names DEF ConnIs
<1> QED
  BY <1>1, <1>2, <1>3, SameServer, ServerStep, Linked

LEMMA OpenHolds ==
    ASSUME LinkInv, NEW c \in Calls, Open(c)
    PROVE  Holds
<1>1. /\ calls[c].at = "open" /\ Goes(c, "slot") /\ server' = server /\ history' = history
  BY DEF Open, At
<1>2. Thread(c) \in Threads /\ Thread(c) # Nobody
  BY <1>1, HasThread
<1>3. PICK x \in SUBSET Threads :
         adapter' = [adapter EXCEPT !.sessions = x, !.cancels[Thread(c)] = c]
  <2>1. CASE adapter' = [adapter EXCEPT !.sessions = @ \cup {Thread(c)}, !.cancels[Thread(c)] = c]
    BY <1>2, <2>1, Linked DEF AdapterState
  <2>2. CASE adapter' = [adapter EXCEPT !.cancels[Thread(c)] = c]
    BY <2>2, Linked DEF AdapterState
  <2> QED
    BY <2>1, <2>2 DEF Open
<1>4. /\ adapter' \in AdapterState /\ adapter'.slot = adapter.slot
      /\ adapter'.rpc = adapter.rpc /\ adapter'.starting = adapter.starting
  BY <1>3, Linked DEF AdapterState, Someone
<1>5. Walks(c, "slot")
  BY <1>1, GoesTo, Linked DEF Steps
<1>6. calls[c].at \notin OnConn /\ calls[c].at \notin InTurn
  BY <1>1 DEF OnConn, InTurn
<1>7. Others(c) /\ ~calls[c].done
  BY <1>5, <1>6, Linked DEF Walks, Becomes, CallIs
<1>8. \A k \in Conns : ConnIs(server'[k], k, calls', adapter'.rpc, adapter'.starting)
  BY <1>1, <1>4, <1>6, <1>7, SameConns
<1> QED
  BY <1>1, <1>2, <1>4, <1>5, <1>6, <1>7, <1>8, SameServer, GoStep, Linked DEF Walks, OnConn

LEMMA OpenFailsHolds ==
    ASSUME LinkInv, NEW c \in Calls, OpenFails(c)
    PROVE  Holds
<1>1. calls[c].at = "open" /\ Returns(c, "failed", server, adapter) /\ history' = history
  BY DEF OpenFails, At
<1>2. Thread(c) \in Threads /\ Thread(c) # Nobody
  BY <1>1, HasThread
<1>3. "failed" \in Outcomes /\ calls[c].at \notin OnConn /\ calls[c].at \notin InTurn
  BY <1>1 DEF Outcomes, OnConn, InTurn
<1>4. /\ Ends(c, "failed") /\ server' = server /\ adapter' \in AdapterState
      /\ adapter'.rpc = adapter.rpc /\ adapter'.starting = adapter.starting
      /\ adapter'.slot = IF adapter.slot = c THEN Nobody ELSE adapter.slot
  BY <1>1, <1>2, <1>3, ReturnsTo, Linked
<1>5. Others(c)
  BY <1>4 DEF Ends, Becomes
<1>6. \A k \in Conns : ConnIs(server'[k], k, calls', adapter'.rpc, adapter'.starting)
  BY <1>3, <1>4, <1>5, SameConns
<1> QED
  BY <1>1, <1>2, <1>3, <1>4, <1>6, SameServer, EndStep, Linked

LEMMA LeaveSlotHolds ==
    ASSUME LinkInv, NEW c \in Calls, LeaveSlot(c)
    PROVE  Holds
<1>1. calls[c].at = "slot" /\ Returns(c, "cancelled", server, adapter) /\ history' = history
  BY DEF LeaveSlot, At
<1>2. Thread(c) \in Threads /\ Thread(c) # Nobody
  BY <1>1, HasThread
<1>3. "cancelled" \in Outcomes /\ calls[c].at \notin OnConn /\ calls[c].at \notin InTurn
  BY <1>1 DEF Outcomes, OnConn, InTurn
<1>4. /\ Ends(c, "cancelled") /\ server' = server /\ adapter' \in AdapterState
      /\ adapter'.rpc = adapter.rpc /\ adapter'.starting = adapter.starting
      /\ adapter'.slot = IF adapter.slot = c THEN Nobody ELSE adapter.slot
  BY <1>1, <1>2, <1>3, ReturnsTo, Linked
<1>5. Others(c)
  BY <1>4 DEF Ends, Becomes
<1>6. \A k \in Conns : ConnIs(server'[k], k, calls', adapter'.rpc, adapter'.starting)
  BY <1>3, <1>4, <1>5, SameConns
<1> QED
  BY <1>1, <1>2, <1>3, <1>4, <1>6, SameServer, EndStep, Linked

LEMMA TakeSlotHolds ==
    ASSUME LinkInv, NEW c \in Calls, TakeSlot(c)
    PROVE  Holds
<1>1. /\ calls[c].at = "slot" /\ Goes(c, "turn") /\ server' = server /\ history' = history
      /\ adapter.slot = Nobody /\ adapter' = [adapter EXCEPT !.slot = c]
  BY DEF TakeSlot, At
<1>2. Thread(c) \in Threads /\ Thread(c) # Nobody
  BY <1>1, HasThread
<1>3. /\ adapter' \in AdapterState /\ adapter'.slot = c
      /\ adapter'.rpc = adapter.rpc /\ adapter'.starting = adapter.starting
  BY <1>1, Linked DEF AdapterState, Someone
<1>4. Walks(c, "turn")
  BY <1>1, GoesTo, Linked DEF Steps
<1>5. calls[c].at \notin OnConn /\ calls[c].at \notin InTurn
  BY <1>1 DEF OnConn, InTurn
<1>6. Others(c) /\ ~calls[c].done
  BY <1>4, <1>5, Linked DEF Walks, Becomes, CallIs
<1>7. \A k \in Conns : ConnIs(server'[k], k, calls', adapter'.rpc, adapter'.starting)
  BY <1>1, <1>3, <1>5, <1>6, SameConns
<1> QED
  BY <1>1, <1>2, <1>3, <1>4, <1>5, <1>6, <1>7, SameServer, GoStep, Linked DEF Walks, OnConn, InSlot

\* The handlers of c are the first on this connection: nobody else has the slot.
LEMMA CaptureHolds ==
    ASSUME LinkInv, NEW c \in Calls, Capture(c)
    PROVE  Holds
<1>1. /\ calls[c].at = "turn" /\ history' = history /\ adapter.rpc # Nobody
      /\ calls' = [calls EXCEPT ![c].at = "start", ![c].conn = adapter.rpc, ![c].done = FALSE]
      /\ adapter' = [adapter EXCEPT !.sessions = @ \cup {Thread(c)}]
      /\ server' = [server EXCEPT ![adapter.rpc].handler = c]
  BY DEF Capture, At
<1>2. Thread(c) \in Threads /\ Thread(c) # Nobody
  BY <1>1, HasThread
<1>3. /\ adapter' \in AdapterState /\ adapter'.slot = adapter.slot
      /\ adapter'.rpc = adapter.rpc /\ adapter'.starting = adapter.starting
  BY <1>1, <1>2, Entered, Linked
<1>4. PICK k \in Conns : k = adapter.rpc
  BY <1>1, Linked DEF AdapterState, Somewhere
<1>5. adapter.slot = c /\ adapter.starting = Nobody
  BY <1>1, Linked DEF CallIs, InSlot
<1>6. Becomes(c, "start", k, calls[c].sent, FALSE, calls[c].attempt, calls[c].outcome)
  <2>1. PICK r \in CallState : r = calls[c]
    BY Linked
  <2> DEFINE n == [r EXCEPT !.at = "start", !.conn = k, !.done = FALSE]
  <2>2. calls' = [calls EXCEPT ![c] = n]
    BY <1>1, <1>4, <2>1
  <2>3. n \in CallState
    BY DEF CallState, Steps, Somewhere
  <2> QED
    BY <2>1, <2>2, <2>3, Linked DEF Becomes, Others, CallState
<1>7. PICK s \in Connection : s = server[k]
  BY Linked
<1> DEFINE n == [s EXCEPT !.handler = c]
<1>8. /\ n \in Connection /\ n.state = s.state /\ n.handler = c /\ n.events = s.events
      /\ n.running = s.running
  BY DEF Connection
<1>9. server' = [server EXCEPT ![k] = n]
  BY <1>1, <1>4, <1>7
<1> HIDE DEF n
<1>10. server' \in [Conns -> Connection]
  BY <1>8, <1>9, Linked
<1>11. Others(c) /\ calls'[c].at = "start" /\ calls'[c].conn = k
  BY <1>6 DEF Becomes
<1>12. ASSUME NEW j \in Conns
       PROVE  /\ ConnIs(server'[j], j, calls', adapter.rpc, Nobody)
              /\ \A t \in Threads : Weaker(server'[j], server[j], t)
  <2>1. CASE j = k
    <3>1. server'[j] = n /\ server[j] = s
      BY <1>7, <1>9, <2>1, Linked
    <3>2. ConnIs(n, j, calls', adapter.rpc, Nobody)
      BY <1>4, <1>8, <1>11, <2>1, Names DEF ConnIs, OnConn
    <3> QED
      BY <1>7, <1>8, <3>1, <3>2, FewerIsWeaker
  <2>2. CASE j # k
    <3>1. server'[j] = server[j]
      BY <1>9, <2>2, Linked
    <3>2. server[j].handler # c
      BY <1>1, HandlerIsOn, Names DEF OnConn
    <3>3. ConnIs(server[j], j, calls, adapter.rpc, Nobody)
      BY <1>5, Linked
    <3>4. ConnIs(server[j], j, calls', adapter.rpc, Nobody)
      BY <1>11, <3>2, <3>3, ConnKept, Linked
    <3> QED
      BY <3>1, <3>4, Reflexive
  <2> QED
    BY <2>1, <2>2
<1>13. \A j \in Conns : ConnIs(server'[j], j, calls', adapter'.rpc, adapter'.starting)
  BY <1>3, <1>5, <1>12
<1>14. calls[c].at \notin InTurn /\ k # Nobody
  BY <1>1, Names DEF InTurn
<1>15. "start" \in InSlot \cup {"slot"} /\ calls[c].at # "over"
  BY <1>1 DEF InSlot
<1> QED
  BY <1>1, <1>2, <1>3, <1>5, <1>6, <1>10, <1>12, <1>13, <1>14, <1>15, GoStep, Linked

LEMMA AnswerHolds ==
    ASSUME LinkInv, NEW c \in Calls, Answer(c)
    PROVE  Holds
<1>1. /\ calls[c].at = "sent" /\ Goes(c, "wait") /\ server' = server /\ history' = history
      /\ adapter' = [adapter EXCEPT !.active[Thread(c)] = Turn(c)]
  BY DEF Answer, At
<1>2. Thread(c) \in Threads /\ Thread(c) # Nobody
  BY <1>1, HasThread
<1>3. Turn(c) \in Perhaps
  BY TurnType, Linked DEF Turn, TurnOf, Perhaps
<1>4. /\ adapter' \in AdapterState /\ adapter'.slot = adapter.slot
      /\ adapter'.rpc = adapter.rpc /\ adapter'.starting = adapter.starting
  BY <1>1, <1>2, <1>3, Linked DEF AdapterState
<1>5. Walks(c, "wait")
  BY <1>1, GoesTo, Linked DEF Steps
<1>6. adapter.slot = c /\ calls[c].conn # Nobody
  BY <1>1, Linked DEF CallIs, InSlot, OnConn
<1>7. Others(c) /\ calls'[c].at \in OnConn /\ calls'[c].conn = calls[c].conn
  BY <1>5 DEF Walks, Becomes, OnConn
<1>8. \A k \in Conns : ConnIs(server'[k], k, calls', adapter'.rpc, adapter'.starting)
  BY <1>1, <1>4, <1>7, SameConns
<1>9. /\ "wait" \in InSlot \cup {"slot"} /\ calls[c].at # "over"
      /\ "wait" \in OnConn => calls[c].conn # Nobody
      /\ "wait" = "sent" => calls[c].sent # Nobody
      /\ calls[c].done => "wait" \in OnConn \ {"start"} /\ calls[c].done /\ calls[c].attempt = calls[c].attempt
      /\ "wait" # "slot" => adapter'.slot = c
  BY <1>1, <1>4, <1>6 DEF OnConn, InSlot
<1>10. Becomes(c, "wait", calls[c].conn, calls[c].sent, calls[c].done, calls[c].attempt,
               calls[c].outcome)
  BY <1>5 DEF Walks
<1>11. /\ server' \in [Conns -> Connection]
       /\ \A t \in Threads, k \in Conns : Undisturbed(t, calls') => Weaker(server'[k], server[k], t)
  BY <1>1, SameServer
<1> QED
  BY <1>1, <1>2, <1>4, <1>8, <1>9, <1>10, <1>11, GoStep, Linked

\* What is left of the connections when the start of the child failed.
LEMMA StartDropped ==
    ASSUME LinkInv, adapter.rpc = Nobody, NEW c \in Calls, Others(c), calls[c].at \notin OnConn,
           server' = IF adapter.starting = Nobody THEN server
                     ELSE [server EXCEPT ![adapter.starting] = NoServer]
    PROVE  /\ server' \in [Conns -> Connection]
           /\ \A k \in Conns : ConnIs(server'[k], k, calls', Nobody, Nobody)
           /\ \A t \in Threads, k \in Conns : Weaker(server'[k], server[k], t)
<1>1. ASSUME NEW k \in Conns
      PROVE  /\ server'[k] \in Connection /\ ConnIs(server'[k], k, calls, Nobody, Nobody)
             /\ server'[k].handler # c
             /\ \A t \in Threads : Weaker(server'[k], server[k], t)
  <2>1. CASE k = adapter.starting
    <3>1. server'[k] = NoServer
      BY <2>1, Linked, Names
    <3>2. ConnIs(NoServer, k, calls, Nobody, Nobody)
      BY NoServerType, Names DEF ConnIs
    <3> QED
      BY <3>1, <3>2, NoServerType, FewerIsWeaker, Names, Linked
  <2>2. CASE k # adapter.starting
    <3>1. server'[k] = server[k]
      BY <2>2, Linked
    <3>2. ConnIs(server[k], k, calls, Nobody, adapter.starting)
      BY Linked
    <3>3. server[k].handler # c
      BY HandlerIsOn, Names
    <3> QED
      BY <2>2, <3>1, <3>2, <3>3, Reflexive, Linked, Names DEF ConnIs
  <2> QED
    BY <2>1, <2>2
<1>2. \A k \in Conns : ConnIs(server'[k], k, calls', Nobody, Nobody)
  BY <1>1, ConnKept
<1>3. server' \in [Conns -> Connection]
  BY NoServerType, Linked
<1> QED
  BY <1>1, <1>2, <1>3

LEMMA StartFailsHolds ==
    ASSUME LinkInv, NEW c \in Calls, StartFails(c)
    PROVE  Holds
<1> DEFINE ad == [adapter EXCEPT !.starting = Nobody]
           sv == IF adapter.starting = Nobody THEN server
                 ELSE [server EXCEPT ![adapter.starting] = NoServer]
           ad2 == [ad EXCEPT !.sessions = @ \cup {Thread(c)}]
<1>1. /\ calls[c].at \in {"open", "turn", "reopen"} /\ adapter.rpc = Nobody /\ history' = history
      /\ \/ Returns(c, "failed", sv, ad)
         \/ Returns(c, "cancelled", sv, ad2)
         \/ /\ At(c, "turn") /\ Goes(c, "drop") /\ adapter' = ad /\ server' = sv
         \/ /\ At(c, "reopen") /\ TriesAgain(c, sv, ad)
  BY DEF StartFails, NeedsServer
<1>2. Thread(c) \in Threads /\ Thread(c) # Nobody
  BY <1>1, HasThread
<1>3. calls[c].at \notin OnConn /\ calls[c].at \notin InTurn /\ calls[c].at # "over"
  BY <1>1 DEF OnConn, InTurn
<1>4. /\ ad \in AdapterState /\ ad.rpc = Nobody /\ ad.starting = Nobody
      /\ ad.slot = adapter.slot
  BY <1>1, Linked, Names DEF AdapterState
<1>5. sv \in [Conns -> Connection]
  BY Linked, NoServerType
<1> HIDE DEF ad
<1>6. ad2 \in AdapterState /\ ad2.rpc = Nobody /\ ad2.starting = Nobody /\ ad2.slot = adapter.slot
  BY <1>2, <1>4, Entered
<1>7. "failed" \in Outcomes /\ "cancelled" \in Outcomes /\ ~calls[c].done
  BY <1>3, Linked DEF Outcomes, CallIs
<1> HIDE DEF ad2
<1>8. ASSUME Others(c), server' = sv, adapter'.rpc = Nobody, adapter'.starting = Nobody
      PROVE  /\ server' \in [Conns -> Connection]
             /\ \A k \in Conns : ConnIs(server'[k], k, calls', adapter'.rpc, adapter'.starting)
             /\ \A t \in Threads, k \in Conns : Weaker(server'[k], server[k], t)
  BY <1>1, <1>3, <1>8, StartDropped
<1> HIDE DEF sv
<1>9. ASSUME NEW outcome \in {"failed", "cancelled"}, NEW a \in {ad, ad2}, Returns(c, outcome, sv, a)
      PROVE  Holds
  <2>1. /\ Ends(c, outcome) /\ server' = sv /\ adapter' \in AdapterState
        /\ adapter'.rpc = a.rpc /\ adapter'.starting = a.starting
        /\ adapter'.slot = IF a.slot = c THEN Nobody ELSE a.slot
    BY <1>2, <1>4, <1>5, <1>6, <1>7, <1>9, ReturnsTo, Linked
  <2>2. /\ adapter'.rpc = Nobody /\ adapter'.starting = Nobody /\ a.slot = adapter.slot
    BY <1>4, <1>6, <1>9, <2>1
  <2>3. Others(c)
    BY <2>1 DEF Ends, Becomes
  <2>4. outcome \in Outcomes /\ outcome # "completed"
    BY <1>9 DEF Outcomes
  <2> QED
    BY <1>1, <1>2, <1>3, <1>8, <2>1, <2>2, <2>3, <2>4, EndStep
<1>10. ASSUME At(c, "turn"), Goes(c, "drop"), adapter' = ad, server' = sv
       PROVE  Holds
  <2>1. Walks(c, "drop")
    BY <1>10, GoesTo, Linked DEF Steps
  <2>2. adapter.slot = c
    BY <1>10, Linked DEF At, CallIs, InSlot
  <2>3. Others(c)
    BY <2>1 DEF Walks, Becomes
  <2> QED
    <3>1. /\ "drop" \in InSlot \cup {"slot"} /\ "drop" \notin OnConn /\ "drop" # "sent"
          /\ adapter'.slot = c
      BY <1>4, <1>10, <2>2 DEF OnConn, InSlot
    <3>2. Becomes(c, "drop", calls[c].conn, calls[c].sent, FALSE, calls[c].attempt,
                  calls[c].outcome)
      <4>1. calls[c].done = FALSE
        BY <1>7, Linked DEF CallState
      <4> QED
        BY <2>1, <4>1 DEF Walks
    <3>3. /\ adapter' \in AdapterState /\ adapter'.rpc = Nobody /\ adapter'.starting = Nobody
          /\ adapter'.slot = adapter.slot
      BY <1>4, <1>10
    <3>4. /\ server' \in [Conns -> Connection]
          /\ \A k \in Conns : ConnIs(server'[k], k, calls', adapter'.rpc, adapter'.starting)
          /\ \A t \in Threads, k \in Conns : Undisturbed(t, calls') => Weaker(server'[k], server[k], t)
      BY <1>8, <1>10, <2>3, <3>3
    <3> QED
      BY <1>1, <1>2, <1>3, <1>7, <3>1, <3>2, <3>3, <3>4, GoStep
<1>11. ASSUME At(c, "reopen"), TriesAgain(c, sv, ad)
       PROVE  Holds
  <2>1. /\ server' = sv /\ adapter' \in AdapterState
        /\ adapter'.rpc = Nobody /\ adapter'.starting = Nobody
        /\ \/ Retries(c) /\ adapter'.slot = adapter.slot
           \/ Ends(c, "failed") /\ adapter'.slot = IF adapter.slot = c THEN Nobody ELSE adapter.slot
    BY <1>2, <1>4, <1>5, <1>11, TriesAgainTo, Linked
  <2>2. adapter.slot = c
    BY <1>11, Linked DEF At, CallIs, InSlot
  <2>3. Others(c)
    BY <2>1 DEF Retries, Ends, Becomes
  <2>4. CASE Retries(c) /\ adapter'.slot = adapter.slot
    <3>1. /\ "recover" \in InSlot \cup {"slot"} /\ "recover" \notin OnConn /\ "recover" # "sent"
          /\ adapter'.slot = c
      BY <2>2, <2>4 DEF OnConn, InSlot
    <3>2. Becomes(c, "recover", Nobody, Nobody, calls[c].done, calls[c].attempt + 1,
                  calls[c].outcome)
      BY <2>4 DEF Retries
    <3>3. /\ \A k \in Conns : ConnIs(server'[k], k, calls', adapter'.rpc, adapter'.starting)
          /\ \A t \in Threads, k \in Conns : Undisturbed(t, calls') => Weaker(server'[k], server[k], t)
          /\ server' \in [Conns -> Connection]
      BY <1>8, <2>1, <2>3
    <3> QED
      BY <1>1, <1>2, <1>3, <1>7, <2>1, <2>4, <3>1, <3>2, <3>3, GoStep
  <2>5. CASE Ends(c, "failed") /\ adapter'.slot = IF adapter.slot = c THEN Nobody ELSE adapter.slot
    BY <1>1, <1>2, <1>3, <1>7, <1>8, <2>1, <2>3, <2>5, EndStep
  <2> QED
    BY <2>1, <2>4, <2>5
<1> QED
  BY <1>1, <1>9, <1>10, <1>11

\* A call that leaves its handlers: it ends, or gives up on the connection.
LEMMA LeaveHolds ==
    ASSUME LinkInv, NEW c \in Calls, calls[c].at \in OnConn, history' = history,
           NEW sv \in [Conns -> Connection], server' = Unhandled(sv, c),
           adapter' \in AdapterState,
           \A k \in Conns : ConnIs(sv[k], k, calls, adapter.rpc, adapter.starting),
           \A t \in Threads, k \in Conns : Undisturbed(t, calls') => Weaker(sv[k], server[k], t),
           adapter'.rpc = adapter.rpc, adapter'.starting = adapter.starting,
           \/ Breaks(c) /\ adapter'.slot = adapter.slot
           \/ \E o \in Outcomes :
                 /\ Ends(c, o) /\ adapter'.slot = IF adapter.slot = c THEN Nobody ELSE adapter.slot
                 /\ o = "completed" => calls[c].done
                 /\ calls[c].cancelled \/ calls[c].done \/ calls[c].at \notin InTurn
    PROVE  Holds
<1>1. Thread(c) \in Threads /\ Thread(c) # Nobody
  BY HasThread DEF OnConn
<1>2. Others(c)
  BY DEF Breaks, Ends, Becomes
<1>3. /\ server' \in [Conns -> Connection]
      /\ \A k \in Conns : ConnIs(server'[k], k, calls', adapter'.rpc, adapter'.starting)
  BY <1>2, LeftConns
<1>4. ASSUME NEW t \in Threads, NEW k \in Conns, Undisturbed(t, calls')
      PROVE  Weaker(server'[k], server[k], t)
  <2>1. Weaker(server'[k], sv[k], t)
    BY LeftIsWeaker
  <2> QED
    BY <1>4, <2>1 DEF Weaker
<1>5. adapter.slot = c /\ calls[c].at # "over"
  BY Linked DEF CallIs, OnConn, InSlot
<1>6. adapter'.starting # Nobody => adapter'.rpc = Nobody
  BY Linked
<1>7. CASE Breaks(c) /\ adapter'.slot = adapter.slot
  <2>1. /\ "drop" \in InSlot \cup {"slot"} /\ "drop" \notin OnConn /\ "drop" # "sent"
        /\ adapter'.slot = c
    BY <1>5, <1>7 DEF OnConn, InSlot
  <2>2. Becomes(c, "drop", Nobody, Nobody, FALSE, calls[c].attempt, calls[c].outcome)
    BY <1>7 DEF Breaks
  <2> QED
    BY <1>1, <1>3, <1>4, <1>5, <1>6, <1>7, <2>1, <2>2, GoStep
<1>8. ASSUME NEW o \in Outcomes,
             Ends(c, o), adapter'.slot = IF adapter.slot = c THEN Nobody ELSE adapter.slot,
             o = "completed" => calls[c].done,
             calls[c].cancelled \/ calls[c].done \/ calls[c].at \notin InTurn
      PROVE  Holds
  BY <1>1, <1>3, <1>4, <1>6, <1>8, EndStep
<1> QED
  BY <1>7, <1>8

LEMMA RequestFailsHolds ==
    ASSUME LinkInv, NEW c \in Calls, RequestFails(c)
    PROVE  Holds
<1>1. /\ calls[c].at = "start" /\ history' = history
      /\ Fails(c, Unhandled(server, c)) \/ Lost(c, adapter)
  BY DEF RequestFails, At
<1>2. Thread(c) \in Threads /\ calls[c].at \in OnConn /\ calls[c].at \notin InTurn
  BY <1>1, HasThread DEF OnConn, InTurn
<1>3. \A t \in Threads, k \in Conns : Weaker(server[k], server[k], t)
  BY Reflexive
<1>4. CASE Fails(c, Unhandled(server, c))
  <2>1. Unhandled(server, c) \in [Conns -> Connection]
    BY Linked, UnhandledType
  <2>2. /\ \E o \in {"cancelled", "failed"} : Ends(c, o)
        /\ server' = Unhandled(server, c) /\ adapter' \in AdapterState
        /\ adapter'.rpc = adapter.rpc /\ adapter'.starting = adapter.starting
        /\ adapter'.slot = IF adapter.slot = c THEN Nobody ELSE adapter.slot
    BY <1>2, <1>4, <2>1, FailsTo, Linked
  <2>3. \E o \in Outcomes : Ends(c, o) /\ o # "completed"
    BY <2>2 DEF Outcomes
  <2> QED
    BY <1>1, <1>2, <1>3, <2>2, <2>3, LeaveHolds, Linked
<1>5. CASE Lost(c, adapter)
  <2>1. /\ server' = Unhandled(server, c) /\ adapter' \in AdapterState
        /\ adapter'.rpc = adapter.rpc /\ adapter'.starting = adapter.starting
        /\ \/ ~calls[c].cancelled /\ Breaks(c) /\ adapter'.slot = adapter.slot
           \/ /\ calls[c].cancelled /\ Ends(c, "cancelled")
              /\ adapter'.slot = IF adapter.slot = c THEN Nobody ELSE adapter.slot
    BY <1>2, <1>5, LostTo, Linked
  <2>2. "cancelled" \in Outcomes
    BY DEF Outcomes
  <2> QED
    BY <1>1, <1>2, <1>3, <2>1, <2>2, LeaveHolds, Linked
<1> QED
  BY <1>1, <1>4, <1>5

LEMMA AnswerFailsHolds ==
    ASSUME LinkInv, NEW c \in Calls, AnswerFails(c)
    PROVE  Holds
<1>1. /\ calls[c].at = "sent" /\ history' = history
      /\ (calls[c].cancelled /\ Fails(c, Unhandled(server, c))) \/ Lost(c, adapter)
  BY DEF AnswerFails, At
<1>2. Thread(c) \in Threads /\ calls[c].at \in OnConn
  BY <1>1, HasThread DEF OnConn
<1>3. \A t \in Threads, k \in Conns : Weaker(server[k], server[k], t)
  BY Reflexive
<1>4. CASE calls[c].cancelled /\ Fails(c, Unhandled(server, c))
  <2>1. Unhandled(server, c) \in [Conns -> Connection]
    BY Linked, UnhandledType
  <2>2. /\ \E o \in {"cancelled", "failed"} : Ends(c, o)
        /\ server' = Unhandled(server, c) /\ adapter' \in AdapterState
        /\ adapter'.rpc = adapter.rpc /\ adapter'.starting = adapter.starting
        /\ adapter'.slot = IF adapter.slot = c THEN Nobody ELSE adapter.slot
    BY <1>2, <1>4, <2>1, FailsTo, Linked
  <2>3. \E o \in Outcomes : Ends(c, o) /\ o # "completed"
    BY <2>2 DEF Outcomes
  <2> QED
    BY <1>1, <1>2, <1>3, <1>4, <2>2, <2>3, LeaveHolds, Linked
<1>5. CASE Lost(c, adapter)
  <2>1. /\ server' = Unhandled(server, c) /\ adapter' \in AdapterState
        /\ adapter'.rpc = adapter.rpc /\ adapter'.starting = adapter.starting
        /\ \/ ~calls[c].cancelled /\ Breaks(c) /\ adapter'.slot = adapter.slot
           \/ /\ calls[c].cancelled /\ Ends(c, "cancelled")
              /\ adapter'.slot = IF adapter.slot = c THEN Nobody ELSE adapter.slot
    BY <1>2, <1>5, LostTo, Linked
  <2>2. "cancelled" \in Outcomes
    BY DEF Outcomes
  <2> QED
    BY <1>1, <1>2, <1>3, <2>1, <2>2, LeaveHolds, Linked
<1> QED
  BY <1>1, <1>4, <1>5

\* The announced end of a turn, on a connection that is up.
LEMMA EndsTurnConn ==
    ASSUME NEW s \in Connection, NEW t \in Threads, s.state = "up", s.running[t] # NoTurn,
           NEW k, NEW cs, NEW rpc, NEW starting, ConnIs(s, k, cs, rpc, starting)
    PROVE  /\ ConnIs(EndsTurn(s, t), k, cs, rpc, starting)
           /\ \A u \in Threads \ {t} : Weaker(EndsTurn(s, t), s, u)
<1> DEFINE n == EndsTurn(s, t)
           e == [thread |-> t, kind |-> "ended", turn |-> s.running[t]]
<1>1. /\ n \in Connection /\ n.state = s.state /\ n.handler = s.handler /\ e \in Notification
      /\ n.events = Append(s.events, e) /\ n.running = [s.running EXCEPT ![t] = NoTurn]
  BY EndsTurnType
<1>2. e.thread = t
  OBVIOUS
<1> HIDE DEF n, e
<1>3. k # starting
  BY NoServerType DEF ConnIs
<1>4. ConnIs(n, k, cs, rpc, starting)
  BY <1>1, <1>3 DEF ConnIs
<1>5. \A u \in Threads \ {t} : n.running[u] = s.running[u]
  BY <1>1, Parts
<1>6. \A u \in Threads \ {t} : Weaker(n, s, u)
  BY <1>1, <1>2, <1>5, AppendIsWeaker
<1> QED
  BY <1>4, <1>6 DEF n

LEMMA InterruptedConns ==
    ASSUME LinkInv, NEW t \in Threads
    PROVE  /\ Interrupted(t) \in [Conns -> Connection]
           /\ \A k \in Conns :
                 /\ ConnIs(Interrupted(t)[k], k, calls, adapter.rpc, adapter.starting)
                 /\ \A u \in Threads \ {t} : Weaker(Interrupted(t)[k], server[k], u)
<1>1. /\ Interrupted(t) \in [Conns -> Connection]
      /\ \A k \in Conns :
            \/ Interrupted(t)[k] = server[k]
            \/ /\ server[k].state = "up" /\ server[k].running[t] # NoTurn
               /\ Interrupted(t)[k] = EndsTurn(server[k], t)
  BY InterruptedType, Linked
<1>2. ASSUME NEW k \in Conns
      PROVE  /\ ConnIs(Interrupted(t)[k], k, calls, adapter.rpc, adapter.starting)
             /\ \A u \in Threads \ {t} : Weaker(Interrupted(t)[k], server[k], u)
  <2>1. server[k] \in Connection /\ ConnIs(server[k], k, calls, adapter.rpc, adapter.starting)
    BY Linked
  <2>2. CASE Interrupted(t)[k] = server[k]
    BY <2>1, <2>2, Reflexive
  <2>3. CASE /\ server[k].state = "up" /\ server[k].running[t] # NoTurn
             /\ Interrupted(t)[k] = EndsTurn(server[k], t)
    BY <2>1, <2>3, EndsTurnConn
  <2> QED
    BY <1>1, <2>2, <2>3
<1> QED
  BY <1>1, <1>2

\* A completed call saw the end of a turn; one that interrupts its turn is cancelled.
LEMMA AwaitEndsHolds ==
    ASSUME LinkInv, NEW c \in Calls, AwaitEnds(c)
    PROVE  Holds
<1> DEFINE ad == [adapter EXCEPT !.active[Thread(c)] = NoTurn]
<1>1. /\ calls[c].at = "wait" /\ history' = history
      /\ \/ calls[c].cancelled /\ Fails(c, Unhandled(Interrupted(Thread(c)), c))
         \/ Lost(c, ad)
         \/ calls[c].done /\ Returns(c, "completed", Unhandled(server, c), Forgets(c))
         \/ calls[c].done /\ Fails(c, Unhandled(server, c))
  BY DEF AwaitEnds, At
<1>2. Thread(c) \in Threads /\ calls[c].at \in OnConn
  BY <1>1, HasThread DEF OnConn
<1>3. \A t \in Threads, k \in Conns : Weaker(server[k], server[k], t)
  BY Reflexive
<1>4. /\ ad \in AdapterState /\ ad.rpc = adapter.rpc /\ ad.starting = adapter.starting
      /\ ad.slot = adapter.slot
  BY <1>2, Linked, Names DEF AdapterState
<1> HIDE DEF ad
<1>5. Unhandled(server, c) \in [Conns -> Connection]
  BY Linked, UnhandledType
<1>6. CASE calls[c].cancelled /\ Fails(c, Unhandled(Interrupted(Thread(c)), c))
  <2> DEFINE sv == Interrupted(Thread(c))
  <2>1. /\ sv \in [Conns -> Connection]
        /\ \A k \in Conns : ConnIs(sv[k], k, calls, adapter.rpc, adapter.starting)
        /\ \A k \in Conns : \A u \in Threads \ {Thread(c)} : Weaker(sv[k], server[k], u)
    BY <1>2, InterruptedConns
  <2>2. Fails(c, Unhandled(sv, c))
    BY <1>6
  <2> HIDE DEF sv
  <2>3. Unhandled(sv, c) \in [Conns -> Connection]
    BY <2>1, UnhandledType
  <2>4. /\ \E o \in {"cancelled", "failed"} : Ends(c, o)
        /\ server' = Unhandled(sv, c) /\ adapter' \in AdapterState
        /\ adapter'.rpc = adapter.rpc /\ adapter'.starting = adapter.starting
        /\ adapter'.slot = IF adapter.slot = c THEN Nobody ELSE adapter.slot
    BY <1>2, <2>2, <2>3, FailsTo, Linked
  <2>5. \E o \in Outcomes : Ends(c, o) /\ o # "completed"
    BY <2>4 DEF Outcomes
  <2>6. calls'[c].thread = Thread(c) /\ calls'[c].cancelled = calls[c].cancelled
    BY <2>4 DEF Ends, Becomes, Thread
  <2>7. \A t \in Threads, k \in Conns : Undisturbed(t, calls') => Weaker(sv[k], server[k], t)
    BY <1>6, <2>1, <2>6 DEF Undisturbed
  <2> QED
    BY <1>1, <1>2, <1>6, <2>1, <2>4, <2>5, <2>7, LeaveHolds
<1>7. CASE Lost(c, ad)
  <2>1. /\ server' = Unhandled(server, c) /\ adapter' \in AdapterState
        /\ adapter'.rpc = adapter.rpc /\ adapter'.starting = adapter.starting
        /\ \/ ~calls[c].cancelled /\ Breaks(c) /\ adapter'.slot = adapter.slot
           \/ /\ calls[c].cancelled /\ Ends(c, "cancelled")
              /\ adapter'.slot = IF adapter.slot = c THEN Nobody ELSE adapter.slot
    BY <1>2, <1>4, <1>7, LostTo, Linked
  <2>2. "cancelled" \in Outcomes
    BY DEF Outcomes
  <2> QED
    BY <1>1, <1>2, <1>3, <2>1, <2>2, LeaveHolds, Linked
<1>8. CASE calls[c].done /\ Returns(c, "completed", Unhandled(server, c), Forgets(c))
  <2> DEFINE f == Forgets(c)
  <2>1. /\ f \in AdapterState /\ f.rpc = adapter.rpc /\ f.starting = adapter.starting
        /\ f.slot = adapter.slot
    BY <1>2, Linked, Names DEF AdapterState, Forgets
  <2>2. Returns(c, "completed", Unhandled(server, c), f)
    BY <1>8
  <2> HIDE DEF f
  <2>3. "completed" \in Outcomes
    BY DEF Outcomes
  <2>4. /\ Ends(c, "completed") /\ server' = Unhandled(server, c) /\ adapter' \in AdapterState
        /\ adapter'.rpc = adapter.rpc /\ adapter'.starting = adapter.starting
        /\ adapter'.slot = IF adapter.slot = c THEN Nobody ELSE adapter.slot
    BY <1>2, <1>5, <2>1, <2>2, <2>3, ReturnsTo, Linked
  <2> QED
    BY <1>1, <1>2, <1>3, <1>8, <2>3, <2>4, LeaveHolds, Linked
<1>9. CASE calls[c].done /\ Fails(c, Unhandled(server, c))
  <2>1. /\ \E o \in {"cancelled", "failed"} : Ends(c, o)
        /\ server' = Unhandled(server, c) /\ adapter' \in AdapterState
        /\ adapter'.rpc = adapter.rpc /\ adapter'.starting = adapter.starting
        /\ adapter'.slot = IF adapter.slot = c THEN Nobody ELSE adapter.slot
    BY <1>2, <1>5, <1>9, FailsTo, Linked
  <2>2. \E o \in Outcomes : Ends(c, o) /\ o # "completed"
    BY <2>1 DEF Outcomes
  <2> QED
    BY <1>1, <1>2, <1>3, <1>9, <2>1, <2>2, LeaveHolds, Linked
<1> QED
  BY <1>1, <1>6, <1>7, <1>8, <1>9

\* Whoever has the slot but no connection: nobody handles anything, and once the
\* adapter's connection is cleared nothing is left on any.
LEMMA ClearedIsQuiet ==
    ASSUME LinkInv, NEW c \in Calls, calls[c].at \in InSlot \ OnConn, NEW t \in Threads
    PROVE  Quiet(t, ClearedServer)
<1>1. ASSUME NEW k \in Conns
      PROVE  Silent(ClearedServer[k], t)
  <2>1. /\ server[k] \in Connection /\ ConnIs(server[k], k, calls, adapter.rpc, adapter.starting)
        /\ ClearedServer[k] = IF k = adapter.rpc THEN Closed(server[k]) ELSE server[k]
    BY Linked, ClearedServerType
  <2>2. server[k].handler = Nobody
    BY HandlerIsOn, Linked DEF CallIs
  <2>3. CASE k = adapter.rpc
    BY <2>1, <2>2, <2>3, ClosedType, NoServerIsSilent
  <2>4. CASE k # adapter.rpc /\ server[k].state = "closed"
    BY <2>1, <2>2, <2>4, NoServerIsSilent DEF ConnIs
  <2>5. CASE k # adapter.rpc /\ server[k].state # "closed"
    <3>1. server[k].events = <<>> /\ server[k].running = NoServer.running
      BY <2>1, <2>5 DEF ConnIs
    <3> QED
      BY <2>1, <2>5, <3>1, NoServerType, EmptySeq DEF Silent
  <2> QED
    BY <2>3, <2>4, <2>5
<1> QED
  BY <1>1 DEF Quiet

\* The connections of a call that clears the adapter's one and handles none itself.
LEMMA ClearedAround ==
    ASSUME LinkInv, NEW c \in Calls, Others(c), calls[c].at \in InSlot \ OnConn,
           server' = ClearedServer, adapter'.rpc = Nobody, adapter'.starting = adapter.starting
    PROVE  /\ server' \in [Conns -> Connection]
           /\ \A k \in Conns : ConnIs(server'[k], k, calls', adapter'.rpc, adapter'.starting)
           /\ \A t \in Threads, k \in Conns : Weaker(server'[k], server[k], t)
           /\ \A t \in Threads : Quiet(t, server')
<1>1. /\ server' \in [Conns -> Connection]
      /\ \A k \in Conns : ConnIs(server'[k], k, calls, adapter'.rpc, adapter'.starting)
      /\ \A k \in Conns : server'[k].handler = server[k].handler
  BY ClearedConns
<1>2. \A k \in Conns : server[k].handler # c
  BY HandlerIsOn, Names
<1>3. \A k \in Conns : ConnIs(server'[k], k, calls', adapter'.rpc, adapter'.starting)
  BY <1>1, <1>2, ConnKept
<1> QED
  BY <1>1, <1>3, ClearedIsWeaker, ClearedIsQuiet

LEMMA DropHolds ==
    ASSUME LinkInv, NEW c \in Calls, Drop(c)
    PROVE  Holds
<1>1. /\ calls[c].at = "drop" /\ history' = history
      /\ TriesAgain(c, ClearedServer, Cleared(FALSE))
  BY DEF Drop, At
<1>2. Thread(c) \in Threads /\ Thread(c) # Nobody
  BY <1>1, HasThread
<1>3. /\ calls[c].at \in InSlot \ OnConn /\ calls[c].at # "over"
  BY <1>1 DEF InSlot, OnConn
<1>4. adapter.slot = c /\ calls[c].done = FALSE
  BY <1>3, Linked DEF CallIs, CallState
<1>5. /\ Cleared(FALSE) \in AdapterState /\ Cleared(FALSE).rpc = Nobody
      /\ Cleared(FALSE).starting = adapter.starting /\ Cleared(FALSE).slot = adapter.slot
      /\ ClearedServer \in [Conns -> Connection]
  BY ClearedType, ClearedServerType, Linked
<1>6. /\ server' = ClearedServer /\ adapter' \in AdapterState
      /\ adapter'.rpc = Nobody /\ adapter'.starting = adapter.starting
      /\ \/ Retries(c) /\ adapter'.slot = adapter.slot
         \/ Ends(c, "failed") /\ adapter'.slot = IF adapter.slot = c THEN Nobody ELSE adapter.slot
  <2> DEFINE ad == Cleared(FALSE)
             sv == ClearedServer
  <2>1. /\ ad \in AdapterState /\ ad.rpc = Nobody /\ ad.starting = adapter.starting
        /\ ad.slot = adapter.slot /\ sv \in [Conns -> Connection]
    BY <1>5
  <2>2. TriesAgain(c, sv, ad)
    BY <1>1
  <2> HIDE DEF ad, sv
  <2>3. /\ server' = sv /\ adapter' \in AdapterState
        /\ adapter'.rpc = ad.rpc /\ adapter'.starting = ad.starting
        /\ \/ Retries(c) /\ adapter'.slot = ad.slot
           \/ Ends(c, "failed") /\ adapter'.slot = IF ad.slot = c THEN Nobody ELSE ad.slot
    BY <1>2, <2>1, <2>2, TriesAgainTo, Linked
  <2> QED
    BY <2>1, <2>3 DEF sv
<1>7. Others(c)
  BY <1>6 DEF Retries, Ends, Becomes
<1>8. /\ server' \in [Conns -> Connection]
      /\ \A k \in Conns : ConnIs(server'[k], k, calls', adapter'.rpc, adapter'.starting)
      /\ \A t \in Threads, k \in Conns : Weaker(server'[k], server[k], t)
      /\ \A t \in Threads : Quiet(t, server')
  BY <1>3, <1>6, <1>7, ClearedAround
<1>9. CASE Retries(c) /\ adapter'.slot = adapter.slot
  <2>1. /\ "recover" \in InSlot \cup {"slot"} /\ "recover" \notin OnConn /\ "recover" # "sent"
        /\ adapter'.slot = c
    BY <1>4, <1>9 DEF OnConn, InSlot
  <2>2. Becomes(c, "recover", Nobody, Nobody, FALSE, calls[c].attempt + 1, calls[c].outcome)
    BY <1>4, <1>9 DEF Retries
  <2> QED
    BY <1>1, <1>2, <1>3, <1>6, <1>8, <1>9, <2>1, <2>2, GoStep
<1>10. CASE Ends(c, "failed") /\ adapter'.slot = IF adapter.slot = c THEN Nobody ELSE adapter.slot
  <2>1. "failed" \in Outcomes
    BY DEF Outcomes
  <2> QED
    BY <1>1, <1>2, <1>6, <1>8, <1>10, <2>1, EndStep
<1> QED
  BY <1>6, <1>9, <1>10

LEMMA RecoverHolds ==
    ASSUME LinkInv, NEW c \in Calls, Recover(c)
    PROVE  Holds
<1> DEFINE ad == [Cleared(FALSE) EXCEPT !.sessions = {Thread(c)}]
<1>1. /\ calls[c].at = "recover" /\ history' = history
      /\ \/ Returns(c, "cancelled", ClearedServer, ad)
         \/ Goes(c, "reopen") /\ adapter' = Cleared(FALSE) /\ server' = ClearedServer
  BY DEF Recover, At
<1>2. Thread(c) \in Threads /\ Thread(c) # Nobody
  BY <1>1, HasThread
<1>3. /\ calls[c].at \in InSlot \ OnConn /\ calls[c].at \notin InTurn /\ calls[c].at # "over"
  BY <1>1 DEF InSlot, OnConn, InTurn
<1>4. adapter.slot = c /\ calls[c].done = FALSE
  BY <1>3, Linked DEF CallIs, CallState
<1>5. /\ Cleared(FALSE) \in AdapterState /\ Cleared(FALSE).rpc = Nobody
      /\ Cleared(FALSE).starting = adapter.starting /\ Cleared(FALSE).slot = adapter.slot
      /\ ClearedServer \in [Conns -> Connection]
  BY ClearedType, ClearedServerType, Linked
<1>6. /\ ad \in AdapterState /\ ad.rpc = Nobody
      /\ ad.starting = adapter.starting /\ ad.slot = adapter.slot
  BY <1>2, <1>5 DEF AdapterState
<1> HIDE DEF ad
<1>7. CASE Returns(c, "cancelled", ClearedServer, ad)
  <2>1. "cancelled" \in Outcomes /\ "cancelled" # "completed"
    BY DEF Outcomes
  <2>2. /\ Ends(c, "cancelled") /\ server' = ClearedServer /\ adapter' \in AdapterState
        /\ adapter'.rpc = Nobody /\ adapter'.starting = adapter.starting
        /\ adapter'.slot = IF adapter.slot = c THEN Nobody ELSE adapter.slot
    BY <1>2, <1>5, <1>6, <1>7, <2>1, ReturnsTo, Linked
  <2>3. Others(c)
    BY <2>2 DEF Ends, Becomes
  <2>4. /\ server' \in [Conns -> Connection]
        /\ \A k \in Conns : ConnIs(server'[k], k, calls', adapter'.rpc, adapter'.starting)
        /\ \A t \in Threads, k \in Conns : Weaker(server'[k], server[k], t)
        /\ \A t \in Threads : Quiet(t, server')
    BY <1>3, <2>2, <2>3, ClearedAround
  <2> QED
    BY <1>1, <1>2, <1>3, <2>1, <2>2, <2>4, EndStep
<1>8. CASE Goes(c, "reopen") /\ adapter' = Cleared(FALSE) /\ server' = ClearedServer
  <2>1. Walks(c, "reopen")
    BY <1>8, GoesTo, Linked DEF Steps
  <2>2. Becomes(c, "reopen", calls[c].conn, calls[c].sent, FALSE, calls[c].attempt,
                calls[c].outcome)
    BY <1>4, <2>1 DEF Walks
  <2>3. Others(c)
    BY <2>2 DEF Becomes
  <2>4. /\ adapter' \in AdapterState /\ adapter'.rpc = Nobody
        /\ adapter'.starting = adapter.starting /\ adapter'.slot = adapter.slot
    BY <1>5, <1>8
  <2>5. /\ server' \in [Conns -> Connection]
        /\ \A k \in Conns : ConnIs(server'[k], k, calls', adapter'.rpc, adapter'.starting)
        /\ \A t \in Threads, k \in Conns : Weaker(server'[k], server[k], t)
        /\ \A t \in Threads : Quiet(t, server')
    BY <1>3, <1>8, <2>3, <2>4, ClearedAround
  <2>6. /\ "reopen" \in InSlot \cup {"slot"} /\ "reopen" \notin OnConn /\ "reopen" # "sent"
        /\ adapter'.slot = c
    BY <1>4, <2>4 DEF OnConn, InSlot
  <2> QED
    BY <1>1, <1>2, <1>3, <2>2, <2>4, <2>5, <2>6, GoStep
<1> QED
  BY <1>1, <1>7, <1>8

LEMMA ReopenHolds ==
    ASSUME LinkInv, NEW c \in Calls, Reopen(c)
    PROVE  Holds
<1>1. /\ calls[c].at = "reopen" /\ server' = server /\ history' = history
      /\ adapter' = [adapter EXCEPT !.sessions = @ \cup {Thread(c)}]
      /\ calls' = [calls EXCEPT ![c].at = "turn",
                                ![c].continues = IF @ < ContinueLimit THEN @ + 1 ELSE @]
  BY DEF Reopen, At
<1>2. Thread(c) \in Threads /\ Thread(c) # Nobody
  BY <1>1, HasThread
<1>3. /\ adapter' \in AdapterState /\ adapter'.slot = adapter.slot
      /\ adapter'.rpc = adapter.rpc /\ adapter'.starting = adapter.starting
  BY <1>1, <1>2, Entered, Linked
<1>4. adapter.slot = c /\ calls[c].done = FALSE
  BY <1>1, Linked DEF CallIs, CallState, InSlot, OnConn
<1>5. Becomes(c, "turn", calls[c].conn, calls[c].sent, FALSE, calls[c].attempt, calls[c].outcome)
  <2>1. PICK r \in CallState : r = calls[c]
    BY Linked
  <2>2. PICK i \in 0..ContinueLimit : i = IF r.continues < ContinueLimit THEN r.continues + 1
                                          ELSE r.continues
    BY LimitsAssumption DEF CallState
  <2> DEFINE n == [r EXCEPT !.at = "turn", !.continues = i]
  <2>3. calls' = [calls EXCEPT ![c] = n]
    BY <1>1, <2>1, <2>2
  <2>4. n \in CallState
    BY DEF CallState, Steps
  <2> QED
    BY <1>4, <2>1, <2>3, <2>4, Linked DEF Becomes, Others, CallState
<1>6. calls[c].at \notin OnConn /\ calls[c].at \notin InTurn /\ calls[c].at # "over"
  BY <1>1 DEF OnConn, InTurn
<1>7. Others(c)
  BY <1>5 DEF Becomes
<1>8. \A k \in Conns : ConnIs(server'[k], k, calls', adapter'.rpc, adapter'.starting)
  BY <1>1, <1>3, <1>6, <1>7, SameConns
<1>9. /\ "turn" \in InSlot \cup {"slot"} /\ "turn" \notin OnConn /\ "turn" # "sent"
      /\ adapter'.slot = c /\ (adapter'.starting # Nobody => adapter'.rpc = Nobody)
  BY <1>3, <1>4, Linked DEF OnConn, InSlot
<1>10. /\ server' \in [Conns -> Connection]
       /\ \A t \in Threads, k \in Conns : Weaker(server'[k], server[k], t)
  BY <1>1, SameServer
<1> QED
  BY <1>1, <1>2, <1>3, <1>5, <1>6, <1>8, <1>9, <1>10, GoStep

LEMMA ReopenFailsHolds ==
    ASSUME LinkInv, NEW c \in Calls, ReopenFails(c)
    PROVE  Holds
<1>1. /\ calls[c].at = "reopen" /\ history' = history
      /\ Fails(c, server) \/ TriesAgain(c, server, adapter)
  BY DEF ReopenFails, At
<1>2. Thread(c) \in Threads /\ Thread(c) # Nobody
  BY <1>1, HasThread
<1>3. adapter.slot = c /\ calls[c].done = FALSE
  BY <1>1, Linked DEF CallIs, CallState, InSlot, OnConn
<1>4. calls[c].at \notin OnConn /\ calls[c].at \notin InTurn /\ calls[c].at # "over"
  BY <1>1 DEF OnConn, InTurn
<1>5. /\ server' = server /\ adapter' \in AdapterState
      /\ adapter'.rpc = adapter.rpc /\ adapter'.starting = adapter.starting
      /\ \/ Retries(c) /\ adapter'.slot = adapter.slot
         \/ /\ \E o \in {"cancelled", "failed"} : Ends(c, o)
            /\ adapter'.slot = IF adapter.slot = c THEN Nobody ELSE adapter.slot
  <2>1. CASE Fails(c, server)
    BY <1>2, <2>1, FailsTo, Linked
  <2>2. CASE TriesAgain(c, server, adapter)
    BY <1>2, <2>2, TriesAgainTo, Linked
  <2> QED
    BY <1>1, <2>1, <2>2
<1>6. Others(c)
  BY <1>5 DEF Retries, Ends, Becomes
<1>7. /\ \A k \in Conns : ConnIs(server'[k], k, calls', adapter'.rpc, adapter'.starting)
      /\ adapter'.starting # Nobody => adapter'.rpc = Nobody
  BY <1>4, <1>5, <1>6, SameConns, Linked
<1>8. /\ server' \in [Conns -> Connection]
      /\ \A t \in Threads, k \in Conns : Weaker(server'[k], server[k], t)
  BY <1>5, SameServer
<1>9. CASE Retries(c) /\ adapter'.slot = adapter.slot
  <2>1. /\ "recover" \in InSlot \cup {"slot"} /\ "recover" \notin OnConn /\ "recover" # "sent"
        /\ adapter'.slot = c
    BY <1>3, <1>9 DEF OnConn, InSlot
  <2>2. Becomes(c, "recover", Nobody, Nobody, FALSE, calls[c].attempt + 1, calls[c].outcome)
    BY <1>3, <1>9 DEF Retries
  <2> QED
    BY <1>1, <1>2, <1>4, <1>5, <1>7, <1>8, <1>9, <2>1, <2>2, GoStep
<1>10. ASSUME NEW o \in {"cancelled", "failed"}, Ends(c, o),
              adapter'.slot = IF adapter.slot = c THEN Nobody ELSE adapter.slot
       PROVE  Holds
  <2>1. o \in Outcomes /\ o # "completed"
    BY DEF Outcomes
  <2> QED
    BY <1>1, <1>2, <1>4, <1>5, <1>7, <1>8, <1>10, <2>1, EndStep
<1> QED
  BY <1>5, <1>9, <1>10

-----------------------------------------------------------------------------
(* Cancel, StopAppServer and the child                                     *)

\* Calls are told that they are cancelled, and nothing else of them changes.
LEMMA CancelStep ==
    ASSUME LinkInv, calls' \in [Calls -> CallState], adapter' = adapter, history' \in HistoryState,
           history'.ended = history.ended, server' \in [Conns -> Connection],
           \A d \in Calls :
              /\ calls'[d].at = calls[d].at /\ calls'[d].thread = calls[d].thread
              /\ calls'[d].conn = calls[d].conn /\ calls'[d].sent = calls[d].sent
              /\ calls'[d].done = calls[d].done /\ calls'[d].attempt = calls[d].attempt
              /\ calls'[d].outcome = calls[d].outcome
              /\ calls[d].cancelled => calls'[d].cancelled
              /\ calls'[d].cancel = "asked" => calls'[d].at # "idle" /\ calls'[d].cancelled,
           \A k \in Conns : ConnIs(server'[k], k, calls, adapter.rpc, adapter.starting),
           \A t \in Threads, k \in Conns : Undisturbed(t, calls') => Weaker(server'[k], server[k], t)
    PROVE  Holds
<1>1. TypeOK'
  BY Linked, Retyped
<1>2. \A d \in Calls : CallIs(calls'[d], adapter'.slot, d)
  BY Linked DEF CallIs
<1>3. \A k \in Conns : ConnIs(server'[k], k, calls', adapter'.rpc, adapter'.starting)
  BY Parts DEF ConnIs, Someone
<1>4. LinkInv'
  BY <1>1, <1>2, <1>3, Linked, Relinked
<1>5. \A d \in Calls, t \in Threads : CallCalm(calls'[d], calls[d], Quiet(t, server'))
  BY DEF CallCalm, Awaits
<1> QED
  BY <1>4, <1>5 DEF Holds, Monotone, Calm

LEMMA CancelHolds ==
    ASSUME LinkInv, NEW c \in Calls, Cancel(c)
    PROVE  Holds
<1>1. PICK r \in CallState : r = calls[c]
  BY Linked
<1> DEFINE n == [r EXCEPT !.cancelled = TRUE, !.cancel = "asked"]
<1>2. /\ calls' = [calls EXCEPT ![c] = n] /\ adapter' = adapter /\ server' = server
      /\ history' = [history EXCEPT !.faults = @ + 1]
      /\ r.at # "idle"
  BY <1>1 DEF Cancel, Fault
<1>3. /\ n \in CallState /\ n.at = r.at /\ n.thread = r.thread /\ n.conn = r.conn
      /\ n.sent = r.sent /\ n.done = r.done /\ n.attempt = r.attempt /\ n.outcome = r.outcome
      /\ n.cancelled
  BY DEF CallState
<1>4. history' \in HistoryState /\ history'.ended = history.ended
  BY <1>2, Linked DEF HistoryState
<1> HIDE DEF n
<1>5. /\ calls' \in [Calls -> CallState] /\ calls'[c] = n
      /\ \A d \in Calls : d # c => calls'[d] = calls[d]
  BY <1>2, <1>3, Linked
<1>6. ASSUME NEW d \in Calls
      PROVE  /\ calls'[d].at = calls[d].at /\ calls'[d].thread = calls[d].thread
             /\ calls'[d].conn = calls[d].conn /\ calls'[d].sent = calls[d].sent
             /\ calls'[d].done = calls[d].done /\ calls'[d].attempt = calls[d].attempt
             /\ calls'[d].outcome = calls[d].outcome
             /\ calls[d].cancelled => calls'[d].cancelled
             /\ calls'[d].cancel = "asked" => calls'[d].at # "idle" /\ calls'[d].cancelled
  <2>1. CASE d = c
    BY <1>1, <1>2, <1>3, <1>5, <2>1
  <2>2. CASE d # c
    <3>1. CallIs(calls[d], adapter.slot, d)
      BY Linked
    <3> QED
      BY <1>5, <2>2, <3>1 DEF CallIs
  <2> QED
    BY <2>1, <2>2
<1> QED
  BY <1>2, <1>4, <1>5, <1>6, SameServer, CancelStep, Linked

\* The thread whose turn is interrupted is the one of a cancelled call.
LEMMA CancelArrivesHolds ==
    ASSUME LinkInv, NEW c \in Calls, CancelArrives(c)
    PROVE  Holds
<1> DEFINE d == adapter.cancels[Thread(c)]
<1>1. /\ calls[c].cancel = "asked" /\ adapter' = adapter /\ history' = history
      /\ \/ /\ calls' = [x \in Calls |->
                            [calls[x] EXCEPT !.cancel = IF x = c THEN "done" ELSE @,
                                             !.cancelled = @ \/ x = d]]
            /\ server' = Interrupted(Thread(c))
         \/ calls' = [calls EXCEPT ![c].cancel = "done"] /\ server' = server
  BY DEF CancelArrives
<1> HIDE DEF d
<1>2. calls[c].cancelled /\ calls[c].at # "idle"
  BY <1>1, Linked DEF CallIs
<1>3. /\ calls' \in [Calls -> CallState]
      /\ \A x \in Calls :
            /\ calls'[x].at = calls[x].at /\ calls'[x].thread = calls[x].thread
            /\ calls'[x].conn = calls[x].conn /\ calls'[x].sent = calls[x].sent
            /\ calls'[x].done = calls[x].done /\ calls'[x].attempt = calls[x].attempt
            /\ calls'[x].outcome = calls[x].outcome
            /\ calls[x].cancelled => calls'[x].cancelled
            /\ calls'[x].cancel = "asked" => calls'[x].at # "idle" /\ calls'[x].cancelled
  <2>1. ASSUME NEW x \in Calls
        PROVE  /\ calls'[x] \in CallState
               /\ calls'[x].at = calls[x].at /\ calls'[x].thread = calls[x].thread
               /\ calls'[x].conn = calls[x].conn /\ calls'[x].sent = calls[x].sent
               /\ calls'[x].done = calls[x].done /\ calls'[x].attempt = calls[x].attempt
               /\ calls'[x].outcome = calls[x].outcome
               /\ calls[x].cancelled => calls'[x].cancelled
               /\ calls'[x].cancel = "asked" => calls'[x].at # "idle" /\ calls'[x].cancelled
    <3>1. PICK r \in CallState : r = calls[x]
      BY Linked
    <3>2. PICK b \in BOOLEAN, m \in {"none", "asked", "done"} :
             /\ calls'[x] = [r EXCEPT !.cancel = m, !.cancelled = b]
             /\ r.cancelled => b
             /\ m = "asked" => r.cancel = "asked"
      <4>1. CASE /\ calls' = [y \in Calls |->
                               [calls[y] EXCEPT !.cancel = IF y = c THEN "done" ELSE @,
                                                !.cancelled = @ \/ y = d]]
        <5>1. PICK b \in BOOLEAN : b = (r.cancelled \/ x = d)
          OBVIOUS
        <5>2. PICK m \in {"none", "asked", "done"} : m = IF x = c THEN "done" ELSE r.cancel
          BY DEF CallState
        <5>3. calls'[x] = [r EXCEPT !.cancel = IF x = c THEN "done" ELSE r.cancel,
                                    !.cancelled = (r.cancelled \/ x = d)]
          BY <3>1, <4>1
        <5> QED
          BY <5>1, <5>2, <5>3
      <4>2. CASE calls' = [calls EXCEPT ![c].cancel = "done"]
        <5>1. PICK b \in BOOLEAN : b = r.cancelled
          BY DEF CallState
        <5>2. PICK m \in {"none", "asked", "done"} : m = IF x = c THEN "done" ELSE r.cancel
          BY DEF CallState
        <5>3. calls'[x] = [r EXCEPT !.cancel = m, !.cancelled = b]
          BY <3>1, <4>2, <5>1, <5>2, Linked DEF CallState
        <5> QED
          BY <5>1, <5>2, <5>3
      <4> QED
        BY <1>1, <4>1, <4>2
    <3>3. r.cancel = "asked" => r.at # "idle" /\ r.cancelled
      BY <3>1, Linked DEF CallIs
    <3> QED
      BY <3>1, <3>2, <3>3 DEF CallState
  <2>2. DOMAIN calls' = Calls /\ calls' = [x \in Calls |-> calls'[x]]
    BY <1>1, Linked
  <2> QED
    BY <2>1, <2>2
<1>4. CASE server' = server
  BY <1>1, <1>3, <1>4, SameServer, CancelStep, Linked
<1>5. CASE server' = Interrupted(Thread(c))
  <2>1. Thread(c) \in Threads
    BY <1>2, HasThread
  <2> DEFINE sv == Interrupted(Thread(c))
  <2>2. /\ sv \in [Conns -> Connection]
        /\ \A k \in Conns : ConnIs(sv[k], k, calls, adapter.rpc, adapter.starting)
        /\ \A k \in Conns : \A u \in Threads \ {Thread(c)} : Weaker(sv[k], server[k], u)
    BY <2>1, InterruptedConns
  <2>3. server' = sv
    BY <1>5
  <2> HIDE DEF sv
  <2>4. calls'[c].thread = Thread(c) /\ calls'[c].cancelled
    BY <1>2, <1>3 DEF Thread
  <2>5. \A t \in Threads, k \in Conns : Undisturbed(t, calls') => Weaker(server'[k], server[k], t)
    BY <2>2, <2>3, <2>4 DEF Undisturbed
  <2>6. /\ server' \in [Conns -> Connection]
        /\ \A k \in Conns : ConnIs(server'[k], k, calls, adapter.rpc, adapter.starting)
    BY <2>2, <2>3
  <2> QED
    BY <1>1, <1>3, <2>5, <2>6, CancelStep, Linked
<1> QED
  BY <1>1, <1>4, <1>5

LEMMA StopHolds ==
    ASSUME LinkInv, StopAppServer
    PROVE  Holds
<1>1. /\ adapter' = Cleared(TRUE) /\ server' = ClearedServer /\ calls' = calls
      /\ history' = [history EXCEPT !.faults = @ + 1]
  BY DEF StopAppServer, Fault
<1>2. history' \in HistoryState /\ history'.ended = history.ended
  BY <1>1, Linked DEF HistoryState
<1>3. /\ adapter' \in AdapterState /\ adapter'.rpc = Nobody
      /\ adapter'.starting = adapter.starting /\ adapter'.slot = adapter.slot
  BY <1>1, ClearedType, Linked
<1>4. /\ server' \in [Conns -> Connection]
      /\ \A k \in Conns : ConnIs(server'[k], k, calls, adapter'.rpc, adapter'.starting)
  BY <1>1, <1>3, ClearedConns
<1>5. \A t \in Threads, k \in Conns : Weaker(server'[k], server[k], t)
  BY <1>1, ClearedIsWeaker
<1>6. \A k \in Conns : ConnIs(server'[k], k, calls', adapter'.rpc, adapter'.starting)
  BY <1>1, <1>4
<1> QED
  BY <1>1, <1>2, <1>3, <1>4, <1>5, <1>6, ServerStep

\* One connection changes to n, and no call.
LEMMA OneConn ==
    ASSUME LinkInv, NEW k \in Conns, NEW n \in Connection, server' = [server EXCEPT ![k] = n],
           calls' = calls, adapter' \in AdapterState, adapter'.rpc = adapter.rpc,
           adapter'.starting = adapter.starting, adapter'.slot = adapter.slot,
           history' \in HistoryState, history'.ended = history.ended,
           ConnIs(n, k, calls, adapter.rpc, adapter.starting),
           \A t \in Threads : Weaker(n, server[k], t)
    PROVE  Holds
<1>1. server' \in [Conns -> Connection]
  BY Linked
<1>2. ASSUME NEW j \in Conns
      PROVE  /\ ConnIs(server'[j], j, calls', adapter'.rpc, adapter'.starting)
             /\ \A t \in Threads : Weaker(server'[j], server[j], t)
  <2>1. CASE j = k
    BY <2>1, Linked
  <2>2. CASE j # k
    BY <2>2, Linked, Reflexive
  <2> QED
    BY <2>1, <2>2
<1> QED
  BY <1>1, <1>2, ServerStep, Linked

LEMMA DiesHolds ==
    ASSUME LinkInv, NEW k \in Conns, Dies(k)
    PROVE  Holds
<1>1. PICK s \in Connection : s = server[k]
  BY Linked
<1> DEFINE n == [s EXCEPT !.state = "dead", !.running = NoServer.running]
<1>2. /\ server' = [server EXCEPT ![k] = n] /\ adapter' = adapter /\ calls' = calls
      /\ s.state = "up"
      /\ history' = history \/ history' = [history EXCEPT !.faults = @ + 1]
  BY <1>1 DEF Dies, Up, Fault
<1>3. /\ n \in Connection /\ n.state = "dead" /\ n.handler = s.handler /\ n.events = s.events
      /\ n.running = NoServer.running
  BY NoServerType DEF Connection, Perhaps
<1>4. history' \in HistoryState /\ history'.ended = history.ended
  BY <1>2, Linked DEF HistoryState
<1> HIDE DEF n
<1>5. ConnIs(s, k, calls, adapter.rpc, adapter.starting)
  BY <1>1, Linked
<1>6. ConnIs(n, k, calls, adapter.rpc, adapter.starting)
  BY <1>2, <1>3, <1>5 DEF ConnIs
<1>7. \A t \in Threads : Weaker(n, s, t)
  BY <1>3, NoServerType, FewerIsWeaker
<1> QED
  BY <1>1, <1>2, <1>3, <1>4, <1>6, <1>7, OneConn, Linked

LEMMA StdioEndsHolds ==
    ASSUME LinkInv, NEW k \in Conns, StdioEnds(k)
    PROVE  Holds
<1>1. PICK s \in Connection : s = server[k]
  BY Linked
<1>2. /\ server' = [server EXCEPT ![k] = Closed(s)] /\ adapter' = adapter /\ calls' = calls
      /\ history' = history /\ k # adapter.starting
  BY <1>1 DEF StdioEnds
<1>3. /\ Closed(s) \in Connection /\ Closed(s).running = NoServer.running
      /\ Closed(s).state = "closed" /\ Closed(s).handler = s.handler
      /\ Closed(s).events \in {s.events, <<>>}
      /\ s.handler = Nobody => Closed(s) = NoServer
  BY ClosedType
<1>4. ConnIs(s, k, calls, adapter.rpc, adapter.starting)
  BY <1>1, Linked
<1>5. ConnIs(Closed(s), k, calls, adapter.rpc, adapter.starting)
  BY <1>2, <1>3, <1>4 DEF ConnIs
<1>6. \A t \in Threads : Weaker(Closed(s), s, t)
  BY <1>3, NoServerType, FewerIsWeaker
<1> QED
  BY <1>1, <1>2, <1>3, <1>5, <1>6, OneConn, Linked

-----------------------------------------------------------------------------
(* The steps that say something new of a thread                            *)

\* The links hold after the step, and what is said of each undisturbed thread is
\* still what its call awaits.
Settles ==
    /\ LinkInv' /\ Monotone
    /\ \A t \in Threads : (Undisturbed(t, calls') /\ TurnAt(t, server, calls, history.ended))
                             => Calm(t) \/ TurnAt(t, server', calls', history'.ended)

\* Only the call with the slot awaits a turn.
LEMMA AwaitsInSlot ==
    ASSUME LinkInv, NEW c \in Calls, NEW k, Awaits(calls[c], k)
    PROVE  adapter.slot = c
BY Linked DEF Awaits, CallIs, InSlot, InTurn

\* A thread of which something is said: the call with the slot awaits it.
LEMMA HeardBySlot ==
    ASSUME LinkInv, NEW t \in Threads, NEW k \in Conns, ~Silent(server[k], t),
           TurnAt(t, server, calls, history.ended)
    PROVE  \E c \in Calls : /\ adapter.slot = c /\ calls[c].thread = t /\ Awaits(calls[c], k)
                            /\ Says(server[k], t, TurnOf(calls[c], c), history.ended)
BY AwaitsInSlot DEF TurnAt, Heard

\* A turn begins on a thread nothing was said of.
LEMMA RequestSettles ==
    ASSUME LinkInv, NEW c \in Calls, Request(c)
    PROVE  Settles
<1>1. /\ calls[c].at = "start" /\ adapter' = adapter /\ adapter.rpc # Nobody
      /\ server[adapter.rpc].state = "up"
      /\ calls' = [calls EXCEPT ![c].at = "sent", ![c].sent = adapter.rpc]
      /\ history' = [history EXCEPT !.begun = @ \cup {c}]
  BY DEF Request, At, Up
<1>2. PICK k \in Conns : k = adapter.rpc
  BY <1>1, Linked DEF AdapterState, Somewhere
<1>3. PICK s \in Connection : s = server[k]
  BY Linked
<1>4. PICK t \in Threads : t = Thread(c)
  BY <1>1, HasThread
<1>5. PICK v \in Turns : v = TurnOf(calls[c], c)
  BY TurnType, Linked
<1> DEFINE e == [thread |-> t, kind |-> "started", turn |-> v]
           m == IF s.running[t] = NoTurn THEN s ELSE EndsTurn(s, t)
           n == [m EXCEPT !.running[t] = v, !.events = Append(@, e)]
<1>6. server' = [server EXCEPT ![k] = n]
  BY <1>2, <1>3, <1>4, <1>5 DEF Request, Turn, TurnOf
<1>7. e \in Notification /\ e.thread = t
  BY DEF Notification
<1>8. ConnIs(s, k, calls, adapter.rpc, adapter.starting) /\ s.state = "up"
  BY <1>1, <1>2, <1>3, Linked
<1>9. /\ m \in Connection /\ m.state = "up" /\ m.handler = s.handler
      /\ \A u \in Threads \ {t} : Weaker(m, s, u)
      /\ Silent(s, t) => m = s
  <2>1. CASE s.running[t] = NoTurn
    BY <1>8, <2>1, Reflexive
  <2>2. CASE s.running[t] # NoTurn
    BY <1>8, <2>2, EndsTurnConn, EndsTurnType DEF Silent
  <2> QED
    BY <2>1, <2>2
<1> HIDE DEF e, m
<1>10. /\ n \in Connection /\ n.state = "up" /\ n.handler = s.handler
       /\ n.events = Append(m.events, e) /\ n.running = [m.running EXCEPT ![t] = v]
       /\ n.running[t] = v /\ \A u \in Threads \ {t} : n.running[u] = m.running[u]
  <2>1. m.events \in Seq(Notification) /\ m.running \in [Threads -> Perhaps]
    BY <1>9, Parts
  <2>2. Append(m.events, e) \in Seq(Notification)
    BY <1>7, <2>1
  <2>3. [m.running EXCEPT ![t] = v] \in [Threads -> Perhaps]
    BY <2>1 DEF Perhaps
  <2> QED
    BY <1>9, <2>1, <2>2, <2>3 DEF Connection, Perhaps
<1> HIDE DEF n
<1>11. \A u \in Threads \ {t} : Weaker(n, s, u)
  <2>1. \A u \in Threads \ {t} : Weaker(n, m, u)
    BY <1>7, <1>9, <1>10, AppendIsWeaker
  <2> QED
    BY <1>9, <2>1 DEF Weaker
<1>12. Becomes(c, "sent", calls[c].conn, k, calls[c].done, calls[c].attempt, calls[c].outcome)
  <2>1. PICK r \in CallState : r = calls[c]
    BY Linked
  <2> DEFINE q == [r EXCEPT !.at = "sent", !.sent = k]
  <2>2. calls' = [calls EXCEPT ![c] = q]
    BY <1>1, <1>2, <2>1
  <2>3. q \in CallState
    BY DEF CallState, Steps, Somewhere
  <2> QED
    BY <2>1, <2>2, <2>3, Linked DEF Becomes, Others, CallState
<1>13. /\ calls' \in [Calls -> CallState] /\ Others(c) /\ calls'[c].at = "sent"
       /\ calls'[c].conn = calls[c].conn /\ calls'[c].sent = k /\ calls'[c].done = calls[c].done
       /\ calls'[c].thread = calls[c].thread /\ calls'[c].attempt = calls[c].attempt
       /\ calls'[c].outcome = calls[c].outcome /\ calls'[c].cancelled = calls[c].cancelled
       /\ calls'[c].cancel = calls[c].cancel
  BY <1>12 DEF Becomes
<1>14. history' \in HistoryState /\ history'.ended = history.ended
  BY <1>1, Linked DEF HistoryState
<1>15. server' \in [Conns -> Connection] /\ server'[k] = n /\ \A j \in Conns \ {k} : server'[j] = server[j]
  BY <1>6, <1>10, Linked
<1>16. LinkInv'
  <2>1. TypeOK'
    BY <1>1, <1>13, <1>14, <1>15, Linked, Retyped
  <2>2. CallIs(calls[c], adapter.slot, c)
    BY Linked
  <2>3. CallIs(calls'[c], adapter'.slot, c)
    BY <1>1, <1>2, <1>13, <2>2, Names DEF CallIs, InSlot, OnConn
  <2>4. \A d \in Calls : CallIs(calls'[d], adapter'.slot, d)
    BY <1>1, <1>13, <2>3, OtherCalls
  <2>5. ASSUME NEW j \in Conns
        PROVE  ConnIs(server'[j], j, calls', adapter.rpc, adapter.starting)
    <3>1. ConnIs(server[j], j, calls, adapter.rpc, adapter.starting) /\ server[j] \in Connection
      BY Linked
    <3>2. server[j].handler # c \/ (calls'[c].at \in OnConn /\ calls'[c].conn = j)
      BY <1>13, <3>1, Names DEF ConnIs, OnConn
    <3>3. ConnIs(server[j], j, calls', adapter.rpc, adapter.starting)
      BY <1>13, <3>1, <3>2, ConnKept
    <3>4. CASE j = k
      <4>1. adapter.starting = Nobody /\ k # Nobody
        BY <1>1, Linked, Names
      <4> QED
        BY <1>2, <1>3, <1>8, <1>10, <1>15, <3>3, <3>4, <4>1 DEF ConnIs
    <3>5. CASE j # k
      BY <1>15, <3>3, <3>5
    <3> QED
      BY <3>4, <3>5
  <2> QED
    BY <1>1, <2>1, <2>4, <2>5, Linked, Relinked
<1>17. Monotone
  BY <1>13 DEF Monotone, Others
<1>18. ASSUME NEW u \in Threads, u # t
       PROVE  Calm(u)
  <2>1. \A j \in Conns : Weaker(server'[j], server[j], u)
    <3>1. ASSUME NEW j \in Conns
          PROVE  Weaker(server'[j], server[j], u)
      <4>1. CASE j = k
        BY <1>3, <1>11, <1>15, <1>18, <4>1
      <4>2. CASE j # k
        BY <1>15, <4>2, Reflexive
      <4> QED
        BY <4>1, <4>2
    <3> QED
      BY <3>1
  <2>2. ASSUME NEW d \in Calls, calls[d].thread = u \/ calls'[d].thread = u
        PROVE  CallCalm(calls'[d], calls[d], Quiet(u, server'))
    <3>1. d # c
      BY <1>4, <1>13, <1>18, <2>2 DEF Thread
    <3> QED
      BY <1>13, <3>1 DEF Others, CallCalm
  <2> QED
    BY <1>14, <2>1, <2>2 DEF Calm
<1>19. ASSUME TurnAt(t, server, calls, history.ended)
       PROVE  TurnAt(t, server', calls', history'.ended)
  <2>1. adapter.slot = c
    BY <1>1, Linked DEF CallIs, InSlot
  <2>2. ~\E j \in Conns : Awaits(calls[c], j)
    BY <1>1 DEF Awaits, InTurn
  <2>3. \A j \in Conns : Silent(server[j], t)
    BY <1>19, <2>1, <2>2, HeardBySlot
  <2>4. calls[c].thread = t /\ ~calls[c].done
    BY <1>1, <1>4, <1>19 DEF TurnAt, Thread
  <2>5. m = s /\ Silent(s, t)
    BY <1>3, <1>9, <2>3
  <2>6. Says(n, t, v, history.ended)
    BY <1>10, <2>5, StartedIsSaid DEF e
  <2>7. TurnOf(calls'[c], c) = v /\ Awaits(calls'[c], k) /\ calls'[c].thread = t
    BY <1>5, <1>13, <2>4 DEF TurnOf, Awaits, InTurn
  <2>8. \A j \in Conns : Heard(server'[j], j, t, calls', history'.ended)
    <3>1. ASSUME NEW j \in Conns
          PROVE  Heard(server'[j], j, t, calls', history'.ended)
      <4>1. CASE j = k
        BY <1>14, <1>15, <2>6, <2>7, <4>1 DEF Heard
      <4>2. CASE j # k
        BY <1>15, <2>3, <4>2 DEF Heard
      <4> QED
        BY <4>1, <4>2
    <3> QED
      BY <3>1
  <2>9. ASSUME NEW d \in Calls, calls'[d].thread = t,
               calls'[d].done \/ calls'[d].outcome = "completed"
        PROVE  calls'[d].at # "start" /\ TurnOf(calls'[d], d) \in history'.ended
    <3>1. CASE d # c
      BY <1>13, <1>14, <1>19, <2>9, <3>1 DEF TurnAt, Others
    <3>2. CASE d = c
      <4>1. calls[c].outcome = "completed"
        BY <1>13, <2>4, <2>9, <3>2
      <4> QED
        BY <1>1, <4>1, Linked DEF CallIs
    <3> QED
      BY <3>1, <3>2
  <2> QED
    BY <2>8, <2>9 DEF TurnAt
<1> QED
  BY <1>16, <1>17, <1>18, <1>19 DEF Settles

\* The running turn ends: the last that is said of it is that it ended.
LEMMA TurnEndsSettles ==
    ASSUME LinkInv, NEW k \in Conns, TurnEnds(k)
    PROVE  Settles
<1>1. PICK s \in Connection : s = server[k]
  BY Linked
<1>2. PICK t \in Threads : /\ s.running[t] # NoTurn
                           /\ server' = [server EXCEPT ![k] = EndsTurn(s, t)]
                           /\ history' = [history EXCEPT !.ended = @ \cup {s.running[t]}]
  BY <1>1 DEF TurnEnds
<1>3. adapter' = adapter /\ calls' = calls /\ s.state = "up"
  BY <1>1 DEF TurnEnds, Up
<1> DEFINE n == EndsTurn(s, t)
           v == s.running[t]
           e == [thread |-> t, kind |-> "ended", turn |-> v]
<1>4. ConnIs(s, k, calls, adapter.rpc, adapter.starting)
  BY <1>1, Linked
<1>5. /\ n \in Connection /\ n.events = Append(s.events, e)
      /\ n.running = [s.running EXCEPT ![t] = NoTurn] /\ n.running[t] = NoTurn
      /\ ConnIs(n, k, calls, adapter.rpc, adapter.starting)
      /\ \A u \in Threads \ {t} : Weaker(n, s, u)
  BY <1>2, <1>3, <1>4, EndsTurnType, EndsTurnConn, Parts
<1>6. v \in Turns
  BY <1>2, Parts DEF Perhaps
<1>7. /\ history' \in HistoryState /\ history'.ended = history.ended \cup {v}
  BY <1>2, <1>6, Linked DEF HistoryState
<1>8. server' = [server EXCEPT ![k] = n]
  BY <1>2
<1> HIDE DEF n, e, v
<1>9. server' \in [Conns -> Connection] /\ server'[k] = n /\ \A j \in Conns \ {k} : server'[j] = server[j]
  BY <1>5, <1>8, Linked
<1>10. LinkInv'
  <2>1. TypeOK'
    BY <1>3, <1>7, <1>9, Linked, Retyped
  <2>2. \A j \in Conns : ConnIs(server'[j], j, calls', adapter'.rpc, adapter'.starting)
    BY <1>3, <1>5, <1>9, Linked
  <2> QED
    BY <1>3, <2>1, <2>2, Linked, Relinked
<1>11. Monotone
  BY <1>3 DEF Monotone
<1>12. ASSUME NEW u \in Threads, u # t
       PROVE  Calm(u)
  <2>1. ASSUME NEW j \in Conns
        PROVE  Weaker(server'[j], server[j], u)
    <3>1. CASE j = k
      BY <1>1, <1>5, <1>9, <1>12, <3>1
    <3>2. CASE j # k
      BY <1>9, <3>2, Reflexive
    <3> QED
      BY <3>1, <3>2
  <2>2. \A d \in Calls : CallCalm(calls'[d], calls[d], Quiet(u, server'))
    BY <1>3 DEF CallCalm
  <2> QED
    BY <1>7, <2>1, <2>2 DEF Calm
<1>13. ASSUME TurnAt(t, server, calls, history.ended)
       PROVE  TurnAt(t, server', calls', history'.ended)
  <2>1. ~Silent(s, t)
    BY <1>2 DEF Silent
  <2>2. PICK c \in Calls : /\ calls[c].thread = t /\ Awaits(calls[c], k)
                           /\ Says(s, t, TurnOf(calls[c], c), history.ended)
    BY <1>1, <1>13, <2>1, HeardBySlot
  <2>3. v = TurnOf(calls[c], c)
    BY <1>2, <2>2 DEF Says, v
  <2>4. Says(n, t, v, history'.ended)
    <3>1. v \in history'.ended /\ s.running[t] = v /\ Says(s, t, v, history.ended)
      BY <1>7, <2>2, <2>3 DEF v
    <3>2. n.events = Append(s.events, [thread |-> t, kind |-> "ended", turn |-> v])
      BY <1>5 DEF e
    <3> QED
      BY <1>5, <1>6, <3>1, <3>2, EndIsSaid
  <2>5. ASSUME NEW j \in Conns
        PROVE  Heard(server'[j], j, t, calls', history'.ended)
    <3>1. CASE j = k
      BY <1>3, <1>9, <2>2, <2>3, <2>4, <3>1 DEF Heard
    <3>2. CASE j # k
      <4>1. Heard(server[j], j, t, calls, history.ended)
        BY <1>13 DEF TurnAt
      <4>2. CASE Silent(server[j], t)
        BY <1>9, <3>2, <4>2 DEF Heard
      <4>3. ASSUME NEW d \in Calls, calls[d].thread = t, Awaits(calls[d], j),
                   Says(server[j], t, TurnOf(calls[d], d), history.ended)
            PROVE  Heard(server'[j], j, t, calls', history'.ended)
        <5>1. Says(server[j], t, TurnOf(calls[d], d), history'.ended)
          BY <1>7, <4>3, MoreEnded
        <5> QED
          BY <1>3, <1>9, <3>2, <4>3, <5>1 DEF Heard
      <4> QED
        BY <4>1, <4>2, <4>3 DEF Heard
    <3> QED
      BY <3>1, <3>2
  <2> QED
    BY <1>3, <1>7, <1>13, <2>5 DEF TurnAt
<1> QED
  BY <1>10, <1>11, <1>12, <1>13 DEF Settles

LEMMA HoldsSettles ==
    ASSUME Holds
    PROVE  Settles
BY DEF Holds, Settles

\* A call hears the end of its turn, and nothing more is said of its thread.
LEMMA DeliverSettles ==
    ASSUME LinkInv, NEW k \in Conns, Deliver(k)
    PROVE  Settles
<1>1. PICK s \in Connection : s = server[k]
  BY Linked
<1> DEFINE n == [s EXCEPT !.events = Tail(@)]
           e == Head(s.events)
           c == s.handler
<1>2. /\ s.events # <<>> /\ server' = [server EXCEPT ![k] = n] /\ history' = history
      /\ \/ adapter' = adapter /\ calls' = calls
         \/ /\ adapter' = [adapter EXCEPT !.active[e.thread] = e.turn] /\ calls' = calls
            /\ c # Nobody
         \/ /\ c # Nobody /\ e.thread = Thread(c) /\ e.kind # "started" /\ adapter' = adapter
            /\ calls' = [calls EXCEPT ![c].done = TRUE]
  BY <1>1 DEF Deliver
<1>3. s.events \in Seq(Notification) /\ Tail(s.events) \in Seq(Notification) /\ e \in Notification
  BY <1>2, Parts, HeadTailProperties
<1>4. /\ n \in Connection /\ n.state = s.state /\ n.handler = s.handler
      /\ n.running = s.running /\ n.events = Tail(s.events)
  BY <1>3 DEF Connection
<1>5. ConnIs(s, k, calls, adapter.rpc, adapter.starting)
  BY <1>1, Linked
<1>6. e.thread \in Threads /\ e.turn \in Turns /\ e.kind \in {"started", "ended"}
  BY <1>3 DEF Notification
<1> HIDE DEF n, e
<1>7. ConnIs(n, k, calls, adapter.rpc, adapter.starting)
  BY <1>2, <1>4, <1>5, NoServerType DEF ConnIs
<1>8. \A t \in Threads : Weaker(n, s, t)
  BY <1>2, <1>4, TailIsWeaker
<1>9. CASE adapter' = adapter /\ calls' = calls
  BY <1>1, <1>2, <1>4, <1>7, <1>8, <1>9, OneConn, HoldsSettles, Linked
<1>10. CASE adapter' = [adapter EXCEPT !.active[e.thread] = e.turn] /\ calls' = calls
  <2>1. /\ adapter' \in AdapterState /\ adapter'.rpc = adapter.rpc
        /\ adapter'.starting = adapter.starting /\ adapter'.slot = adapter.slot
    BY <1>6, <1>10, Linked DEF AdapterState, Perhaps
  <2> QED
    BY <1>1, <1>2, <1>4, <1>7, <1>8, <1>10, <2>1, OneConn, HoldsSettles, Linked
<1>11. CASE /\ c # Nobody /\ e.thread = Thread(c) /\ e.kind # "started" /\ adapter' = adapter
            /\ calls' = [calls EXCEPT ![c].done = TRUE]
  <2>1. c \in Calls /\ calls[c].at \in OnConn /\ calls[c].conn = k /\ adapter.slot = c
    BY <1>1, <1>11, HandlerIsOn
  <2>2. PICK t \in Threads : t = e.thread /\ t = calls[c].thread
    BY <1>6, <1>11 DEF Thread
  <2>3. Becomes(c, calls[c].at, calls[c].conn, calls[c].sent, TRUE, calls[c].attempt,
                calls[c].outcome)
    <3>1. PICK r \in CallState : r = calls[c]
      BY <2>1, Linked
    <3> DEFINE q == [r EXCEPT !.done = TRUE]
    <3>2. calls' = [calls EXCEPT ![c] = q]
      BY <1>11, <3>1
    <3>3. q \in CallState
      BY DEF CallState
    <3> QED
      BY <2>1, <3>1, <3>2, <3>3, Linked DEF Becomes, Others, CallState
  <2>4. /\ calls' \in [Calls -> CallState] /\ Others(c) /\ calls'[c].at = calls[c].at
        /\ calls'[c].conn = k /\ calls'[c].sent = calls[c].sent /\ calls'[c].done
        /\ calls'[c].thread = t /\ calls'[c].attempt = calls[c].attempt
        /\ calls'[c].outcome = calls[c].outcome /\ calls'[c].cancelled = calls[c].cancelled
        /\ calls'[c].cancel = calls[c].cancel
    BY <2>1, <2>2, <2>3 DEF Becomes
  <2> HIDE DEF c
  <2>5. server' \in [Conns -> Connection] /\ server'[k] = n /\ \A j \in Conns \ {k} : server'[j] = server[j]
    BY <1>2, <1>4, Linked
  <2>6. LinkInv'
    <3>1. TypeOK'
      BY <1>2, <1>11, <2>4, <2>5, Linked, Retyped
    <3>2. CallIs(calls[c], adapter.slot, c)
      BY <2>1, Linked
    <3>3. CallIs(calls'[c], adapter'.slot, c)
      BY <1>11, <2>1, <2>2, <2>4, <3>2 DEF CallIs
    <3>4. \A d \in Calls : CallIs(calls'[d], adapter'.slot, d)
      BY <1>11, <2>1, <2>4, <3>3, OtherCalls
    <3>5. ASSUME NEW j \in Conns
          PROVE  ConnIs(server'[j], j, calls', adapter.rpc, adapter.starting)
      <4>1. /\ server'[j] \in Connection
            /\ ConnIs(server'[j], j, calls, adapter.rpc, adapter.starting)
        BY <1>4, <1>7, <2>5, Linked
      <4>2. server'[j].handler # c \/ (calls'[c].at \in OnConn /\ calls'[c].conn = j)
        BY <2>1, <2>4, <4>1, Names DEF ConnIs
      <4> QED
        BY <2>1, <2>4, <4>1, <4>2, ConnKept
    <3> QED
      BY <1>11, <3>1, <3>4, <3>5, Linked, Relinked
  <2>7. Monotone
    BY <2>1, <2>2, <2>4 DEF Monotone, Others
  <2>8. \A j \in Conns : \A u \in Threads : Weaker(server'[j], server[j], u)
    <3>1. ASSUME NEW j \in Conns, NEW u \in Threads
          PROVE  Weaker(server'[j], server[j], u)
      <4>1. CASE j = k
        BY <1>1, <1>8, <2>5, <4>1
      <4>2. CASE j # k
        BY <2>5, <4>2, Reflexive
      <4> QED
        BY <4>1, <4>2
    <3> QED
      BY <3>1
  <2>9. ASSUME NEW u \in Threads, u # t
        PROVE  Calm(u)
    <3>1. ASSUME NEW d \in Calls, calls[d].thread = u \/ calls'[d].thread = u
          PROVE  CallCalm(calls'[d], calls[d], Quiet(u, server'))
      <4>1. d # c
        BY <2>2, <2>4, <2>9, <3>1
      <4> QED
        BY <2>4, <4>1 DEF Others, CallCalm
    <3> QED
      BY <1>2, <2>8, <3>1 DEF Calm
  <2>10. ASSUME TurnAt(t, server, calls, history.ended)
         PROVE  TurnAt(t, server', calls', history'.ended)
    <3>1. ~Silent(s, t)
      <4>1. 1 \in 1..Len(s.events) /\ s.events[1] = e
        BY <1>2, <1>3, EmptySeq DEF e
      <4> QED
        BY <2>2, <4>1 DEF Silent
    <3>2. PICK d \in Calls : /\ adapter.slot = d /\ calls[d].thread = t /\ Awaits(calls[d], k)
                             /\ Says(s, t, TurnOf(calls[d], d), history.ended)
      BY <1>1, <2>10, <3>1, HeardBySlot
    <3>3. d = c
      BY <2>1, <3>2
    <3>4. e.kind = "ended"
      BY <1>6, <1>11
    <3>5. Silent(n, t) /\ TurnOf(calls[c], c) \in history.ended
      BY <1>2, <1>4, <2>2, <3>2, <3>3, <3>4, EndIsLast DEF e
    <3>6. calls[c].at \in {"sent", "wait"} /\ calls[c].sent = k
      BY <2>1, <3>2, <3>3 DEF Awaits, InTurn, OnConn
    <3>7. ASSUME NEW j \in Conns
          PROVE  Heard(server'[j], j, t, calls', history'.ended)
      <4>1. CASE j = k
        BY <2>5, <3>5, <4>1 DEF Heard
      <4>2. CASE j # k
        <5>1. ~Awaits(calls[c], j)
          BY <3>6, <4>2 DEF Awaits
        <5>2. Silent(server[j], t)
          BY <2>1, <2>10, <5>1, HeardBySlot
        <5> QED
          BY <2>5, <4>2, <5>2 DEF Heard
      <4> QED
        BY <4>1, <4>2
    <3>8. ASSUME NEW x \in Calls, calls'[x].thread = t,
                 calls'[x].done \/ calls'[x].outcome = "completed"
          PROVE  calls'[x].at # "start" /\ TurnOf(calls'[x], x) \in history'.ended
      <4>1. CASE x = c
        BY <1>2, <2>4, <3>5, <3>6, <4>1 DEF TurnOf
      <4>2. CASE x # c
        BY <1>2, <2>4, <2>10, <3>8, <4>2 DEF TurnAt, Others
      <4> QED
        BY <4>1, <4>2
    <3> QED
      BY <3>7, <3>8 DEF TurnAt
  <2> QED
    BY <2>6, <2>7, <2>9, <2>10 DEF Settles
<1> QED
  BY <1>2, <1>9, <1>10, <1>11

-----------------------------------------------------------------------------
(* The theorems                                                            *)

LEMMA Initially ==
    ASSUME Init
    PROVE  IInv
<1>1. /\ adapter.rpc = Nobody /\ adapter.starting = Nobody /\ adapter.slot = Nobody
      /\ adapter \in AdapterState
  BY Names DEF Init, AdapterState
<1>2. \A k \in Conns : server[k] = NoServer
  BY DEF Init
<1>3. /\ \A c \in Calls : calls[c] = NoCall
      /\ NoCall.at = "idle" /\ NoCall.thread = Nobody /\ ~NoCall.done /\ NoCall.cancel = "none"
      /\ NoCall.outcome = "none" /\ NoCall \in CallState
  BY Names DEF Init, NoCall, CallState, Steps, Outcomes
<1>4. TypeOK
  <2>1. server \in [Conns -> Connection] /\ calls \in [Calls -> CallState]
    BY <1>3, NoServerType DEF Init
  <2>2. history \in HistoryState
    BY DEF Init, HistoryState
  <2> QED
    BY <1>1, <2>1, <2>2, Typed
<1>5. \A c \in Calls : CallOK(c)
  BY <1>3 DEF CallOK, CallIs, InSlot, OnConn
<1>6. \A k \in Conns : ConnOK(k)
  BY <1>1, <1>2, NoServerType, Names DEF ConnOK, ConnIs
<1>7. LinkInv
  BY <1>1, <1>4, <1>5, <1>6 DEF LinkInv
<1>8. TurnInv
  BY <1>2, <1>3, NoServerIsSilent DEF TurnInv, Heard
<1>9. AnswersOwnTurn
  BY <1>3 DEF AnswersOwnTurn
<1> QED
  BY <1>7, <1>8, <1>9 DEF IInv

LEMMA StepSettles ==
    ASSUME LinkInv, Next
    PROVE  Settles
<1>1. ASSUME NEW c \in Calls, NEW t \in Threads, NEW fresh \in BOOLEAN, Call(c, t, fresh)
      PROVE  Settles
  BY <1>1, CallHolds, HoldsSettles
<1>2. ASSUME NEW c \in Calls, Runs(c)
      PROVE  Settles
  <2>1. CASE Spawn(c)
    BY <2>1, SpawnHolds, HoldsSettles
  <2>2. CASE Handshake(c)
    BY <2>2, HandshakeHolds, HoldsSettles
  <2>3. CASE StartFails(c)
    BY <2>3, StartFailsHolds, HoldsSettles
  <2>4. CASE Open(c)
    BY <2>4, OpenHolds, HoldsSettles
  <2>5. CASE OpenFails(c)
    BY <2>5, OpenFailsHolds, HoldsSettles
  <2>6. CASE TakeSlot(c)
    BY <2>6, TakeSlotHolds, HoldsSettles
  <2>7. CASE LeaveSlot(c)
    BY <2>7, LeaveSlotHolds, HoldsSettles
  <2>8. CASE Capture(c)
    BY <2>8, CaptureHolds, HoldsSettles
  <2>9. CASE Request(c)
    BY <2>9, RequestSettles
  <2>10. CASE RequestFails(c)
    BY <2>10, RequestFailsHolds, HoldsSettles
  <2>11. CASE Answer(c)
    BY <2>11, AnswerHolds, HoldsSettles
  <2>12. CASE AnswerFails(c)
    BY <2>12, AnswerFailsHolds, HoldsSettles
  <2>13. CASE AwaitEnds(c)
    BY <2>13, AwaitEndsHolds, HoldsSettles
  <2>14. CASE Drop(c)
    BY <2>14, DropHolds, HoldsSettles
  <2>15. CASE Recover(c)
    BY <2>15, RecoverHolds, HoldsSettles
  <2>16. CASE Reopen(c)
    BY <2>16, ReopenHolds, HoldsSettles
  <2>17. CASE ReopenFails(c)
    BY <2>17, ReopenFailsHolds, HoldsSettles
  <2> QED
    BY <1>2, <2>1, <2>2, <2>3, <2>4, <2>5, <2>6, <2>7, <2>8, <2>9, <2>10, <2>11, <2>12, <2>13,
       <2>14, <2>15, <2>16, <2>17 DEF Runs
<1>3. ASSUME NEW c \in Calls, Cancel(c) \/ CancelArrives(c)
      PROVE  Settles
  BY <1>3, CancelHolds, CancelArrivesHolds, HoldsSettles
<1>4. CASE StopAppServer
  BY <1>4, StopHolds, HoldsSettles
<1>5. ASSUME NEW k \in Conns, Server(k)
      PROVE  Settles
  BY <1>5, DiesHolds, StdioEndsHolds, TurnEndsSettles, DeliverSettles, HoldsSettles DEF Server
<1> QED
  BY <1>1, <1>2, <1>3, <1>4, <1>5 DEF Next

LEMMA AlwaysTurnsAt ==
    LinkInv => ((TurnInv /\ AnswersOwnTurn)
                   <=> \A t \in Threads :
                          Undisturbed(t, calls) => TurnAt(t, server, calls, history.ended))
BY TurnsAt

LEMMA Inductive ==
    ASSUME IInv, [Next]_vars
    PROVE  IInv'
<1>1. CASE Next
  <2>1. Settles /\ LinkInv
    BY <1>1, StepSettles DEF IInv
  <2>2. LinkInv' /\ TypeOK'
    BY <2>1 DEF Settles, LinkInv
  <2>3. ASSUME NEW t \in Threads, Undisturbed(t, calls')
        PROVE  TurnAt(t, server', calls', history'.ended)
    <3>1. Undisturbed(t, calls)
      BY <2>1, <2>3, StillUndisturbed DEF Settles
    <3>2. TurnAt(t, server, calls, history.ended)
      BY <2>1, <3>1, TurnsAt DEF IInv
    <3>3. Calm(t) \/ TurnAt(t, server', calls', history'.ended)
      BY <2>1, <2>3, <3>2 DEF Settles
    <3> QED
      BY <2>1, <2>2, <3>2, <3>3, CalmKeeps
  <2>4. (LinkInv => ((TurnInv /\ AnswersOwnTurn)
                        <=> \A t \in Threads :
                               Undisturbed(t, calls) => TurnAt(t, server, calls, history.ended)))'
    BY AlwaysTurnsAt, PTL
  <2> QED
    BY <2>2, <2>3, <2>4 DEF IInv
<1>2. CASE UNCHANGED vars
  BY <1>2 DEF vars, IInv, LinkInv, TypeOK, CallOK, ConnOK, TurnInv, Thread, Turn, AnswersOwnTurn
<1> QED
  BY <1>1, <1>2

\* The inductive invariant: the links between slot, calls and connections, and what a
\* connection may still say of a thread nobody cancelled.
THEOREM Invariance == Spec => []IInv
BY Initially, Inductive, PTL DEF Spec

\* The adapter, the connections and the calls have their types: the turn slot, the
\* handlers and the queues of the app-server's notifications never hold anything else.
THEOREM TypeCorrect == Spec => []TypeOK
<1>1. IInv => TypeOK
  BY DEF IInv, LinkInv
<1> QED
  BY <1>1, Invariance, PTL

\* An Execute that completes saw the end of its own last turn, for every number of
\* calls, connections, attempts and faults, when no call of its thread was cancelled.
THEOREM OwnTurn == Spec => []AnswersOwnTurn
<1>1. IInv => AnswersOwnTurn
  BY DEF IInv
<1> QED
  BY <1>1, Invariance, PTL
=============================================================================
