----------------------------- MODULE CodexAdapter -----------------------------
(***************************************************************************)
(* The Codex adapter (internal/adapters/codex): concurrent Execute calls   *)
(* share one `codex app-server` child, its connection and one turn slot.   *)
(* The child dies at any moment, or with the context of the Execute that   *)
(* started it; calls are cancelled, and the harness is reset, at any time. *)
(*                                                                         *)
(* An action is what one goroutine does between two points where another   *)
(* can come in: a request and its answer, a channel, a mutex.  The server  *)
(* is external: it may refuse any request, it ends its turns in its own    *)
(* time, and a new turn on a thread with a running one replaces that.      *)
(* A thread has the number of the call that created it, or that first      *)
(* named it when an earlier run of Hero had saved it.                      *)
(***************************************************************************)
EXTENDS Naturals, Sequences, FiniteSets

CONSTANTS MaxCalls,      \* bound: Execute calls
          ConnCount,     \* connections that exist at the same time
          Attempts,      \* connectionReconnectAttempts
          ContinueLimit, \* interruptedTurnContinueLimit
          MaxFaults      \* bounds, for each number of calls: cancelled calls, StopAppServer calls, and deaths of
                         \* the child that no context caused

Calls == 1..MaxCalls
Threads == Calls
Conns == 1..ConnCount
Nobody == 0

ASSUME BoundsAssumption ==
    /\ MaxCalls \in Nat \ {0} /\ ConnCount \in Nat \ {0}
    /\ MaxFaults \in [Calls -> Nat]
ASSUME LimitsAssumption == Attempts \in Nat \ {0} /\ ContinueLimit \in Nat

VARIABLES
    adapter,    \* what Adapter.mu, startMu and turnSlot guard
    server,     \* each connection with the child at its other end
    calls,      \* each Execute
    history     \* the faults so far, the turns that ended, and whose turn began

vars == <<adapter, server, calls, history>>

Turns == [call : Calls, attempt : 0..Attempts - 1]
NoTurn == [call |-> Nobody, attempt |-> 0]
Notification == [thread : Threads, kind : {"started", "ended"}, turn : Turns]

NoServer == [state |-> "closed", owner |-> Nobody, handler |-> Nobody, events |-> <<>>,
             running |-> [t \in Threads |-> NoTurn]]

NoCall == [at |-> "idle", thread |-> Nobody, fresh |-> FALSE, conn |-> Nobody,
           sent |-> Nobody, done |-> FALSE, attempt |-> 0, continues |-> 0,
           cancelled |-> FALSE, cancel |-> "none", outcome |-> "none"]

Connection == [state : {"up", "dead", "closed"}, owner : Calls \cup {Nobody},
               handler : Calls \cup {Nobody}, events : Seq(Notification),
               running : [Threads -> Turns \cup {NoTurn}]]

TypeOK ==
    /\ adapter \in [rpc : Conns \cup {Nobody}, starting : Conns \cup {Nobody},
                    sessions : SUBSET Threads, active : [Threads -> Turns \cup {NoTurn}],
                    cancels : [Threads -> Calls \cup {Nobody}], slot : Calls \cup {Nobody}]
    /\ server \in [Conns -> Connection]
    /\ calls \in [Calls ->
          [at : {"idle", "open", "slot", "turn", "start", "sent", "wait", "drop",
                 "recover", "reopen", "over"},
           thread : Threads \cup {Nobody}, fresh : BOOLEAN, conn : Conns \cup {Nobody},
           sent : Conns \cup {Nobody}, done : BOOLEAN,
           attempt : 0..Attempts - 1, continues : 0..ContinueLimit, cancelled : BOOLEAN,
           cancel : {"none", "asked", "done"},
           outcome : {"none", "completed", "failed", "cancelled"}]]
    /\ history \in [faults : Nat, ended : SUBSET Turns, begun : SUBSET Calls]

Init ==
    /\ adapter = [rpc |-> Nobody, starting |-> Nobody, sessions |-> {},
                  active |-> [t \in Threads |-> NoTurn],
                  cancels |-> [t \in Threads |-> Nobody], slot |-> Nobody]
    /\ server = [k \in Conns |-> NoServer]
    /\ calls = [c \in Calls |-> NoCall]
    /\ history = [faults |-> 0, ended |-> {}, begun |-> {}]

-----------------------------------------------------------------------------
(* Connections                                                             *)

Up(k) == k # Nobody /\ server[k].state = "up"
Thread(c) == calls[c].thread
Turn(c) == [call |-> c, attempt |-> calls[c].attempt]

\* Its Execute has returned or was cancelled: exec.CommandContext kills the child.
ContextDone(c) == calls[c].cancelled \/ calls[c].at = "over"

\* What is queued for a handler may still be delivered after the connection closed.
Closed(s) == IF s.handler = Nobody THEN NoServer
             ELSE [s EXCEPT !.state = "closed", !.running = NoServer.running]

Unhandled(sv, c) ==
    [k \in Conns |-> IF sv[k].handler # c THEN sv[k]
                     ELSE IF sv[k].state = "closed" THEN NoServer
                     ELSE [sv[k] EXCEPT !.handler = Nobody]]

\* clearAppServerState: whatever connection the adapter has now.
ClearedServer == IF adapter.rpc = Nobody THEN server
                 ELSE [server EXCEPT ![adapter.rpc] = Closed(@)]

Cleared(clearCancels) ==
    [adapter EXCEPT !.rpc = Nobody, !.sessions = {},
                    !.active = [t \in Threads |-> NoTurn],
                    !.cancels = IF clearCancels THEN [t \in Threads |-> Nobody] ELSE @]

\* The server with the turn of thread t ended, which it announces.
EndsTurn(s, t) ==
    [s EXCEPT !.events = Append(@, [thread |-> t, kind |-> "ended", turn |-> s.running[t]]),
              !.running[t] = NoTurn]

\* interruptTurn: it does nothing without a connection or a known turn.
Interrupted(t) ==
    LET k == adapter.rpc
        v == adapter.active[t]
    IN IF Up(k) /\ v # NoTurn /\ server[k].running[t] = v
       THEN [server EXCEPT ![k] = EndsTurn(@, t)] ELSE server

-----------------------------------------------------------------------------
(* Execute                                                                 *)

At(c, at) == calls[c].at = at
Goes(c, at) == calls' = [calls EXCEPT ![c].at = at]

\* Execute returns: the slot and the entry of cancels are given up.
Returns(c, outcome, sv, ad) ==
    /\ calls' = [calls EXCEPT ![c].at = "over", ![c].outcome = outcome,
                              ![c].conn = Nobody, ![c].sent = Nobody,
                              ![c].done = FALSE]
    /\ adapter' = [ad EXCEPT !.slot = IF @ = c THEN Nobody ELSE @,
                             !.cancels[Thread(c)] = IF At(c, "open") THEN @ ELSE Nobody]
    /\ server' = sv

\* setStatus makes an entry in sessions; a cancelled call returns its context's error.
Fails(c, sv) ==
    Returns(c, IF calls[c].cancelled THEN "cancelled" ELSE "failed", sv,
            [adapter EXCEPT !.sessions = @ \cup {Thread(c)}])

Call(c, t, fresh) ==
    /\ At(c, "idle") /\ \A d \in 1..c - 1 : ~At(d, "idle")
    /\ t \in 1..c /\ (fresh => t = c)
    /\ calls' = [calls EXCEPT ![c].at = "open", ![c].thread = t, ![c].fresh = fresh]
    /\ UNCHANGED <<adapter, server, history>>

\* ensureAppServer: any connection will do, a closed one too.
NeedsServer(c) ==
    calls[c].at \in {"open", "turn", "reopen"} /\ adapter.rpc = Nobody

Free(k) == server[k] = NoServer /\ \A d \in Calls : k \notin {calls[d].conn, calls[d].sent}

Spawn(c) ==
    /\ NeedsServer(c) /\ adapter.starting = Nobody /\ ~calls[c].cancelled
    /\ \E k \in Conns :
          /\ Free(k) /\ \A j \in 1..k - 1 : ~Free(j)
          /\ server' = [server EXCEPT ![k].state = "up", ![k].owner = c]
          /\ adapter' = [adapter EXCEPT !.starting = k]
    /\ UNCHANGED <<calls, history>>

Starts(c) == adapter.starting # Nobody /\ server[adapter.starting].owner = c

Handshake(c) ==
    /\ Starts(c) /\ Up(adapter.starting)
    /\ adapter' = [adapter EXCEPT !.rpc = adapter.starting, !.starting = Nobody]
    /\ UNCHANGED <<server, calls, history>>

\* Faulty variant: the attempts to reconnect have no limit.
TriesForEver(c, sv, ad) ==
    /\ calls' = [calls EXCEPT ![c].at = "recover", ![c].attempt = @ + 1,
                              ![c].conn = Nobody, ![c].sent = Nobody]
    /\ adapter' = ad /\ server' = sv

\* Another attempt after a failed one, as long as there are any.
TriesAgain(c, sv, ad) ==
    IF calls[c].attempt + 1 < Attempts
    THEN /\ calls' = [calls EXCEPT ![c].at = "recover", ![c].attempt = @ + 1,
                                   ![c].conn = Nobody, ![c].sent = Nobody]
         /\ adapter' = ad /\ server' = sv
    ELSE Returns(c, "failed", sv, [ad EXCEPT !.sessions = @ \cup {Thread(c)}])

\* The child does not start, or does not shake hands.  A handshake that the end of
\* the connection cut short may count as a closed connection.
StartFails(c) ==
    LET k == adapter.starting
        ad == [adapter EXCEPT !.starting = Nobody]
        sv == IF k = Nobody THEN server ELSE [server EXCEPT ![k] = NoServer]
    IN /\ NeedsServer(c) /\ (k = Nobody \/ Starts(c))
       /\ \/ At(c, "open") /\ Returns(c, "failed", sv, ad)
          \/ /\ ~At(c, "open") /\ calls[c].cancelled
             /\ Returns(c, "cancelled", sv, [ad EXCEPT !.sessions = @ \cup {Thread(c)}])
          \/ /\ At(c, "turn") /\ ~calls[c].cancelled
             /\ Returns(c, "failed", sv, ad)
          \/ /\ At(c, "turn") /\ ~calls[c].cancelled /\ k # Nobody /\ ~Up(k)
             /\ Goes(c, "drop") /\ adapter' = ad /\ server' = sv
          \/ At(c, "reopen") /\ ~calls[c].cancelled /\ TriesAgain(c, sv, ad)
       /\ UNCHANGED history

\* CreateSession or ResumeSession.  A resumption that fails, on a closed
\* connection too, is skipped when the adapter has an entry for the thread.
Open(c) ==
    /\ At(c, "open") /\ adapter.rpc # Nobody
    /\ \/ /\ Up(adapter.rpc)
          /\ adapter' = [adapter EXCEPT !.sessions = @ \cup {Thread(c)},
                                        !.cancels[Thread(c)] = c]
       \/ /\ ~calls[c].fresh /\ Thread(c) \in adapter.sessions
          /\ adapter' = [adapter EXCEPT !.cancels[Thread(c)] = c]
    /\ Goes(c, "slot")
    /\ UNCHANGED <<server, history>>

OpenFails(c) ==
    /\ At(c, "open") /\ adapter.rpc # Nobody
    /\ calls[c].fresh \/ Thread(c) \notin adapter.sessions
    /\ Returns(c, "failed", server, adapter)
    /\ UNCHANGED history

TakeSlot(c) ==
    /\ At(c, "slot") /\ adapter.slot = Nobody
    /\ adapter' = [adapter EXCEPT !.slot = c]
    /\ Goes(c, "turn")
    /\ UNCHANGED <<server, history>>

LeaveSlot(c) ==
    /\ At(c, "slot") /\ calls[c].cancelled
    /\ Returns(c, "cancelled", server, adapter)
    /\ UNCHANGED history

-----------------------------------------------------------------------------
(* runTurnOnce                                                             *)

\* Its handlers go to the connection it captures, its request to the adapter's.
Capture(c) ==
    /\ At(c, "turn") /\ adapter.rpc # Nobody
    /\ calls' = [calls EXCEPT ![c].at = "start", ![c].conn = adapter.rpc,
                              ![c].done = FALSE]
    /\ adapter' = [adapter EXCEPT !.sessions = @ \cup {Thread(c)}]
    /\ server' = [server EXCEPT ![adapter.rpc].handler = c]
    /\ UNCHANGED history

\* The connection is closed: the handlers go, and the call is over if cancelled.
Lost(c, ad) ==
    IF calls[c].cancelled
    THEN Returns(c, "cancelled", Unhandled(server, c), [ad EXCEPT !.sessions = @ \cup {Thread(c)}])
    ELSE /\ calls' = [calls EXCEPT ![c].at = "drop", ![c].conn = Nobody, ![c].sent = Nobody,
                                   ![c].done = FALSE]
         /\ adapter' = ad /\ server' = Unhandled(server, c)

\* turn/start is written whether or not the call is cancelled.
Request(c) ==
    LET k == adapter.rpc
        t == Thread(c)
        ends == IF server[k].running[t] = NoTurn THEN server[k] ELSE EndsTurn(server[k], t)
    IN /\ At(c, "start") /\ Up(k)
       /\ server' = [server EXCEPT ![k] =
             [ends EXCEPT !.running[t] = Turn(c),
                          !.events = Append(@, [thread |-> t, kind |-> "started",
                                                turn |-> Turn(c)])]]
       /\ calls' = [calls EXCEPT ![c].at = "sent", ![c].sent = k]
       /\ history' = [history EXCEPT !.begun = @ \cup {c}]
       /\ UNCHANGED adapter

RequestFails(c) ==
    /\ At(c, "start")
    /\ IF adapter.rpc = Nobody \/ Up(adapter.rpc)
       THEN Fails(c, Unhandled(server, c)) ELSE Lost(c, adapter)
    /\ UNCHANGED history

Answer(c) ==
    /\ At(c, "sent")
    /\ adapter' = [adapter EXCEPT !.active[Thread(c)] = Turn(c)]
    /\ Goes(c, "wait")
    /\ UNCHANGED <<server, history>>

\* A call cancelled before the answer does not interrupt the turn it began.
AnswerFails(c) ==
    /\ At(c, "sent")
    /\ \/ calls[c].cancelled /\ Fails(c, Unhandled(server, c))
       \/ server[calls[c].sent].state = "closed" /\ Lost(c, adapter)
    /\ UNCHANGED history

Forgets(c) == [adapter EXCEPT !.active[Thread(c)] = NoTurn,
                              !.sessions = @ \cup {Thread(c)}]

\* Faulty variant: the select does not look at the connection.
AwaitsAnswer(c) ==
    /\ At(c, "wait")
    /\ \/ calls[c].cancelled /\ Fails(c, Unhandled(server, c))
       \/ calls[c].done /\ Returns(c, "completed", Unhandled(server, c), Forgets(c))
       \/ calls[c].done /\ Fails(c, Unhandled(server, c))
    /\ UNCHANGED history

\* The select of runTurnOnce: whatever is ready, in any order.  A turn ends well
\* or not.
AwaitEnds(c) ==
    /\ At(c, "wait")
    /\ \/ /\ calls[c].cancelled
          /\ Fails(c, Unhandled(Interrupted(Thread(c)), c))
       \/ server[calls[c].conn].state = "closed"
          /\ Lost(c, [adapter EXCEPT !.active[Thread(c)] = NoTurn])
       \/ calls[c].done /\ Returns(c, "completed", Unhandled(server, c), Forgets(c))
       \/ calls[c].done /\ Fails(c, Unhandled(server, c))
    /\ UNCHANGED history

-----------------------------------------------------------------------------
(* Reconnecting: the adapter's connection is cleared after the failed turn *)
(* and again before the restart, whoever may have started it in between.   *)

Drop(c) ==
    /\ At(c, "drop")
    /\ TriesAgain(c, ClearedServer, Cleared(FALSE))
    /\ UNCHANGED history

Recover(c) ==
    /\ At(c, "recover")
    /\ IF calls[c].cancelled
       THEN Returns(c, "cancelled", ClearedServer,
                    [Cleared(FALSE) EXCEPT !.sessions = {Thread(c)}])
       ELSE Goes(c, "reopen") /\ adapter' = Cleared(FALSE) /\ server' = ClearedServer
    /\ UNCHANGED history

\* The thread is resumed, and the turn begins again: with a prompt to continue,
\* ContinueLimit times, and with the caller's prompt after that.
Reopen(c) ==
    /\ At(c, "reopen") /\ adapter.rpc # Nobody
    /\ Up(adapter.rpc) \/ Thread(c) \in adapter.sessions
    /\ calls' = [calls EXCEPT ![c].at = "turn",
                              ![c].continues = IF @ < ContinueLimit THEN @ + 1 ELSE @]
    /\ adapter' = [adapter EXCEPT !.sessions = @ \cup {Thread(c)}]
    /\ UNCHANGED <<server, history>>

ReopenFails(c) ==
    /\ At(c, "reopen") /\ adapter.rpc # Nobody /\ Thread(c) \notin adapter.sessions
    /\ IF calls[c].cancelled
       THEN Fails(c, server) ELSE TriesAgain(c, server, adapter)
    /\ UNCHANGED history

-----------------------------------------------------------------------------
(* Cancel and StopAppServer                                                *)

Called == {c \in Calls : calls[c].at # "idle"}

Fault == /\ Called # {} /\ history.faults < MaxFaults[Cardinality(Called)]
         /\ history' = [history EXCEPT !.faults = @ + 1]

\* The TUI cancels the context first, and then calls the adapter's Cancel.
Cancel(c) ==
    /\ calls[c].at \notin {"idle", "over"} /\ calls[c].cancel = "none" /\ Fault
    /\ calls' = [calls EXCEPT ![c].cancelled = TRUE, ![c].cancel = "asked"]
    /\ UNCHANGED <<adapter, server>>

\* Cancel looks the call up by thread; the TUI may not know a new thread yet.
CancelArrives(c) ==
    LET d == adapter.cancels[Thread(c)]
    IN /\ calls[c].cancel = "asked"
       /\ \/ /\ calls' = [x \in Calls |->
                             [calls[x] EXCEPT !.cancel = IF x = c THEN "done" ELSE @,
                                              !.cancelled = @ \/ x = d]]
             /\ server' = Interrupted(Thread(c))
          \/ /\ calls[c].fresh
             /\ calls' = [calls EXCEPT ![c].cancel = "done"]
             /\ UNCHANGED server
       /\ UNCHANGED <<adapter, history>>

StopAppServer ==
    /\ adapter.rpc # Nobody /\ Fault
    /\ adapter' = Cleared(TRUE) /\ server' = ClearedServer
    /\ UNCHANGED calls

-----------------------------------------------------------------------------
(* The child, and the goroutines of a connection                           *)

\* The child dies with the context it was started under, or for its own reasons.
Dies(k) ==
    /\ Up(k)
    /\ \/ ContextDone(server[k].owner) /\ UNCHANGED history
       \/ Fault
    /\ server' = [server EXCEPT ![k].state = "dead", ![k].running = NoServer.running]
    /\ UNCHANGED <<adapter, calls>>

\* readLoop reads the end of the child's output.
StdioEnds(k) ==
    /\ server[k].state = "dead" /\ k # adapter.starting
    /\ server' = [server EXCEPT ![k] = Closed(@)]
    /\ UNCHANGED <<adapter, calls, history>>

TurnEnds(k) ==
    /\ Up(k)
    /\ \E t \in Threads :
          /\ server[k].running[t] # NoTurn
          /\ server' = [server EXCEPT ![k] = EndsTurn(@, t)]
          /\ history' = [history EXCEPT !.ended = @ \cup {server[k].running[t]}]
    /\ UNCHANGED <<adapter, calls>>

\* Faulty variant: handleNotification does not look at the thread.
DeliverAny(k) ==
    LET n == Head(server[k].events)
        c == server[k].handler
    IN /\ server[k].events # <<>>
       /\ server' = [server EXCEPT ![k].events = Tail(@)]
       /\ calls' = IF c = Nobody \/ n.kind = "started" THEN calls
                   ELSE [calls EXCEPT ![c].done = TRUE]
       /\ UNCHANGED <<adapter, history>>

\* notifyLoop and handleNotification: other threads' notifications are ignored,
\* and only the first end of a turn is kept.
Deliver(k) ==
    LET n == Head(server[k].events)
        c == server[k].handler
    IN /\ server[k].events # <<>>
       /\ server' = [server EXCEPT ![k].events = Tail(@)]
       /\ IF c = Nobody \/ n.thread # Thread(c)
          THEN UNCHANGED <<adapter, calls>>
          ELSE IF n.kind = "started"
          THEN /\ adapter' = [adapter EXCEPT !.active[n.thread] = n.turn]
               /\ UNCHANGED calls
          ELSE /\ calls' = [calls EXCEPT ![c].done = TRUE]
               /\ UNCHANGED adapter
       /\ UNCHANGED history

-----------------------------------------------------------------------------
Runs(c) ==
    \/ Spawn(c) \/ Handshake(c) \/ StartFails(c) \/ Open(c) \/ OpenFails(c)
    \/ TakeSlot(c) \/ LeaveSlot(c) \/ Capture(c) \/ Request(c) \/ RequestFails(c)
    \/ Answer(c) \/ AnswerFails(c) \/ AwaitEnds(c)
    \/ Drop(c) \/ Recover(c) \/ Reopen(c) \/ ReopenFails(c)

Server(k) == Dies(k) \/ StdioEnds(k) \/ TurnEnds(k) \/ Deliver(k)

Next ==
    \/ \E c \in Calls :
          \/ \E t \in Threads, fresh \in BOOLEAN : Call(c, t, fresh)
          \/ Runs(c) \/ Cancel(c) \/ CancelArrives(c)
    \/ StopAppServer
    \/ \E k \in Conns : Server(k)

Spec == Init /\ [][Next]_vars

\* Goroutines go on, the kernel reports the end of the child, a child whose
\* context is done dies, and a child that lives ends its turns.  Nobody need
\* call, cancel or reset.
FairSpec ==
    /\ Spec
    /\ \A c \in Calls : WF_vars(Runs(c)) /\ WF_vars(CancelArrives(c))
    /\ \A k \in Conns :
          /\ WF_vars(Dies(k) /\ ContextDone(server[k].owner))
          /\ WF_vars(StdioEnds(k)) /\ WF_vars(TurnEnds(k)) /\ WF_vars(Deliver(k))

-----------------------------------------------------------------------------
(* Properties                                                              *)

\* Every Execute returns, whenever the child dies, other calls come and go, or
\* somebody cancels or resets: no wait of runTurnOnce, for the slot or for the
\* start of the child is for something that will not come.
EveryExecuteEnds == \A c \in Calls : (~At(c, "idle")) ~> At(c, "over")

\* An Execute that completes saw the end of its own last turn, however late the
\* ends of other threads' turns are delivered.  On one thread this
\* needs that no call of it was cancelled: the late end of an interrupted turn
\* names the thread only, and ends the next Execute on it.
AnswersOwnTurn ==
    \A c \in Calls :
        /\ calls[c].outcome = "completed"
        /\ \A d \in Calls : Thread(d) = Thread(c) => ~calls[d].cancelled
        => Turn(c) \in history.ended

\* An agent is told that its turn was interrupted, and to continue, only when
\* its turn had begun (docs: "mid-turn `app-server` stdio drop").
ContinuesInterruptedTurns ==
    \A c \in Calls : calls[c].continues > 0 => c \in history.begun

=============================================================================
