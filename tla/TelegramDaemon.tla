---------------------------- MODULE TelegramDaemon ----------------------------
(***************************************************************************)
(* The Telegram daemon and the TUIs it serves (internal/telegram/daemon,   *)
(* internal/telegram/ipc, internal/tui/telegram.go): how TUIs find or start*)
(* a daemon, how a daemon comes and goes, and what becomes of each message *)
(* of the paired chat, through deaths of daemons and TUIs.                 *)
(*                                                                         *)
(* A daemon runs a main goroutine (it starts, waits for its context to end *)
(* and exits), a timer, a poll loop, and a handler per connection; each is *)
(* a group of actions that stop at every access to the database, the       *)
(* registry, a channel or the socket that another may follow.  A message is*)
(* its update id.  Telegram keeps updates until a request with a higher    *)
(* offset confirms them.  TUIs and messages are numbered as they come.  An *)
(* acknowledgement only turns a row from delivered to processed, which     *)
(* nothing reads: both are "delivered" here.                               *)
(***************************************************************************)
EXTENDS Naturals, Sequences, FiniteSets, Functions

CONSTANTS TuiCount,     \* TUIs that are ever started, all of one project
          DaemonCount,  \* daemon processes that exist at the same time
          Scenarios,    \* bounds: what the paired chat sends, how many TUIs start, and
                        \* how often a daemon is killed or told to end, or a TUI quits
          Cap           \* capacity of a client's outbound channel

Tuis == 1..TuiCount
Daemons == 1..DaemonCount
Addresses == 1..TuiCount    \* the base abbreviation, _2, ...
Nobody == 0

\* "text" is addressed to an instance, "plain" goes to the selected one;
\* "select" names a position of the list.
Input == [kind : {"text", "select", "cancel"}, to : Addresses]
            \cup [kind : {"plain"}, to : {Nobody}]

ASSUME CountAssumption == TuiCount \in Nat \ {0} /\ DaemonCount \in Nat \ {0}
ASSUME ScenariosAssumption ==
    \A s \in Scenarios : s.sends \in Seq(Input) /\ s.tuis \in 0..TuiCount /\ s.ends \in Nat
ASSUME CapAssumption == Cap \in Nat \ {0}

VARIABLES
    chat,       \* Telegram: what the paired chat sends, and what is confirmed
    disk,       \* the daemon's database
    socket,     \* the socket file, and the daemon that listens behind it
    daemons,    \* each daemon process
    tuis,       \* each TUI's client, and the daemon it is connected to
    history     \* what TUIs received, what was answered or lost, the ends left, and
                \* whether two daemons ever served at once

vars == <<chat, disk, socket, daemons, tuis, history>>

Updates == 1..Len(chat.sends)
NoFile == [exists |-> FALSE, by |-> Nobody]

Down ==
    [phase |-> "off", parent |-> Nobody, timer |-> "off",
     hand |-> [t \in Tuis |-> "none"], address |-> [t \in Tuis |-> Nobody],
     flush |-> [t \in Tuis |-> <<>>], outbound |-> [t \in Tuis |-> <<>>],
     next |-> 1, last |-> 0, poll |-> "check", to |-> Nobody, target |-> Nobody]

Queue == UNION {[1..n -> Updates] : n \in 0..Cap}

Daemon ==
    [phase : {"off", "starting", "probed", "cleared", "serving", "closing"},
     parent : Tuis \cup {Nobody},       \* the TUI waiting for it to listen
     timer : {"off", "armed", "fired"}, \* exitTimer
     hand : [Tuis -> {"none", "new", "registered", "flushing", "live"}],
     address : [Tuis -> Addresses \cup {Nobody}],   \* the registry
     flush : [Tuis -> Seq(Updates)],    \* rows read and not yet pushed
     outbound : [Tuis -> Queue],
     next : 1..(Len(chat.sends) + 1), last : 0..Len(chat.sends),
     poll : {"check", "mark", "route", "lookup", "push", "queue"},
     to : Addresses \cup {Nobody},
     target : Tuis \cup {Nobody}]       \* whose channel was looked up, if still read

Row == [status : {"none", "pending", "delivered", "cancelled"},
        to : Addresses \cup {Nobody}]

TypeOK ==
    /\ chat \in [sends : {s.sends : s \in Scenarios}, confirmed : 0..Len(chat.sends)]
    /\ disk \in [seen : SUBSET Updates, rows : [Updates -> Row], known : SUBSET Addresses,
                 selected : Addresses \cup {Nobody}]
    /\ socket \in [exists : BOOLEAN, by : Daemons \cup {Nobody}]
    /\ daemons \in [Daemons -> Daemon]
    /\ tuis \in [Tuis -> [state : {"new", "searching", "waiting", "connected", "gone"},
                          at : Daemons \cup {Nobody}]]
    /\ history \in [got : [Updates -> 0..2], settled : SUBSET Updates,
                    ends : Nat, twins : BOOLEAN]

Init ==
    /\ \E scenario \in Scenarios :
          /\ chat = [sends |-> scenario.sends, confirmed |-> 0]
          /\ tuis = [t \in Tuis |-> [state |-> IF t <= scenario.tuis THEN "new" ELSE "gone",
                                     at |-> Nobody]]
          /\ history = [got |-> [u \in Updates |-> 0], settled |-> {},
                        ends |-> scenario.ends, twins |-> FALSE]
    /\ disk = [seen |-> {}, rows |-> [u \in Updates |-> [status |-> "none", to |-> Nobody]],
               known |-> {}, selected |-> Nobody]
    /\ socket = NoFile
    /\ daemons = [d \in Daemons |-> Down]

-----------------------------------------------------------------------------
(* The TUIs' clients.                                                      *)

Listening == socket.by # Nobody

\* Registered clients of daemon d, and their number.
Clients(d) == {t \in Tuis : daemons[d].address[t] # Nobody}
Count(d) == Cardinality(Clients(d))

StartTui(t) ==
    /\ tuis[t].state = "new"
    /\ \A s \in 1..(t - 1) : tuis[s].state # "new"
    /\ tuis' = [tuis EXCEPT ![t].state = "searching"]
    /\ UNCHANGED <<chat, disk, socket, daemons, history>>

\* The TUI quits or dies: its connection is closed.
QuitTui(t) ==
    /\ tuis[t].state \in {"searching", "waiting", "connected"} /\ history.ends > 0
    /\ tuis' = [tuis EXCEPT ![t] = [state |-> "gone", at |-> Nobody]]
    /\ history' = [history EXCEPT !.ends = @ - 1]
    /\ UNCHANGED <<chat, disk, socket, daemons>>

\* connectOnce: the dial succeeds and the registration is sent.
Dial(t) ==
    /\ tuis[t].state = "searching" /\ Listening
    /\ tuis' = [tuis EXCEPT ![t] = [state |-> "waiting", at |-> socket.by]]
    /\ daemons' = [daemons EXCEPT ![socket.by].hand[t] = "new"]
    /\ UNCHANGED <<chat, disk, socket, history>>

\* The dial and then the probe of spawnDaemon fail, and a process is started.
\* A client starts the next one only 2 s later, when this one listens or ended.
Spawn(t) ==
    /\ tuis[t].state = "searching" /\ ~Listening
    /\ \A d \in Daemons : daemons[d].parent # t
    /\ \E d \in Daemons :
          /\ daemons[d].phase = "off"
          /\ \A e \in 1..(d - 1) : daemons[e].phase # "off"
          /\ daemons' = [daemons EXCEPT ![d].phase = "starting", ![d].parent = t]
    /\ UNCHANGED <<chat, disk, socket, tuis, history>>

\* The read of a frame fails: the daemon closed the connection or died.
Disconnected(t) ==
    /\ tuis[t].at # Nobody /\ daemons[tuis[t].at].hand[t] = "none"
    /\ tuis' = [tuis EXCEPT ![t] = [state |-> "searching", at |-> Nobody]]
    /\ UNCHANGED <<chat, disk, socket, daemons, history>>

-----------------------------------------------------------------------------
(* A daemon's main goroutine.                                              *)

\* Messages that only the memory of daemon d holds: the one its poll loop has
\* taken, and those in the channels.
Held(d) ==
    (IF daemons[d].poll \in {"route", "lookup", "push", "queue"} THEN {daemons[d].next} ELSE {})
        \cup UNION {Range(daemons[d].outbound[t]) : t \in Tuis}

\* ipc.Listen: a live listener is left alone; ...
Probe(d) ==
    /\ daemons[d].phase = "starting"
    /\ daemons' = [daemons EXCEPT ![d] = IF Listening THEN Down ELSE [@ EXCEPT !.phase = "probed"]]
    /\ UNCHANGED <<chat, disk, socket, tuis, history>>

\* Faulty variant: a file that is in the way is left there.
ClearNothing(d) ==
    /\ daemons[d].phase = "probed"
    /\ daemons' = [daemons EXCEPT ![d].phase = "cleared"]
    /\ UNCHANGED <<chat, disk, socket, tuis, history>>

\* ... else the file is removed, whoever made it since, ...
Clear(d) ==
    /\ daemons[d].phase = "probed"
    /\ socket' = NoFile
    /\ daemons' = [daemons EXCEPT ![d].phase = "cleared"]
    /\ UNCHANGED <<chat, disk, tuis, history>>

\* ... and bound again.
Bind(d) ==
    /\ daemons[d].phase = "cleared"
    /\ IF socket.exists
       THEN /\ daemons' = [daemons EXCEPT ![d] = Down]
            /\ UNCHANGED <<socket, history>>
       ELSE /\ daemons' = [daemons EXCEPT ![d].phase = "serving", ![d].parent = Nobody]
            /\ socket' = [exists |-> TRUE, by |-> d]
            /\ history' = [history EXCEPT !.twins =
                  @ \/ \E e \in Daemons \ {d} : daemons[e].phase \in {"serving", "closing"}]
    /\ UNCHANGED <<chat, disk, tuis>>

\* exitTimer, three seconds after the last client left: the function counts the
\* clients once more before it cancels the context (Shutdown).
TimerFires(d) ==
    /\ daemons[d].timer = "armed"
    /\ daemons' = [daemons EXCEPT ![d].timer = IF Count(d) > 0 THEN "off" ELSE "fired"]
    /\ UNCHANGED <<chat, disk, socket, tuis, history>>

\* The context is cancelled and the listener closed, which removes the file.
Closes(d) ==
    /\ daemons[d].phase = "serving"
    /\ daemons' = [daemons EXCEPT ![d].phase = "closing", ![d].timer = "off"]
    /\ socket' = NoFile
    /\ UNCHANGED <<chat, disk, tuis>>

Shutdown(d) == daemons[d].timer = "fired" /\ Closes(d) /\ UNCHANGED history

Terminate(d) ==
    /\ history.ends > 0
    /\ Closes(d)
    /\ history' = [history EXCEPT !.ends = @ - 1]

\* Once its handlers have returned, the daemon removes the file and ends.
Exit(d) ==
    /\ daemons[d].phase = "closing"
    /\ \A t \in Tuis : daemons[d].hand[t] = "none"
    /\ socket' = NoFile
    /\ history' = [history EXCEPT !.settled = @ \cup Held(d)]
    /\ daemons' = [daemons EXCEPT ![d] = Down]
    /\ UNCHANGED <<chat, disk, tuis>>

\* The process is killed and leaves the file behind.
Crash(d) ==
    /\ history.ends > 0 /\ daemons[d].phase # "off"
    /\ socket' = IF socket.by = d THEN [socket EXCEPT !.by = Nobody] ELSE socket
    /\ history' = [history EXCEPT !.settled = @ \cup Held(d), !.ends = @ - 1]
    /\ daemons' = [daemons EXCEPT ![d] = Down]
    /\ UNCHANGED <<chat, disk, tuis>>

-----------------------------------------------------------------------------
(* A daemon's handler of the connection of TUI t.                          *)

Runs(d) == daemons[d].phase \in {"serving", "closing"}

FreeAddress(d) ==
    CHOOSE a \in Addresses : /\ \A t \in Tuis : daemons[d].address[t] # a
                             /\ \A b \in 1..(a - 1) : \E t \in Tuis : daemons[d].address[t] = b

\* The client is registered, an exit that is due called off (a timer that fired
\* is not), the address made known and the answer sent; nothing that runs
\* between these steps reads what the later ones write.
Register(d, t) ==
    LET a == FreeAddress(d)
    IN /\ daemons[d].phase = "serving" /\ daemons[d].hand[t] = "new"
       /\ daemons' = [daemons EXCEPT ![d].hand[t] = "registered", ![d].address[t] = a,
                                     ![d].timer = IF @ = "armed" THEN "off" ELSE @]
       /\ disk' = [disk EXCEPT !.known = @ \cup {a}]
       /\ tuis' = IF tuis[t].at = d THEN [tuis EXCEPT ![t].state = "connected"] ELSE tuis
       /\ UNCHANGED <<chat, socket, history>>

PendingForAddress(a) == {u \in Updates : disk.rows[u] = [status |-> "pending", to |-> a]}

\* Messages in the order of their rows.
InOrder(us) ==
    [i \in 1..Cardinality(us) |->
        CHOOSE u \in us : Cardinality({v \in us : v < u}) = i - 1]

\* flushPending reads the rows, ...
ReadPending(d, t) ==
    LET us == PendingForAddress(daemons[d].address[t])
    IN /\ daemons[d].hand[t] = "registered"
       /\ daemons' = [daemons EXCEPT ![d].hand[t] = IF us = {} THEN "live" ELSE "flushing",
                                     ![d].flush[t] = InOrder(us)]
       /\ UNCHANGED <<chat, disk, socket, tuis, history>>

Full(d, t) == Len(daemons[d].outbound[t]) = Cap

\* ... and marks and pushes one after the other; the handler reads nothing from
\* the channel meanwhile, and what does not fit is dropped.
FlushOne(d, t) ==
    LET u == Head(daemons[d].flush[t])
    IN /\ daemons[d].hand[t] = "flushing"
       /\ disk' = [disk EXCEPT !.rows[u].status = "delivered"]
       /\ daemons' = [daemons EXCEPT
             ![d].flush[t] = Tail(@),
             ![d].hand[t] = IF Len(daemons[d].flush[t]) = 1 THEN "live" ELSE @,
             ![d].outbound[t] = IF Full(d, t) THEN @ ELSE Append(@, u)]
       /\ history' = IF Full(d, t) THEN [history EXCEPT !.settled = @ \cup {u}] ELSE history
       /\ UNCHANGED <<chat, socket, tuis>>

\* A frame is written and read by the TUI.
Deliver(d, t) ==
    LET u == Head(daemons[d].outbound[t])
    IN /\ daemons[d].hand[t] = "live" /\ daemons[d].outbound[t] # <<>>
       /\ tuis[t].at = d
       /\ daemons' = [daemons EXCEPT ![d].outbound[t] = Tail(@)]
       /\ history' = [history EXCEPT !.got[u] = IF @ = 2 THEN 2 ELSE @ + 1]
       /\ UNCHANGED <<chat, disk, socket, tuis>>

\* The connection or the context ended: the client is unregistered, and the
\* last one schedules the exit.
EndHandler(d, t) ==
    /\ daemons[d].hand[t] \in {"new", "registered", "live"}
    /\ tuis[t].at # d \/ daemons[d].phase = "closing"
    /\ daemons' = [daemons EXCEPT
          ![d].hand[t] = "none",
          ![d].address[t] = Nobody,
          ![d].outbound[t] = <<>>,
          ![d].target = IF @ = t THEN Nobody ELSE @,
          ![d].timer = IF @ = "off" /\ daemons[d].phase = "serving" /\ Clients(d) = {t}
                       THEN "armed" ELSE @]
    /\ history' = [history EXCEPT !.settled = @ \cup Range(daemons[d].outbound[t])]
    /\ UNCHANGED <<chat, disk, socket, tuis>>

-----------------------------------------------------------------------------
(* The chat, and a daemon's poll loop.                                     *)

Larger(a, b) == IF a > b THEN a ELSE b

Polling(d) == daemons[d].next > daemons[d].last

\* Faulty variant: the offset is that of the last update, not of the next.
FetchFromLast(d) ==
    LET confirmed == Larger(chat.confirmed, daemons[d].next - 1)
    IN /\ daemons[d].phase = "serving" /\ Polling(d) /\ Count(d) > 0 /\ ~history.twins
       /\ chat' = [chat EXCEPT !.confirmed = confirmed]
       /\ \E last \in (confirmed + 1)..Len(chat.sends) :
             daemons' = [daemons EXCEPT ![d].next = confirmed, ![d].last = last]
       /\ UNCHANGED <<disk, socket, tuis, history>>

\* GetUpdates, for a daemon with a client: an offset confirms what is below it,
\* and the answer is what was sent by now.  A bound: no message is fetched once
\* two daemons have served at once, since both would then take it.
Fetch(d) ==
    LET confirmed == Larger(chat.confirmed, daemons[d].next - 1)
    IN /\ daemons[d].phase = "serving" /\ Polling(d) /\ Count(d) > 0 /\ ~history.twins
       /\ chat' = [chat EXCEPT !.confirmed = confirmed]
       /\ \E last \in (confirmed + 1)..Len(chat.sends) :
             daemons' = [daemons EXCEPT ![d].next = confirmed + 1, ![d].last = last]
       /\ UNCHANGED <<disk, socket, tuis, history>>

\* The poll loop of d is about to take step s of processUpdate with the next message.
At(d, s) == Runs(d) /\ ~Polling(d) /\ daemons[d].poll = s

Message(d) == daemons[d].next
Sent(d) == chat.sends[Message(d)]

GoesTo(d, s) == [daemons EXCEPT ![d].poll = s]
GoesOn(d) == [daemons EXCEPT ![d].next = @ + 1, ![d].poll = "check",
                             ![d].to = Nobody, ![d].target = Nobody]

CheckUpdate(d) ==
    /\ At(d, "check")
    /\ daemons' = IF Message(d) \in disk.seen THEN GoesOn(d) ELSE GoesTo(d, "mark")
    /\ UNCHANGED <<chat, disk, socket, tuis, history>>

\* Faulty variant: the update is marked when the next one is.
MarkLater(d) ==
    /\ At(d, "mark")
    /\ daemons' = GoesTo(d, "route")
    /\ disk' = [disk EXCEPT !.seen = @ \cup 1..(Message(d) - 1)]
    /\ UNCHANGED <<chat, socket, tuis, history>>

MarkUpdate(d) ==
    /\ At(d, "mark")
    /\ disk' = [disk EXCEPT !.seen = @ \cup {Message(d)}]
    /\ daemons' = GoesTo(d, "route")
    /\ UNCHANGED <<chat, socket, tuis, history>>

Answers(d) ==
    /\ history' = [history EXCEPT !.settled = @ \cup {Message(d)}]
    /\ daemons' = GoesOn(d)

\* The position names a client in the list of now.
SelectInstance(d) ==
    LET live == {daemons[d].address[t] : t \in Clients(d)}
    IN /\ At(d, "route") /\ Sent(d).kind = "select"
       /\ disk' = IF Sent(d).to > Cardinality(live) THEN disk
                  ELSE [disk EXCEPT !.selected = InOrder(live)[Sent(d).to]]
       /\ Answers(d)
       /\ UNCHANGED <<chat, socket, tuis>>

CancelPending(d) ==
    /\ At(d, "route") /\ Sent(d).kind = "cancel"
    /\ disk' = [disk EXCEPT !.rows = [u \in Updates |->
          IF u \in PendingForAddress(Sent(d).to) THEN [@[u] EXCEPT !.status = "cancelled"]
          ELSE @[u]]]
    /\ Answers(d)
    /\ UNCHANGED <<chat, socket, tuis>>

\* The clients that d would push a message for address a to: one at most.
LookUp(d, a) == {t \in Tuis : daemons[d].address[t] = a}

\* A plain message goes to the selected instance if that is connected; it is
\* looked up again to be routed.
RoutePlain(d) ==
    /\ At(d, "route") /\ Sent(d).kind = "plain"
    /\ IF disk.selected = Nobody \/ LookUp(d, disk.selected) = {}
       THEN Answers(d)
       ELSE /\ daemons' = [daemons EXCEPT ![d].poll = "lookup", ![d].to = disk.selected]
            /\ UNCHANGED history
    /\ UNCHANGED <<chat, disk, socket, tuis>>

\* routeAddressed: to the client, to the queue of a known address, or refused.
RouteAddressed(d) ==
    LET a == IF daemons[d].poll = "lookup" THEN daemons[d].to ELSE Sent(d).to
    IN /\ At(d, "lookup") \/ (At(d, "route") /\ Sent(d).kind = "text")
       /\ \/ \E t \in LookUp(d, a) :
                /\ daemons' = [daemons EXCEPT ![d].poll = "push", ![d].to = a, ![d].target = t]
                /\ UNCHANGED history
          \/ /\ LookUp(d, a) = {} /\ a \in disk.known
             /\ daemons' = [daemons EXCEPT ![d].poll = "queue", ![d].to = a]
             /\ UNCHANGED history
          \/ /\ LookUp(d, a) = {} /\ a \notin disk.known
             /\ Answers(d)
       /\ UNCHANGED <<chat, disk, socket, tuis>>

\* Faulty variant: a message that does not fit is dropped, as flushPending does.
PushOrDrop(d) ==
    LET t == daemons[d].target
    IN /\ At(d, "push")
       /\ IF t = Nobody
          THEN /\ history' = [history EXCEPT !.settled = @ \cup {Message(d)}]
               /\ daemons' = GoesOn(d)
          ELSE /\ daemons' = IF Full(d, t) THEN GoesOn(d)
                             ELSE [GoesOn(d) EXCEPT ![d].outbound[t] = Append(@, Message(d))]
               /\ UNCHANGED history
       /\ UNCHANGED <<chat, disk, socket, tuis>>

\* "OK, Received.": the channel took it, even one that nobody reads any more.
\* How full the channel of a client that left had been is not kept.
Push(d) ==
    LET t == daemons[d].target
        queues == daemons' = GoesTo(d, "queue") /\ UNCHANGED history
    IN /\ At(d, "push")
       /\ \/ t = Nobody /\ (queues \/ Answers(d))
          \/ t # Nobody /\ Full(d, t) /\ queues
          \/ /\ t # Nobody /\ ~Full(d, t)
             /\ daemons' = [GoesOn(d) EXCEPT ![d].outbound[t] = Append(@, Message(d))]
             /\ UNCHANGED history
       /\ UNCHANGED <<chat, disk, socket, tuis>>

Enqueue(d) ==
    /\ At(d, "queue")
    /\ disk' = [disk EXCEPT !.rows[Message(d)] = [status |-> "pending", to |-> daemons[d].to]]
    /\ daemons' = GoesOn(d)
    /\ UNCHANGED <<chat, socket, tuis, history>>

-----------------------------------------------------------------------------
Client(t) == Dial(t) \/ Spawn(t) \/ Disconnected(t)
Main(d) == Probe(d) \/ Clear(d) \/ Bind(d) \/ Shutdown(d) \/ Exit(d)
Handler(d, t) ==
    Register(d, t) \/ ReadPending(d, t) \/ FlushOne(d, t) \/ Deliver(d, t) \/ EndHandler(d, t)
PollLoop(d) ==
    \/ Fetch(d) \/ CheckUpdate(d) \/ MarkUpdate(d)
    \/ SelectInstance(d) \/ CancelPending(d) \/ RoutePlain(d)
    \/ RouteAddressed(d) \/ Push(d) \/ Enqueue(d)

Next ==
    \/ \E t \in Tuis : StartTui(t) \/ QuitTui(t) \/ Client(t)
    \/ \E d \in Daemons :
          \/ Main(d) \/ TimerFires(d) \/ PollLoop(d) \/ Terminate(d) \/ Crash(d)
          \/ \E t \in Tuis : Handler(d, t)

\* Goroutines of clients and daemons are scheduled; users and signals promise
\* nothing.
Fairness ==
    /\ \A t \in Tuis : WF_vars(Client(t))
    /\ \A d \in Daemons : WF_vars(Main(d)) /\ \A t \in Tuis : WF_vars(Handler(d, t))

Spec == Init /\ [][Next]_vars /\ Fairness

-----------------------------------------------------------------------------
(* Properties.                                                             *)

\* No message reaches TUIs twice, through repeated polls, deaths between any
\* two steps, restarts and reconnections: marks and queue rows are written
\* before what they stand for (processUpdate, flushPending).  Two daemons that
\* serve at once may both flush a row of an address they both gave; the
\* property leaves them out.
NeverTwice == ~history.twins => \A u \in Updates : history.got[u] < 2

\* A message that was marked as processed is somewhere: it was delivered,
\* answered or cancelled, waits in the queue or in the memory of a daemon, or
\* it went down with a daemon, with the connection that should have carried it,
\* or in flushPending because the channel was full.
NothingVanishes ==
    \A u \in disk.seen :
        \/ history.got[u] > 0 \/ u \in history.settled
        \/ disk.rows[u].status \in {"pending", "cancelled"}
        \/ \E d \in Daemons : u \in Held(d)

\* Whatever daemons and other TUIs do, a TUI that runs is connected to a daemon
\* again and again, or quits: dead files are cleared, and daemons that leave
\* are replaced (telegramClient.run).
Reconnects ==
    \A t \in Tuis : tuis[t].state = "searching" ~> tuis[t].state \in {"connected", "gone"}

=============================================================================
