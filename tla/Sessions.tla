------------------------------- MODULE Sessions -------------------------------
(***************************************************************************)
(* Saved conversations, and the leases by which one TUI at a time continues*)
(* one (internal/tui: conversation.go, chat_session.go,                    *)
(* chat_session_history.go, history_screen.go, app.go; internal/store:     *)
(* session_leases.go, session_assets.go; internal/conversation:            *)
(* session_service.go).                                                    *)
(*                                                                         *)
(* A TUI handles one key or message at a time.  What touches the database  *)
(* runs beside it as a command, one item of work[p] that goes from one     *)
(* database call to the next and ends as the message it sends back; between*)
(* any two of these steps the user, the other commands and the other TUIs  *)
(* go on.                                                                  *)
(*                                                                         *)
(* A lease is its owner and the ticks until it expires.  A tick passes at  *)
(* any time, so a TUI may be late with its heartbeat.  The generation      *)
(* numbers of leaseReleaseEpoch are only compared for equality: a bump     *)
(* marks the releases that began before it.  Equal commands of one TUI in  *)
(* flight at the same step are one.                                        *)
(***************************************************************************)
EXTENDS Naturals, FiniteSets, TLC

CONSTANTS Tuis,         \* TUIs of the project, each its own lease owner
          Sessions,     \* sessions there can be
          Stored,       \* sessions of earlier runs
          None,         \* no session, no owner
          TTL,          \* ticks from a heartbeat to the expiry of the lease
          Hasty,        \* TUIs whose user goes on while History still opens a session
          Budgets       \* bounds: commands each user gives, failures of the store

ASSUME NoneAssumption == None \notin Sessions \cup Tuis
ASSUME StoredAssumption == Stored \subseteq Sessions
ASSUME TTLAssumption == TTL \in Nat \ {0}
ASSUME HastyAssumption == Hasty \subseteq Tuis
ASSUME BudgetsAssumption == Budgets \subseteq [commands : [Tuis -> Nat], failures : Nat]

VARIABLES
    rows,       \* sessions table: an id is new, kept or deleted
    owner,      \* owner_id of each row of session_leases
    left,       \* ticks until its expires_at
    tui,        \* fields of each TUI's model
    work,       \* commands and messages of each TUI in flight
    history     \* what is left of the budget, and the slips of each TUI

vars == <<rows, owner, left, tui, work, history>>

MaybeSession == Sessions \cup {None}

Tui == [chat : MaybeSession,         \* heroChatSessionID
        leased : MaybeSession,       \* heroLeasedSessionID
        lost : BOOLEAN,              \* sessionLeaseLost
        blocked : BOOLEAN,           \* sessionPersistBlocked
        retry : MaybeSession,        \* sessionLeaseRetryID
        pending : SUBSET Sessions,   \* pendingLeaseReleaseIDs
        unsaved : SUBSET Sessions,   \* sessions of the events in the persist queues
        busy : BOOLEAN,              \* history.mutating
        dialogBusy : BOOLEAN,        \* history.dialogBusy
        asks : {"nothing", "import", "fork"},
        subject : MaybeSession,      \* importSessionID, forkSourceID
        streaming : BOOLEAN,
        live : BOOLEAN,              \* the turn is in executes
        hero : MaybeSession]         \* HeroSessionID of the turn

Started == [chat |-> None, leased |-> None, lost |-> FALSE, blocked |-> FALSE,
            retry |-> None, pending |-> {}, unsaved |-> {}, busy |-> FALSE,
            dialogBusy |-> FALSE, asks |-> "nothing", subject |-> None, streaming |-> FALSE,
            live |-> FALSE, hero |-> None]

\* Commands by the database call they are about to make.
LeaseCalls == {"beat", "release", "compare", "reacquire", "restore"}
HistoryCalls == {"open", "bump", "validate", "leave", "undo", "fork", "forkLease",
                 "archive", "delete", "import", "load"}
TurnCalls == {"create", "lease", "append", "run"}
PersistCalls == {"drain", "attach"}
\* Messages, by what they report.
Messages == {"lost", "released", "releaseFailed", "retry", "opened", "openFailed",
             "needFork", "imported", "importFailed", "removed", "removeFailed",
             "restored", "notRestored", "bound", "refused", "persistFailed", "persisted",
             "attached", "done", "failed", "cancelled"}

Item == [kind : LeaseCalls \cup HistoryCalls \cup TurnCalls \cup PersistCalls \cup Messages,
         s : MaybeSession,
         others : SUBSET Sessions,  \* lease to leave, leases to clean up, events to save
         flag : BOOLEAN]            \* release: a bump came after it; of a fork; of a deletion

\* A lease of the TUI expired; one that its chat counts on was released, or its
\* loss forgotten; one that it no longer counts on stayed, or was taken again.
Slips == Tuis \X {"late", "gone", "left"}

TypeOK ==
    /\ rows \in [Sessions -> {"new", "kept", "deleted"}]
    /\ owner \in [Sessions -> Tuis \cup {None}]
    /\ left \in [Sessions -> 0..TTL]
    /\ tui \in [Tuis -> Tui]
    /\ work \in [Tuis -> SUBSET Item]
    /\ history \in [commands : [Tuis -> Nat], failures : Nat,
                    slips : SUBSET Slips]

Init ==
    /\ rows = [s \in Sessions |-> IF s \in Stored THEN "kept" ELSE "new"]
    /\ owner = [s \in Sessions |-> None]
    /\ left = [s \in Sessions |-> 0]
    /\ tui = [p \in Tuis |-> Started]
    /\ work = [p \in Tuis |-> {}]
    /\ \E budget \in Budgets :
          history = [commands |-> budget.commands, failures |-> budget.failures, slips |-> {}]

-----------------------------------------------------------------------------
(* Leases in the database.                                                 *)

Exist == {s \in Sessions : rows[s] = "kept"}
New == {s \in Sessions : rows[s] = "new"}

\* Faulty variant: an empty session id is not left out.
KnownAndEmpty(ids) == ids

Known(ids) == ids \ {None}
Of(k, s, others) == [kind |-> k, s |-> s, others |-> others, flag |-> FALSE]
To(k, s) == Of(k, s, {})
Becomes(w, k) == [w EXCEPT !.kind = k]

\* Item w of p is over, and the items of new begin.
Continue(p, w, new) == work' = [work EXCEPT ![p] = (@ \ {w}) \cup new]

Slip(p, slip) == history' = [history EXCEPT !.slips = @ \cup {<<p, slip>>}]

Fails == /\ history.failures > 0
         /\ history' = [history EXCEPT !.failures = @ - 1]

FailsUnless(ok) == (~ok => Fails) /\ (ok => UNCHANGED history)

\* Faulty variant: a lease that has not expired is taken over.
TakesOver(p, s) == s \in Exist

\* AcquireSessionLease succeeds for its own lease, none, and an expired one.
MayAcquire(p, s) == s \in Exist /\ (owner[s] \in {None, p} \/ left[s] = 0)

Acquire(p, s) == /\ MayAcquire(p, s)
                 /\ owner' = [owner EXCEPT ![s] = p]
                 /\ left' = [left EXCEPT ![s] = TTL]
                 /\ UNCHANGED rows

CannotAcquire(p, s) == /\ FailsUnless(~MayAcquire(p, s))
                       /\ UNCHANGED <<rows, owner, left>>

\* ReleaseSessionLease deletes the row only if it is p's.
Release(p, s) ==
    /\ owner' = [owner EXCEPT ![s] = IF @ = p THEN None ELSE @]
    /\ left' = [left EXCEPT ![s] = IF owner[s] = p THEN 0 ELSE @]
    /\ UNCHANGED rows

CannotRelease == Fails /\ UNCHANGED <<rows, owner, left>>

database == <<rows, owner, left, history>>

\* Time passes for every lease.
Tick ==
    /\ \E s \in Sessions : left[s] > 0
    /\ left' = [s \in Sessions |-> IF left[s] > 0 THEN left[s] - 1 ELSE 0]
    /\ history' = [history EXCEPT !.slips =
                     @ \cup {<<owner[s], "late">> : s \in {r \in Sessions : left[r] = 1}}]
    /\ UNCHANGED <<rows, owner, tui, work>>

-----------------------------------------------------------------------------
(* Heartbeats.                                                             *)

\* The timer loop beats for the leased session (timers.go), once an interval.
Heartbeat(p) ==
    /\ tui[p].leased # None
    /\ owner[tui[p].leased] = p => left[tui[p].leased] < TTL
    /\ To("beat", tui[p].leased) \notin work[p]
    /\ work' = [work EXCEPT ![p] = @ \cup {To("beat", tui[p].leased)}]
    /\ UNCHANGED <<database, tui>>

\* HeartbeatSessionLease: no row of its own, or a failure, is a lost lease.
Beat(p, w) ==
    /\ w.kind = "beat"
    /\ \/ /\ owner[w.s] = p
          /\ left' = [left EXCEPT ![w.s] = TTL]
          /\ Continue(p, w, {})
          /\ UNCHANGED <<rows, owner, history>>
       \/ /\ FailsUnless(owner[w.s] # p)
          /\ Continue(p, w, {To("lost", w.s)})
          /\ UNCHANGED <<rows, owner, left>>
    /\ UNCHANGED tui

LeaseLost(p, w) ==
    /\ w.kind = "lost"
    /\ Continue(p, w, {})
    /\ tui' = [tui EXCEPT ![p] =
                 IF w.s \in {@.leased, @.chat}
                 THEN [@ EXCEPT !.lost = TRUE, !.blocked = TRUE, !.leased = None]
                 ELSE @]
    /\ IF /\ w.s \in {tui[p].leased, tui[p].chat}
          /\ tui[p].leased # None /\ owner[tui[p].leased] = p
       THEN Slip(p, "left") ELSE UNCHANGED history
    /\ UNCHANGED <<rows, owner, left>>

-----------------------------------------------------------------------------
(* Releases of leases, their retries and their undoing.                    *)

OwnedByChat(p, s) == s \in {tui[p].leased, tui[p].chat}

\* releaseHeroChatLeaseCmd: delete the row, then compare the epochs.
ReleaseLease(p, w) ==
    /\ w.kind = "release"
    /\ \/ /\ Release(p, w.s)
          /\ Continue(p, w, {Becomes(w, "compare")})
          /\ IF \E v \in work[p] : v.kind = "bump" /\ v.s = w.s
             THEN Slip(p, "gone") ELSE UNCHANGED history
       \/ CannotRelease /\ Continue(p, w, {To("releaseFailed", w.s)})
    /\ UNCHANGED tui

CompareEpochs(p, w) ==
    /\ w.kind = "compare"
    /\ Continue(p, w, {To(IF w.flag THEN "reacquire" ELSE "released", w.s)})
    /\ UNCHANGED <<database, tui>>

\* A released lease is taken again, whatever its chat has become meanwhile.
TakesBack(p, s) == IF owner[s] = p THEN UNCHANGED history ELSE Slip(p, "left")

Reacquire(p, w) ==
    /\ w.kind = "reacquire"
    /\ \/ Acquire(p, w.s) /\ Continue(p, w, {To("released", w.s)}) /\ TakesBack(p, w.s)
       \/ CannotAcquire(p, w.s) /\ Continue(p, w, {To("releaseFailed", w.s)})
    /\ UNCHANGED tui

\* restoreHeroLeaseAfterStaleCleanup reports a failure as a failed release.
RestoreLease(p, w) ==
    /\ w.kind = "restore"
    /\ \/ Acquire(p, w.s) /\ Continue(p, w, {}) /\ TakesBack(p, w.s)
       \/ CannotAcquire(p, w.s) /\ Continue(p, w, {To("releaseFailed", w.s)})
    /\ UNCHANGED tui

\* sessionLeaseReleaseResultMsg without an error.
Released(p, w) ==
    /\ w.kind = "released"
    /\ tui' = [tui EXCEPT ![p].pending = @ \ {w.s}]
    /\ IF OwnedByChat(p, w.s)
       THEN Continue(p, w, {To("restore", w.s)})
       ELSE \/ /\ tui[p].pending \subseteq {w.s}
               /\ Continue(p, w, {})
            \/ \E next \in tui[p].pending \ {w.s} :
                  Continue(p, w, {To("release", next)})
    /\ IF owner[w.s] = p /\ ~OwnedByChat(p, w.s)
       THEN Slip(p, "left") ELSE UNCHANGED history
    /\ UNCHANGED <<rows, owner, left>>

\* Faulty variant: a failed release is not tried again.
ReleaseFailedOnce(p, w) ==
    /\ w.kind = "releaseFailed"
    /\ tui' = [tui EXCEPT ![p].pending = IF OwnedByChat(p, w.s) THEN @ \ {w.s} ELSE @ \cup {w.s}]
    /\ Continue(p, w, {To("restore", s) : s \in {w.s} \cap {tui[p].leased, tui[p].chat}})
    /\ UNCHANGED database

\* The same message with one.
ReleaseFailed(p, w) ==
    /\ w.kind = "releaseFailed"
    /\ IF OwnedByChat(p, w.s)
       THEN /\ tui' = [tui EXCEPT ![p].pending = @ \ {w.s}]
            /\ Continue(p, w, {To("restore", w.s)})
       ELSE /\ tui' = [tui EXCEPT ![p].pending = @ \cup {w.s}]
            /\ Continue(p, w, {To("retry", w.s)})
    /\ UNCHANGED database

\* sessionLeaseReleaseRetryMsg, half a second later.
RetryRelease(p, w) ==
    /\ w.kind = "retry"
    /\ IF OwnedByChat(p, w.s)
       THEN /\ tui' = [tui EXCEPT ![p].pending = @ \ {w.s}]
            /\ Continue(p, w, {})
       ELSE /\ Continue(p, w, {To("release", s) : s \in tui[p].pending \cap {w.s}})
            /\ UNCHANGED tui
    /\ UNCHANGED database

-----------------------------------------------------------------------------
(* Resets of the chat, and its queues.                                     *)

\* drainSessionPersistCmd: the queues of t, with the lease to take again.
Drains(t) == IF t.unsaved = {} THEN {} ELSE {Of("drain", t.retry, t.unsaved)}
Drained(t) == [t EXCEPT !.unsaved = {}]

\* resetChatSessionMemory: what stays is the lost lease, the releases, the
\* state of History, and that a turn streams.
Reset(t) == [t EXCEPT !.chat = None, !.leased = None, !.blocked = FALSE,
                      !.retry = None, !.unsaved = {}, !.live = FALSE, !.hero = None]

\* priorHeroLeaseSessionID
Prior(t) == IF t.leased # None THEN t.leased ELSE t.chat

\* bump(s): the releases of s that began before are stale.
Bumped(items, s) ==
    {IF w.kind \in {"release", "compare"} /\ w.s = s THEN [w EXCEPT !.flag = TRUE] ELSE w :
        w \in items}

\* scheduleLeaseReleaseCleanups
CleanUp(t, ids) == [t EXCEPT !.pending = @ \cup ids]
Cleanups(ids) == {To("release", s) : s \in ids}

\* openHeroSessionFromHistory, of the model t and after message w
OpensInChat(p, t, w, s) ==
    /\ tui' = [tui EXCEPT ![p] = [Reset(t) EXCEPT
                 !.leased = s, !.lost = FALSE,
                 !.asks = "nothing", !.subject = None]]
    /\ work' = [work EXCEPT ![p] =
                  Bumped(@ \ {w}, s) \cup {To("beat", s), To("load", s)}]

-----------------------------------------------------------------------------
(* History: opening, forking, importing and removing sessions.             *)

\* While a session is being opened, the user waits, unless hasty.
Opening(p) == tui[p].busy \/ tui[p].asks # "nothing" \/ \E w \in work[p] : w.kind \in {"load", "restored", "notRestored"}
Attends(p) == p \in Hasty \/ ~Opening(p)

Command(p) == /\ history.commands[p] > 0
              /\ history' = [history EXCEPT !.commands[p] = @ - 1]
              /\ UNCHANGED <<rows, owner, left>>

\* History lets no action start while a turn streams or another is under way.
CanMutate(p) == /\ Attends(p)
                /\ ~tui[p].streaming /\ ~tui[p].busy /\ tui[p].asks = "nothing"

HistoryCommand(p, w) ==
    /\ Command(p) /\ CanMutate(p)
    /\ tui' = [tui EXCEPT ![p].busy = TRUE]
    /\ work' = [work EXCEPT ![p] = @ \cup {w}]

BeginOpen(p) == \E s \in Exist : HistoryCommand(p, Of("open", s, Known({Prior(tui[p])})))
BeginArchive(p) == \E s \in Exist : HistoryCommand(p, To("archive", s))

\* While dialogBusy is set, confirming a deletion only closes the dialog.
BeginDelete(p) ==
    /\ ~tui[p].dialogBusy
    /\ Command(p) /\ CanMutate(p)
    /\ tui' = [tui EXCEPT ![p].busy = TRUE, ![p].dialogBusy = TRUE]
    /\ \E s \in Exist :
          work' = [work EXCEPT ![p] = @ \cup {[To("delete", s) EXCEPT !.flag = TRUE]}]

\* historyOpenCmd: take the target's lease, make releases of it stale, check
\* the session and its native counterpart, leave the prior session.
OpenTarget(p, w) ==
    /\ w.kind = "open"
    /\ \/ Acquire(p, w.s) /\ Continue(p, w, {Becomes(w, "bump")}) /\ UNCHANGED history
       \/ CannotAcquire(p, w.s) /\ Continue(p, w, {To("openFailed", w.s)})
    /\ UNCHANGED tui

BumpEpoch(p, w) ==
    /\ w.kind = "bump"
    /\ LET leaves == w.others \ {w.s} # {}
           next == IF ~w.flag THEN "validate" ELSE IF leaves THEN "leave" ELSE "opened"
       IN work' = [work EXCEPT ![p] =
                     Bumped(@ \ {w}, w.s) \cup {[w EXCEPT !.kind = next, !.others = @ \ {w.s}]}]
    /\ UNCHANGED <<database, tui>>

\* The binding, the native session or the row may be missing; the target is
\* released again, and it may be offered as the source of a fork.
Validate(p, w) ==
    /\ w.kind = "validate"
    /\ \/ Continue(p, w, {Becomes(w, IF w.others = {} THEN "opened" ELSE "leave")})
       \/ \E fork \in BOOLEAN : Continue(p, w, {[To("undo", w.s) EXCEPT !.flag = fork]})
    /\ UNCHANGED <<database, tui>>

Leave(p, w) ==
    /\ w.kind = "leave"
    /\ \E prior \in w.others :
          \/ /\ Release(p, prior)
             /\ Continue(p, w, {[Becomes(w, "opened") EXCEPT !.others = {}]})
             /\ UNCHANGED history
          \/ CannotRelease /\ Continue(p, w, {Of("undo", w.s, {prior})})
    /\ UNCHANGED tui

\* Faulty variant: the error of the release of the target is dropped.
UndoOnce(p, w) ==
    /\ w.kind = "undo"
    /\ LET msg == IF w.flag THEN "needFork" ELSE "openFailed"
       IN Continue(p, w, {Of(msg, w.s, w.others)})
    /\ \/ /\ Release(p, w.s)
          /\ IF OwnedByChat(p, w.s) THEN Slip(p, "gone") ELSE UNCHANGED history
       \/ CannotRelease
    /\ UNCHANGED tui

\* releaseLeaseCollect: a lease that could not be released is left over.
Undo(p, w) ==
    /\ w.kind = "undo"
    /\ LET msg == IF w.flag THEN "needFork" ELSE "openFailed"
       IN \/ /\ Release(p, w.s)
             /\ Continue(p, w, {Of(msg, w.s, w.others)})
             /\ IF OwnedByChat(p, w.s) THEN Slip(p, "gone") ELSE UNCHANGED history
          \/ CannotRelease /\ Continue(p, w, {Of(msg, w.s, w.others \cup {w.s})})
    /\ UNCHANGED tui

OpenFailed(p, w) ==
    /\ w.kind = "openFailed"
    /\ tui' = [tui EXCEPT ![p] = CleanUp([@ EXCEPT !.busy = FALSE, !.asks = "nothing",
                                                   !.subject = None], w.others)]
    /\ Continue(p, w, Cleanups(w.others))
    /\ UNCHANGED database

NeedFork(p, w) ==
    /\ w.kind = "needFork"
    /\ tui' = [tui EXCEPT ![p] = CleanUp([@ EXCEPT !.busy = FALSE, !.asks = "fork",
                                                   !.subject = w.s], w.others)]
    /\ Continue(p, w, Cleanups(w.others))
    /\ UNCHANGED database

\* historyOpenMsg and historyForkDoneMsg of a session that was opened; one
\* without local events may offer the import of its remote history.
Opened(p, w) ==
    /\ w.kind = "opened"
    /\ \/ OpensInChat(p, [tui[p] EXCEPT !.busy = FALSE], w, w.s)
       \/ /\ ~w.flag
          /\ tui' = [tui EXCEPT ![p].busy = FALSE, ![p].asks = "import", ![p].subject = w.s]
          /\ Continue(p, w, {})
    /\ UNCHANGED database

\* The dialogs: the import is skipped or confirmed, the fork declined or
\* confirmed.  Only a hasty user presses a key again while it runs.
Answers(p, dialog) == tui[p].asks = dialog /\ (p \in Hasty \/ ~tui[p].busy)

SkipImport(p) ==
    /\ Answers(p, "import")
    /\ OpensInChat(p, tui[p], To("opened", None), tui[p].subject)
    /\ UNCHANGED database

\* With dialogBusy set, confirming is skipping.
ConfirmImport(p) ==
    /\ Answers(p, "import") /\ ~tui[p].dialogBusy
    /\ tui' = [tui EXCEPT ![p].busy = TRUE, ![p].dialogBusy = TRUE]
    /\ work' = [work EXCEPT ![p] = @ \cup {To("import", tui[p].subject)}]
    /\ UNCHANGED database

Import(p, w) ==
    /\ w.kind = "import"
    /\ \E msg \in {"imported", "importFailed"} : Continue(p, w, {To(msg, w.s)})
    /\ UNCHANGED <<database, tui>>

\* historyImportMsg
NotBusy(t) == [t EXCEPT !.busy = FALSE, !.dialogBusy = FALSE]

Imported(p, w) ==
    /\ w.kind = "imported"
    /\ OpensInChat(p, NotBusy(tui[p]), w, w.s)
    /\ UNCHANGED database

ImportFailed(p, w) ==
    /\ w.kind = "importFailed"
    /\ tui' = [tui EXCEPT ![p] = CleanUp([NotBusy(@) EXCEPT !.asks = "nothing",
                                                           !.subject = None], {w.s})]
    /\ Continue(p, w, Cleanups({w.s}))
    /\ IF tui[p].leased \in {None, w.s} THEN UNCHANGED history ELSE Slip(p, "gone")
    /\ UNCHANGED <<rows, owner, left>>

DeclineFork(p) ==
    /\ Answers(p, "fork")
    /\ tui' = [tui EXCEPT ![p].asks = "nothing"]
    /\ UNCHANGED <<database, work>>

ConfirmFork(p) ==
    /\ Answers(p, "fork") /\ Command(p)
    /\ tui' = [tui EXCEPT ![p].busy = TRUE, ![p].dialogBusy = TRUE]
    /\ work' = [work EXCEPT ![p] = @ \cup {Of("fork", tui[p].subject, Known({Prior(tui[p])}))}]

\* historyForkCmd: a new session with the text of the source, then its lease.
Fork(p, w) ==
    /\ w.kind = "fork"
    /\ \/ \E n \in New :
            /\ w.s \in Exist
            /\ rows' = [rows EXCEPT ![n] = "kept"]
            /\ Continue(p, w, {Of("forkLease", n, w.others)})
            /\ UNCHANGED <<owner, left, history>>
       \/ /\ FailsUnless(w.s \notin Exist)
          /\ Continue(p, w, {To("openFailed", w.s)})
          /\ UNCHANGED <<rows, owner, left>>
    /\ UNCHANGED tui

ForkLease(p, w) ==
    /\ w.kind = "forkLease"
    /\ \/ Acquire(p, w.s) /\ Continue(p, w, {[Becomes(w, "bump") EXCEPT !.flag = TRUE]}) /\ UNCHANGED history
       \/ CannotAcquire(p, w.s) /\ Continue(p, w, {To("openFailed", w.s)})
    /\ UNCHANGED tui

\* loadChatTranscriptCmd fails if the session is gone.
Load(p, w) ==
    /\ w.kind = "load"
    /\ \/ w.s \in Exist /\ Continue(p, w, {To("restored", w.s)}) /\ UNCHANGED history
       \/ /\ FailsUnless(w.s \notin Exist)
          /\ Continue(p, w, {To("notRestored", w.s)})
    /\ UNCHANGED <<rows, owner, left, tui>>

\* chatTranscriptRestoreMsg: the chat is that of the session, whatever became
\* of its lease meanwhile.
Restored(p, w) ==
    /\ w.kind = "restored"
    /\ tui' = [tui EXCEPT ![p] = Drained([@ EXCEPT !.chat = w.s, !.leased = w.s, !.lost = FALSE])]
    /\ Continue(p, w, Drains(tui[p]))
    /\ IF tui[p].leased # w.s THEN Slip(p, "gone") ELSE UNCHANGED history
    /\ UNCHANGED <<rows, owner, left>>

NotRestored(p, w) ==
    /\ w.kind = "notRestored"
    /\ tui' = [tui EXCEPT ![p] = Drained(@)]
    /\ Continue(p, w, Drains(tui[p]))
    /\ UNCHANGED database

\* ArchiveSession keeps the row; DeleteLocalFirst takes the lease with it,
\* whoever has it, and then purges files.
Archive(p, w) ==
    /\ w.kind = "archive"
    /\ \/ w.s \in Exist /\ Continue(p, w, {To("removed", w.s)}) /\ UNCHANGED history
       \/ /\ FailsUnless(w.s \notin Exist)
          /\ Continue(p, w, {To("removeFailed", w.s)})
    /\ UNCHANGED <<rows, owner, left, tui>>

Delete(p, w) ==
    /\ w.kind = "delete"
    /\ \/ /\ w.s \in Exist
          /\ rows' = [rows EXCEPT ![w.s] = "deleted"]
          /\ owner' = [owner EXCEPT ![w.s] = None]
          /\ left' = [left EXCEPT ![w.s] = 0]
          /\ \/ Continue(p, w, {Becomes(w, "removed")}) /\ UNCHANGED history
             \/ Continue(p, w, {Becomes(w, "removeFailed")}) /\ Fails
       \/ /\ FailsUnless(w.s \notin Exist)
          /\ Continue(p, w, {Becomes(w, "removeFailed")})
          /\ UNCHANGED <<rows, owner, left>>
    /\ UNCHANGED tui

Answered(t, w) == [t EXCEPT !.busy = FALSE, !.asks = "nothing",
                            !.dialogBusy = IF w.flag THEN FALSE ELSE @]

\* historyArchiveMsg and historyDeleteMsg: the current chat becomes a new one.
Removed(p, w) ==
    /\ w.kind = "removed"
    /\ LET t == Answered(tui[p], w)
       IN IF w.s = t.chat /\ ~t.streaming
          THEN /\ tui' = [tui EXCEPT ![p] = CleanUp(Reset(t), {w.s})]
               /\ Continue(p, w, Cleanups({w.s}))
               /\ IF t.leased \in {None, w.s} THEN UNCHANGED history ELSE Slip(p, "left")
          ELSE /\ tui' = [tui EXCEPT ![p] = t]
               /\ Continue(p, w, {})
               /\ UNCHANGED history
    /\ UNCHANGED <<rows, owner, left>>

RemoveFailed(p, w) ==
    /\ w.kind = "removeFailed"
    /\ tui' = [tui EXCEPT ![p] = Answered(@, w)]
    /\ Continue(p, w, {})
    /\ UNCHANGED database

-----------------------------------------------------------------------------
(* Chat: a new one, turns, and the saving of what they say.                *)

\* beginNewChat
NewChat(p) ==
    /\ Command(p) /\ Attends(p)
    /\ ~tui[p].streaming
    /\ LET prior == Known({Prior(tui[p])})
       IN /\ tui' = [tui EXCEPT ![p] = CleanUp(Reset(@), prior)]
          /\ work' = [work EXCEPT ![p] = @ \cup Cleanups(prior)]

\* submitConversation: a lost lease or unsaved events block the composer.
Submit(p) ==
    /\ Command(p) /\ Attends(p)
    /\ ~tui[p].streaming /\ ~tui[p].lost /\ ~tui[p].blocked
    /\ tui' = [tui EXCEPT ![p].streaming = TRUE, ![p].live = TRUE, ![p].hero = tui[p].chat]
    /\ work' = [work EXCEPT ![p] = @ \cup
                  {To(IF tui[p].chat = None THEN "create" ELSE "append", tui[p].chat)}]

RetrySave(p) ==
    /\ Command(p) /\ Attends(p)
    /\ ~tui[p].lost /\ tui[p].blocked
    /\ tui' = [tui EXCEPT ![p] = IF @.unsaved = {} THEN [@ EXCEPT !.blocked = FALSE] ELSE Drained(@)]
    /\ work' = [work EXCEPT ![p] = @ \cup Drains(tui[p])]

\* persistUserTurnBeforeExecute: the first turn creates its session, then
\* takes its lease; a later one is appended whoever has the lease.
CreateSession(p, w) ==
    /\ w.kind = "create"
    /\ \/ \E n \in New :
            /\ rows' = [rows EXCEPT ![n] = "kept"]
            /\ Continue(p, w, {To("lease", n)})
            /\ UNCHANGED <<owner, left, history>>
       \/ Fails /\ Continue(p, w, {To("failed", None)}) /\ UNCHANGED <<rows, owner, left>>
    /\ UNCHANGED tui

FirstLease(p, w) ==
    /\ w.kind = "lease"
    /\ \/ Acquire(p, w.s) /\ Continue(p, w, {To("bound", w.s)}) /\ UNCHANGED history
       \/ CannotAcquire(p, w.s) /\ Continue(p, w, {Of("refused", w.s, {w.s})})
    /\ UNCHANGED tui

AppendTurn(p, w) ==
    /\ w.kind = "append"
    /\ \/ w.s \in Exist /\ Continue(p, w, {To("bound", w.s)}) /\ UNCHANGED history
       \/ /\ FailsUnless(w.s \notin Exist)
          /\ Continue(p, w, {Of("refused", w.s, {w.s})})
    /\ UNCHANGED <<rows, owner, left, tui>>

\* heroSessionBoundMsg; that of a turn cancelled meanwhile is ignored.  A chat
\* that came up meanwhile is forgotten with its lease.
Bound(p, w) ==
    /\ w.kind = "bound"
    /\ IF tui[p].live
       THEN /\ tui' = [tui EXCEPT ![p].chat = w.s, ![p].leased = w.s, ![p].lost = FALSE,
                                  ![p].hero = w.s]
            /\ Continue(p, w, {To("beat", w.s), To("run", w.s)})
            /\ IF {tui[p].chat, tui[p].leased} \subseteq {None, w.s} THEN UNCHANGED history
               ELSE Slip(p, "left")
       ELSE /\ Continue(p, w, {To("run", w.s)})
            /\ Slip(p, "left")
            /\ UNCHANGED tui
    /\ UNCHANGED <<rows, owner, left>>

\* The rows that deltas of the stream save meanwhile are saved with the answer.
Run(p, w) ==
    /\ w.kind = "run"
    /\ \E msg \in {"done", "failed"} : Continue(p, w, {To(msg, w.s)})
    /\ UNCHANGED <<database, tui>>

\* executeDoneMsg without an error queues the answer and drains.
Done(p, w) ==
    /\ w.kind = "done"
    /\ IF tui[p].live
       THEN LET t == [tui[p] EXCEPT !.streaming = FALSE, !.live = FALSE, !.hero = None,
                        !.unsaved = @ \cup
                           Known({IF tui[p].hero # None THEN tui[p].hero ELSE tui[p].chat})]
            IN /\ tui' = [tui EXCEPT ![p] = Drained(t)]
               /\ Continue(p, w, Drains(t))
       ELSE Continue(p, w, {}) /\ UNCHANGED tui
    /\ UNCHANGED database

Failed(p, w) ==
    /\ w.kind = "failed"
    /\ tui' = [tui EXCEPT ![p] = IF @.live
                 THEN [@ EXCEPT !.streaming = FALSE, !.live = FALSE, !.hero = None] ELSE @]
    /\ Continue(p, w, {})
    /\ UNCHANGED database

\* cancelStreamCmd empties executes at once; its message comes when the
\* workers have ended.
Cancel(p) ==
    /\ Command(p)
    /\ tui[p].streaming /\ To("cancelled", None) \notin work[p]
    /\ tui' = [tui EXCEPT ![p].live = FALSE]
    /\ work' = [work EXCEPT ![p] = @ \cup {To("cancelled", None)}]

Cancelled(p, w) ==
    /\ w.kind = "cancelled"
    /\ \A v \in work[p] : v.kind \notin TurnCalls \cup {"bound", "refused"}
    /\ LET t == [tui[p] EXCEPT !.streaming = FALSE, !.live = FALSE, !.hero = None,
                   !.unsaved = @ \cup Known({tui[p].chat})]
       IN /\ tui' = [tui EXCEPT ![p] = Drained(t)]
          /\ Continue(p, w, Drains(t))
    /\ UNCHANGED database

\* persistSessionSuffix, then the lease whose acquisition had failed.
Drain(p, w) ==
    /\ w.kind = "drain"
    /\ \/ /\ w.others \subseteq Exist
          /\ Continue(p, w, {IF w.s = None THEN To("persisted", None) ELSE Becomes(w, "attach")})
          /\ UNCHANGED history
       \/ /\ FailsUnless(~(w.others \subseteq Exist))
          /\ \E s \in w.others : Continue(p, w, {Of("persistFailed", s, w.others)})
    /\ UNCHANGED <<rows, owner, left, tui>>

Attach(p, w) ==
    /\ w.kind = "attach"
    /\ \/ Acquire(p, w.s) /\ Continue(p, w, {To("attached", w.s)}) /\ UNCHANGED history
       \/ CannotAcquire(p, w.s) /\ Continue(p, w, {Becomes(w, "persistFailed")})
    /\ UNCHANGED tui

\* sessionPersistErrMsg; the turn that was refused ends with it.  A chat without
\* a session takes that of the events, also while it is loading another one.
NotSaved(t, w) ==
    LET takes == t.chat \in {None, w.s}
    IN [t EXCEPT !.unsaved = @ \cup w.others,
                 !.chat = IF takes THEN w.s ELSE @,
                 !.retry = IF takes /\ t.leased # w.s THEN w.s ELSE @,
                 !.blocked = TRUE]

PersistFailed(p, w) ==
    /\ w.kind \in {"persistFailed", "refused"}
    /\ \/ /\ tui' = [tui EXCEPT ![p] = NotSaved(@, w)]
          /\ Continue(p, w, IF w.kind = "refused" THEN {To("failed", w.s)} ELSE {})
          /\ IF /\ tui[p].chat = None /\ tui[p].leased # w.s
                /\ Opening(p) \/ tui[p].leased # None
             THEN Slip(p, "left") ELSE UNCHANGED history
       \/ /\ w.kind = "refused" /\ ~tui[p].live   \* dropped by the stopped relay
          /\ Continue(p, w, {})
          /\ UNCHANGED <<tui, history>>
    /\ UNCHANGED <<rows, owner, left>>

Persisted(p, w) ==
    /\ w.kind = "persisted"
    /\ tui' = [tui EXCEPT ![p].blocked = FALSE]
    /\ Continue(p, w, {})
    /\ UNCHANGED database

\* sessionPersistOKMsg of a drain that took the lease: a chat that no longer
\* waits for it releases it again.
Attached(p, w) ==
    /\ w.kind = "attached"
    /\ IF tui[p].retry = w.s /\ tui[p].chat \in {None, w.s}
       THEN /\ tui' = [tui EXCEPT ![p].chat = w.s, ![p].leased = w.s, ![p].retry = None,
                                  ![p].lost = FALSE, ![p].blocked = FALSE]
            /\ Continue(p, w, {To("beat", w.s)})
            /\ IF Opening(p) \/ tui[p].leased \notin {None, w.s}
               THEN Slip(p, "left") ELSE UNCHANGED history
       ELSE /\ Continue(p, w, {To("release", w.s)})
            /\ IF Opening(p) THEN Slip(p, "left") ELSE UNCHANGED history
            /\ UNCHANGED tui
    /\ UNCHANGED <<rows, owner, left>>

-----------------------------------------------------------------------------
UserStep(p) ==
    \/ BeginOpen(p) \/ BeginArchive(p) \/ BeginDelete(p)
    \/ SkipImport(p) \/ ConfirmImport(p) \/ DeclineFork(p) \/ ConfirmFork(p)
    \/ NewChat(p) \/ Submit(p) \/ RetrySave(p) \/ Cancel(p)

WorkStep(p) ==
    \E w \in work[p] :
       \/ Beat(p, w) \/ LeaseLost(p, w)
       \/ ReleaseLease(p, w) \/ CompareEpochs(p, w) \/ Reacquire(p, w) \/ RestoreLease(p, w)
       \/ Released(p, w) \/ ReleaseFailed(p, w) \/ RetryRelease(p, w)
       \/ OpenTarget(p, w) \/ BumpEpoch(p, w) \/ Validate(p, w) \/ Leave(p, w) \/ Undo(p, w)
       \/ OpenFailed(p, w) \/ NeedFork(p, w) \/ Opened(p, w)
       \/ Import(p, w) \/ Imported(p, w) \/ ImportFailed(p, w)
       \/ Fork(p, w) \/ ForkLease(p, w) \/ Load(p, w)
       \/ Restored(p, w) \/ NotRestored(p, w)
       \/ Archive(p, w) \/ Delete(p, w) \/ Removed(p, w) \/ RemoveFailed(p, w)
       \/ CreateSession(p, w) \/ FirstLease(p, w) \/ AppendTurn(p, w) \/ Bound(p, w)
       \/ Run(p, w) \/ Done(p, w) \/ Failed(p, w) \/ Cancelled(p, w)
       \/ Drain(p, w) \/ Attach(p, w) \/ PersistFailed(p, w) \/ Persisted(p, w)
       \/ Attached(p, w)

Next == Tick \/ \E p \in Tuis : Heartbeat(p) \/ UserStep(p) \/ WorkStep(p)

Spec == Init /\ [][Next]_vars

-----------------------------------------------------------------------------
(* Properties, for the users who wait while History opens a session.       *)

\* History has left the chat's session for the one it is opening.
Switching(p) ==
    \/ tui[p].asks = "import"
    \/ \E w \in work[p] : w.kind \in {"opened", "import", "imported", "importFailed"}

\* A heartbeat, release or restoration of s by p is on its way.
Unsettled(p, s) ==
    \E w \in work[p] : w.s = s /\ w.kind \in LeaseCalls \cup {"lost", "released", "releaseFailed"}

\* What a TUI believes about its lease is true: the session it continues is
\* leased to it, unless History has just left it for another one, a heartbeat,
\* release or restoration of it is still on its way and will end the belief or
\* take the lease again, or one of its leases expired or was given up by its
\* own releases (the places that record "gone" are the open questions of the
\* code): two TUIs never continue one session for long.
LeaseIsHeld ==
    \A p \in Tuis \ Hasty :
        LET s == tui[p].leased
        IN s \in Exist => \/ owner[s] = p
                          \/ Switching(p) \/ Unsettled(p, s)
                          \/ <<p, "late">> \in history.slips
                          \/ <<p, "gone">> \in history.slips

\* Steps of a release.
Releasing == {"release", "compare", "reacquire", "released", "releaseFailed"}

\* A release that failed is never forgotten: as long as the TUI lists it as
\* pending, something on its way will try it again, or report that it is done.
PendingIsCleanedUp ==
    \A p \in Tuis, s \in Sessions :
        s \in tui[p].pending =>
            \E w \in work[p] :
                w.s = s /\ w.kind \in Releasing \cup {"retry"}

\* What p does with s ends with the session in its chat or its lease released.
Taking == {"bump", "validate", "leave", "undo", "opened", "import", "imported",
           "importFailed", "bound", "attached"}
Concerned(p, s) ==
    \E w \in work[p] : \/ w.s = s /\ w.kind \in Releasing \cup Taking
                       \/ s \in w.others /\ w.kind \in {"undo", "openFailed", "needFork"}

\* No lease outlives its use: one that a TUI holds belongs to its chat, to
\* the session whose import it offers, to a release that is pending, or to
\* a command or message that will bring it there or release it; else other
\* TUIs are kept out of the session until it expires.  The places that record
\* "left" are the exceptions.
NoLeaseLeftBehind ==
    \A p \in Tuis \ Hasty, s \in Sessions :
        owner[s] = p =>
            \/ s \in {tui[p].chat, tui[p].leased} \cup tui[p].pending
            \/ tui[p].asks = "import" /\ tui[p].subject = s
            \/ Concerned(p, s)
            \/ <<p, "left">> \in history.slips
=============================================================================
